-------------------------------- MODULE Site --------------------------------
(***************************************************************************)
(* What the workers do with a whole request: do_request (http_conn.cpp)    *)
(* finds a file or a view, and the views of UserMain.cpp log users in and  *)
(* register them, with the users map in memory, the user table in the      *)
(* database, the rendered welcome pages on disk and the thread-local store *)
(* (ThreadLocal.h) between them.                                           *)
(*                                                                         *)
(* Where the code reads or writes what it may not (a map that another      *)
(* worker inserts into, a request that was deleted, a buffer that is too   *)
(* short) it may do no harm, or anything, after which nothing is claimed   *)
(* any more: status "corrupt".                                             *)
(***************************************************************************)
EXTENDS Routing

CONSTANTS Workers,
          Objects,    \* http_conn objects, one per descriptor
          Requests,   \* what clients ask for: method, url and body
          Leftovers,  \* what an m_string of an earlier request may point at
          FileOf,     \* of a name, the name whose page's file it gets
          FirstRows,  \* what the user table holds before the first start
          OtherRows,  \* what a misread insertion may store
          Settings,   \* the settings to consider
          MaxRows,    \* bound: rows the table may get
          None

(* What a POST may get appended, and the names and passwords the views can *)
(* be given.                                                               *)
Urls == {r.url : r \in Requests} \union {<< >>, <<"/", "login">>}
Bodies == {r.body : r \in Requests} \union Leftovers \union {<< >>}
Appended(url, body) == Relative(url, TRUE, body)
Queries == {Appended(url, body) : url \in Urls, body \in Bodies}
User == <<"user">>
Password == <<"password">>
Names == {Param(url, User) : url \in Queries}
Passwords == {Param(url, Password) : url \in Queries}

(* A setting says what clients ask for; whether the table's names are a    *)
(* key (unique); whether the answer of an insertion that was done always   *)
(* arrives (reliable); and whether the disk takes every page whole (room). *)
ASSUME SiteAssumption ==
         /\ Settings \subseteq [asks : SUBSET Requests, unique : BOOLEAN, reliable : BOOLEAN,
                              room : BOOLEAN]
         /\ \A r \in Requests : IsText(r.url) /\ IsText(r.body)
         /\ \A text \in Leftovers : IsText(text)
         /\ FileOf \in [Names -> Names]
         /\ FirstRows \in Seq({<<r[1], r[2]>> : r \in Range(FirstRows)})
         /\ \A r \in OtherRows : r = <<r[1], r[2]>>
         /\ None \notin Workers \union Objects

VARIABLES
  setting,    \* which never changes
  rows,       \* the user table: <<name, password>>, in the order stored
  misread,    \* history: an insertion was not read as it was meant
  users,      \* userTable, a function from names to passwords
  lock,       \* m_lock: the worker that holds it
  inserting,  \* workers that are inserting into users
  known,      \* workers with a local map in the thread-local store
  starting,   \* workers that are inserting theirs
  current,    \* per worker: "current_user" in its local map
  request,    \* per worker: the thread's request, "none", "live" or "freed"
  m_string,   \* per object: whether it points into the read buffer
  files,      \* per name: the rendered page in the file of that name
  worker,     \* per worker: its request and what became of it
  status      \* up, down or corrupt

storeVars == <<rows, misread, users, lock, inserting>>
localVars == <<known, starting, current>>
objectVars == <<request, m_string>>
vars == <<setting, storeVars, localVars, objectVars, files, worker, status>>

(* A page on disk: whose pages its text is from, and whether to the end.   *)
NoFile == [there |-> FALSE, of |-> {}, whole |-> FALSE]
Idle == [at |-> "idle", object |-> None, method |-> "GET", url |-> << >>,
         body |-> << >>, text |-> << >>, view |-> "none",
         name |-> << >>, pass |-> << >>, page |-> "none", shown |-> NoFile]

(* initmysql_result(): a later row of the same name replaces an earlier.   *)
Load(stored) ==
  LET names == {stored[i][1] : i \in DOMAIN stored}
      Latest(n) == CHOOSE i \in DOMAIN stored :
                   stored[i][1] = n /\ \A j \in DOMAIN stored : stored[j][1] = n => j <= i
  IN [n \in names |-> stored[Latest(n)][2]]

Init ==
  /\ setting \in Settings
  /\ rows = FirstRows /\ users = Load(FirstRows) /\ misread = FALSE
  /\ lock = None /\ inserting = {}
  /\ known = {} /\ starting = {}
  /\ current = [w \in Workers |-> << >>]
  /\ request = [w \in Workers |-> "none"]
  /\ m_string = [o \in Objects |-> FALSE]
  /\ files = [n \in Names |-> NoFile]
  /\ worker = [w \in Workers |-> Idle]
  /\ status = "up"

-----------------------------------------------------------------------------
Step(w, l) == worker[w].at = l
Goto(w, l) == worker' = [worker EXCEPT ![w].at = l]
Answer(w, page) == worker' = [worker EXCEPT ![w].at = "send", ![w].page = page]

(* The process is gone, and with it all that is not on disk.               *)
Gone == /\ users' = Load(<< >>) /\ lock' = None /\ inserting' = {}
        /\ known' = {} /\ starting' = {}
        /\ current' = [w \in Workers |-> << >>]
        /\ request' = [w \in Workers |-> "none"]
        /\ m_string' = [o \in Objects |-> FALSE]
        /\ worker' = [w \in Workers |-> Idle]
        /\ UNCHANGED <<rows, misread, files>>

Exit == status' = "down" /\ Gone

(* A request is taken on an object no other worker has.  Its body is what  *)
(* gets appended to the url of a POST.  Without one, m_string is what the  *)
(* object was left with, for init() does not clear it: nothing, or a place *)
(* in the read buffer, where some end of a line of this request is.        *)
Take(w) ==
  /\ Step(w, "idle")
  /\ \E r \in setting.asks, o \in Objects \ {worker[v].object : v \in Workers} :
     \E text \in (IF r.body # << >> THEN {r.body}
                  ELSE IF m_string[o] THEN Leftovers ELSE {<< >>}) :
       /\ worker' = [worker EXCEPT ![w] = [Idle EXCEPT !.at = "request", !.object = o,
                       !.method = r.method, !.url = r.url, !.body = r.body, !.text = text]]
       /\ m_string' = [m_string EXCEPT ![o] = @ \/ r.body # << >>]
  /\ UNCHANGED <<storeVars, localVars, request, files, status>>

(* The url with its query, as makeRequest() is given it.                   *)
RequestUrl(w) == Relative(worker[w].url, worker[w].method = "POST", worker[w].text)

(* do_request(): a file by its url, the site's folder if no view matches,  *)
(* or a view.  The thread's request is made, or made again where the last  *)
(* one was, even if that was deleted.                                      *)
DoRequest(w) ==
  LET url == RequestUrl(w)
  IN /\ Step(w, "request")
     /\ Parses(url)
     /\ \/ IsResRequest(url) /\ Answer(w, "file")
        \/ /\ ~IsResRequest(url) /\ Dispatch(Path(url)) = "none"
           /\ Answer(w, "folder")
        \/ /\ ~IsResRequest(url) /\ Dispatch(Path(url)) # "none"
           /\ worker' = [worker EXCEPT ![w].at = "local", ![w].view = Dispatch(Path(url))]
     /\ request' = [request EXCEPT ![w] = IF @ = "none" THEN "live" ELSE @]
     /\ UNCHANGED <<storeVars, localVars, m_string, files, status>>

BadRequest(w) == Step(w, "request") /\ ~Parses(RequestUrl(w)) /\ Exit

(* ThreadLocal::put(): a thread's first use inserts its local map.         *)
GetLocalMap(w) ==
  /\ Step(w, "local")
  /\ \/ w \in known /\ Goto(w, "view") /\ UNCHANGED starting
     \/ w \notin known /\ Goto(w, "create") /\ starting' = starting \union {w}
  /\ UNCHANGED <<storeVars, known, current, objectVars, files, status>>

InitLocalMap(w) ==
  /\ Step(w, "create")
  /\ known' = known \union {w} /\ starting' = starting \ {w}
  /\ Goto(w, "view")
  /\ UNCHANGED <<storeVars, current, objectVars, files, status>>

-----------------------------------------------------------------------------
(* The views.  Those that only name a page, login and register for a GET   *)
(* among them.                                                             *)
Static == [href |-> "h", req_picture |-> "picture", req_video |-> "video",
           follow |-> "fans", login |-> "index", register |-> "register"]

Show(w) ==
  /\ Step(w, "view")
  /\ worker[w].view \in {"login", "register"} => worker[w].method = "GET"
  /\ Answer(w, Static[worker[w].view])
  /\ UNCHANGED <<storeVars, localVars, objectVars, files, status>>

Posted(w, view) == /\ Step(w, "view")
                   /\ worker[w].view = view /\ worker[w].method = "POST"

(* getParams() of a request without parameters.                            *)
NoParams(w) == /\ \E view \in {"login", "register"} : Posted(w, view)
               /\ ~HasParams(RequestUrl(w))
               /\ Exit

(* The parameters a view reads; where it goes on with them.                *)
UserOf(w) == Param(RequestUrl(w), User)
PasswordOf(w) == Param(RequestUrl(w), Password)
With(w, l) == worker' = [worker EXCEPT ![w].at = l, ![w].name = UserOf(w),
                                       ![w].pass = PasswordOf(w)]

Registered(name) == name \in DOMAIN users
Matches(name, pass) == /\ name # << >> /\ pass # << >>
                       /\ Registered(name) /\ users[name] = pass

Login(w) ==
  /\ Posted(w, "login") /\ HasParams(RequestUrl(w))
  /\ \/ Matches(UserOf(w), PasswordOf(w)) /\ With(w, "render")
     \/ ~Matches(UserOf(w), PasswordOf(w)) /\ Answer(w, "logError")
  /\ UNCHANGED <<storeVars, localVars, objectVars, files, status>>

(* renderTemplateOn(): the name goes into the thread's local map and from  *)
(* there into the name of the file, unless the template is not to be had.  *)
PutUser(w) ==
  /\ Step(w, "render")
  /\ \/ current' = [current EXCEPT ![w] = worker[w].name] /\ Goto(w, "open")
     \/ Answer(w, "template") /\ UNCHANGED current
  /\ UNCHANGED <<storeVars, known, starting, objectVars, files, status>>

(* The path is the root's, the route's, the name and the page's: where the *)
(* name has a slash in it, the file may be the one of another name.        *)
FaultyRenderedFile(w) == CHOOSE n \in Names : TRUE           \* one for all users
RenderedFile(w) == FileOf[current[w]]

(* The file is there after open(), if mkdir() and open() succeed.  If they *)
(* do not, the descriptor is -1, write() writes nothing, and the page is   *)
(* the file of that name all the same.                                     *)
Open(w) ==
  /\ Step(w, "open")
  /\ \/ files' = [files EXCEPT ![RenderedFile(w)].there = TRUE] /\ Goto(w, "write")
     \/ Answer(w, "welcome") /\ UNCHANGED files
  /\ UNCHANGED <<storeVars, localVars, objectVars, status>>

(* The template shows nothing but the name.  A page is written over an     *)
(* older one, which is not cut to its length; a full disk takes only the   *)
(* beginning, or nothing.                                                  *)
WritePage(w) ==
  LET name == worker[w].name
      old == files[RenderedFile(w)]
      Becomes(page) == files' = [files EXCEPT ![RenderedFile(w)] = page]
  IN /\ Step(w, "write")
     /\ \/ \E of \in {{name}, old.of \union {name}} :
             Becomes([there |-> TRUE, of |-> of, whole |-> TRUE])
        \/ /\ ~setting.room
           /\ Becomes([there |-> TRUE, of |-> old.of \union {name},
                       whole |-> old.whole /\ name \in old.of])
        \/ ~setting.room /\ UNCHANGED files
     /\ Answer(w, "welcome")
     /\ UNCHANGED <<storeVars, localVars, objectVars, status>>

(* route_register: the name is looked up, the row inserted under m_lock,   *)
(* and the map changed after that.                                         *)
Register(w) ==
  /\ Posted(w, "register") /\ HasParams(RequestUrl(w))
  /\ \/ Registered(UserOf(w)) /\ Answer(w, "registerError")
     \/ ~Registered(UserOf(w)) /\ With(w, "lock")
  /\ UNCHANGED <<storeVars, localVars, objectVars, files, status>>

Lock(w) == /\ Step(w, "lock") /\ lock = None
           /\ lock' = w
           /\ Goto(w, "query")
           /\ UNCHANGED <<rows, misread, users, inserting, localVars, objectVars, files, status>>

(* The statement is the name and the password between quotes, as they are. *)
(* With a quote or a backslash in them, or more than the column takes, it  *)
(* says something else; what that does is for the database to tell: here   *)
(* it refuses it or stores another row.                                    *)
Plain(text) == \A symbol \in {"'", "\\", "long"} : ~Has(text, symbol)
Read(w) == IF Plain(worker[w].name) /\ Plain(worker[w].pass)
           THEN {<<worker[w].name, worker[w].pass>>} ELSE OtherRows

Query(w) ==
  LET Taken(name) == \E i \in DOMAIN rows : rows[i][1] = name
      Stores(row) == /\ ~(setting.unique /\ Taken(row[1]))
                     /\ Len(rows) < MaxRows /\ rows' = Append(rows, row)
  IN /\ Step(w, "query")
     /\ misread' = (misread \/ ~Plain(worker[w].name) \/ ~Plain(worker[w].pass))
     /\ \/ (\E row \in Read(w) : Stores(row)) /\ Goto(w, "stored")
        \/ ~setting.reliable /\ (\E row \in Read(w) : Stores(row)) /\ Goto(w, "refused")
        \/ Goto(w, "refused") /\ UNCHANGED rows
     /\ UNCHANGED <<users, lock, inserting, localVars, objectVars, files, status>>

FaultyUnlock(w) ==                                   \* res is not looked at
  /\ worker[w].at \in {"stored", "refused"}
  /\ lock' = None
  /\ Goto(w, "insert")
  /\ UNCHANGED <<rows, misread, users, inserting, localVars, objectVars, files, status>>
Unlock(w) ==
  /\ \/ Step(w, "stored") /\ Goto(w, "insert")
     \/ Step(w, "refused") /\ Answer(w, "registerError")
  /\ lock' = None
  /\ UNCHANGED <<rows, misread, users, inserting, localVars, objectVars, files, status>>

Insert(w) == /\ Step(w, "insert")
             /\ inserting' = inserting \union {w}
             /\ Goto(w, "inserted")
             /\ UNCHANGED <<rows, misread, users, lock, localVars, objectVars, files, status>>

Inserted(w) ==
  LET name == worker[w].name
  IN /\ Step(w, "inserted")
     /\ users' = [n \in DOMAIN users \union {name} |->
                    IF Registered(n) THEN users[n] ELSE worker[w].pass]
     /\ inserting' = inserting \ {w}
     /\ Goto(w, "redirect")
     /\ UNCHANGED <<rows, misread, lock, localVars, objectVars, files, status>>

(* redirect() to "/login" as a GET, which do_request() starts again with.  *)
(* m_url points into a string that is gone by then: its text may still be  *)
(* there, or be none that begins with a slash, which ends the process.     *)
Redirect(w) ==
  /\ Step(w, "redirect")
  /\ worker' = [worker EXCEPT ![w].at = "request", ![w].method = "GET",
                              ![w].url = <<"/", "login">>, ![w].text = << >>]
  /\ m_string' = [m_string EXCEPT ![worker[w].object] = FALSE]
  /\ UNCHANGED <<storeVars, localVars, request, files, status>>

BadRedirect(w) == Step(w, "redirect") /\ Exit

-----------------------------------------------------------------------------
(* The file of the page is mapped and sent.  If there is none, or nothing  *)
(* in it, process_write() fails and the connection is closed, which also   *)
(* deletes the thread's request.  The folder is answered by an error page. *)
Send(w) ==
  LET file == files[RenderedFile(w)]
  IN /\ Step(w, "send")
     /\ \/ /\ worker[w].page = "welcome" /\ file.of # {}
           /\ worker' = [worker EXCEPT ![w].at = "sent", ![w].shown = file]
        \/ /\ worker[w].page # "welcome"
           /\ worker' = [worker EXCEPT ![w] = Idle]
     /\ UNCHANGED <<storeVars, localVars, objectVars, files, status>>

CloseConn(w) ==
  /\ Step(w, "send")
  /\ worker[w].page = "welcome" => files[RenderedFile(w)].of = {}
  /\ worker[w].page # "folder"
  /\ request' = [request EXCEPT ![w] = "freed"]
  /\ worker' = [worker EXCEPT ![w] = Idle]
  /\ UNCHANGED <<storeVars, localVars, m_string, files, status>>

(* What the local map keeps as the current user is set anew before it is   *)
(* read again.                                                             *)
Finish(w) == /\ Step(w, "sent")
             /\ worker' = [worker EXCEPT ![w] = Idle]
             /\ current' = [current EXCEPT ![w] = << >>]
             /\ UNCHANGED <<storeVars, known, starting, objectVars, files, status>>

-----------------------------------------------------------------------------
(* A map is used while others insert into it.                              *)
Clashes(w) ==
  \/ worker[w].at \in {"local", "render", "open"} /\ starting # {}
  \/ worker[w].at = "insert" /\ inserting # {}
  \/ (\E view \in {"login", "register"} : Posted(w, view)) /\ inserting # {}

(* A name or a password is copied into 100 bytes, or both into a statement *)
(* of 200.                                                                 *)
Overruns(w) ==
  /\ \/ Posted(w, "login")
     \/ Posted(w, "register") /\ ~Registered(UserOf(w))
  /\ Has(UserOf(w), "long") \/ Has(PasswordOf(w), "long")

(* The thread's request is where one was deleted.                          *)
Dangles(w) == request[w] = "freed" /\ worker[w].at \notin {"idle", "sent"}

Corrupt(w) == /\ Clashes(w) \/ Overruns(w) \/ Dangles(w)
              /\ status' = "corrupt" /\ Gone

(* The server is started again.                                            *)
Restart ==
  /\ status = "down"
  /\ status' = "up"
  /\ users' = Load(rows)
  /\ UNCHANGED <<rows, misread, lock, inserting, localVars, objectVars, files, worker>>

WorkerStep(w) == \/ Take(w) \/ DoRequest(w) \/ BadRequest(w) \/ Corrupt(w)
                 \/ GetLocalMap(w) \/ InitLocalMap(w)
                 \/ Show(w) \/ NoParams(w)
                 \/ Login(w) \/ PutUser(w) \/ Open(w) \/ WritePage(w)
                 \/ Register(w) \/ Lock(w) \/ Query(w) \/ Unlock(w)
                 \/ Insert(w) \/ Inserted(w) \/ Redirect(w) \/ BadRedirect(w)
                 \/ Send(w) \/ CloseConn(w) \/ Finish(w)

Next == /\ \/ status = "up" /\ \E w \in Workers : WorkerStep(w)
           \/ Restart
        /\ UNCHANGED setting

Spec == Init /\ [][Next]_vars

-----------------------------------------------------------------------------
(* A url without its query, and the view it names.                         *)
Bare(url) == IF Has(url, "?") THEN SubSeq(url, 1, IndexOf(url, "?") - 1) ELSE url
Named(url) ==
  IF IsPrefix(<<"/", "href", "/">>, url) THEN "href"
  ELSE IF Len(url) > 1 /\ url[1] = "/" /\ url[2] \in DOMAIN Static \ {"href"} THEN url[2]
  ELSE "none"

(* A request, sent or redirected, gets the view its route names, whatever  *)
(* its query is and whatever a POST gets appended, its body or what is     *)
(* left of another's - unless they hold a dot, which makes it a request    *)
(* for a file.  (Urls with a protocol lose their route when they have a    *)
(* query.)                                                                 *)
RightView == \A w \in Workers :
  LET asked == worker[w]
  IN (/\ asked.at \in {"local", "send"} /\ asked.url[1] = "/"
      /\ ~Has(asked.url, ".") /\ ~Has(asked.text, ".")) =>
     /\ asked.at = "local" => asked.view = Named(Bare(asked.url))
     /\ asked.page = "folder" => Named(Bare(asked.url)) = "none"
     /\ asked.page # "file"

(* A welcome page is sent only to who gave a name and a password of the    *)
(* user table, as long as every insertion was read as it was meant.  And   *)
(* unless names that are asked for share a file, it shows that name and no *)
(* other, whoever else logs in at the same time and whatever fails, and it *)
(* is whole if the disk has room.                                          *)
Alone(name) == \A n \in Names : FileOf[n] = FileOf[name] => n = name

OwnPage == status = "up" =>
  \A w \in Workers :
    LET asked == worker[w]
    IN Step(w, "sent") =>
         /\ misread \/ \E i \in DOMAIN rows : rows[i] = <<asked.name, asked.pass>>
         /\ Alone(asked.name) => /\ asked.shown.of = {asked.name}
                                 /\ setting.room => asked.shown.whole

(* Unless a registration is under way, the users map is what it would be   *)
(* after a restart: no registration is forgotten, none comes back, and no  *)
(* password changes.  That takes a table whose names are a key, for two    *)
(* workers may both find a name free; answers that are not lost; and that  *)
(* no insertion was misread.                                               *)
RestartChangesNothing ==
  (/\ status = "up" /\ setting.unique /\ setting.reliable /\ ~misread
   /\ \A w \in Workers : worker[w].at \notin {"stored", "insert", "inserted"}) =>
     users = Load(rows)
=============================================================================
