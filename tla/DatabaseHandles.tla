--------------------------- MODULE DatabaseHandles ---------------------------
(***************************************************************************)
(* Who uses which SQLite connection to proj.db: SQLiteHandleCache, and     *)
(* DatabaseContext::Private with its handle, its auxiliary databases and   *)
(* its insertion session (iso19111/factory.cpp), in a program with threads *)
(* that forks, built as REOPEN_SQLITE_DB_AFTER_FORK.                       *)
(*                                                                         *)
(* The memory of a process is one record, its image; a fork copies it, the *)
(* mutexes and the connections included, and of the threads keeps one.     *)
(* Nothing the model describes is shared by the two processes afterwards,  *)
(* so a behaviour follows one of them: at each fork, the parent or the     *)
(* child.                                                                  *)
(*                                                                         *)
(* A call is cut at each mutex it takes: sMutex_ of the cache, and the one *)
(* SQLite keeps in a connection opened with SQLITE_OPEN_FULLMUTEX, which a *)
(* query and sqlite3_finalize need.  A query, the opening of the file and  *)
(* the attachment of databases may throw, whatever was done before.        *)
(*                                                                         *)
(* One file and one custom_sqlite3_vfs_name, hence one key of the cache.   *)
(***************************************************************************)
EXTENDS Naturals

CONSTANTS
    Threads,
    Contexts,       \* the PJ_CONTEXTs, each with its DatabaseContext
    ThreadOf,       \* the one thread that uses a context
    Default,        \* the default context, which proj_cleanup closes
    WithAux,        \* the contexts that have auxiliary databases
    MaxProcesses,   \* bound: the first process, a child of it, one of that, ...
    MaxCleanups,    \* bound: the calls of proj_cleanup of a process and its parents
    None

ASSUME EveryContextHasAThread == ThreadOf \in [Contexts -> Threads]
ASSUME DefaultIsAContext == Default \in Contexts /\ WithAux \subseteq Contexts
ASSUME BoundsArePositive == MaxProcesses \in Nat \ {0} /\ MaxCleanups \in Nat

Processes == 1..MaxProcesses

VARIABLES
    image,     \* the memory of the process
    pid,       \* which process it is
    strays,    \* history: connections its contexts had, and not the cache, at its fork
    caught     \* history: what else went on when it was forked

history == <<pid, strays, caught>>
vars == <<image, history>>

(* A connection: the process that opened it, and the context whose memory  *)
(* database it is or which of the openings of the file it was.             *)
File(p, k) == [by |-> p, of |-> None, nr |-> k]
Memory(p, c) == [by |-> p, of |-> c, nr |-> 0]
Connections == {File(p, k) : p \in Processes, k \in 1..(MaxCleanups + 1)}
                 \cup {Memory(p, c) : p \in Processes, c \in Contexts}

ASSUME NoneIsNothing == None \notin Threads \cup Contexts \cup Connections

(* statements: the connections that mapSqlToStatement_ has statements of;  *)
(* sees: whether the tables of the database can be named in a query;       *)
(* session: memoryDbHandle_ is set; failed, a history: an attachment of    *)
(* databases has thrown since then.                                        *)
Database == [open : BOOLEAN, conn : Connections \cup {None}, statements : SUBSET Connections,
             sees : BOOLEAN, session : BOOLEAN, failed : BOOLEAN]
Closed == [open |-> FALSE, conn |-> None, statements |-> {}, sees |-> FALSE, session |-> FALSE,
           failed |-> FALSE]

Ops == {"query", "start", "stop", "close", "cleanup"}
Opening == {"lock", "register", "find"}
Stages == {"idle", "aborted", "handle", "finalize", "discard", "attach", "run", "running",
           "clear", "prepare", "fork", "forkHeld", "parentAfter", "childAfter"} \cup Opening

(* opens: whether the call is opening the database of its context, for the *)
(* first time or again after a fork, before it does what it was asked.     *)
Call == [stage : Stages, op : Ops, on : Contexts, opens : {"no", "first", "again"}]
Resting == [stage |-> "idle", op |-> "query", on |-> Default, opens |-> "no"]

Image == [firstTime : BOOLEAN, handlers : BOOLEAN, holder : Threads \cup {None},
          cache : Connections \cup {None}, invalid : SUBSET Connections,
          db : [Contexts -> Database], call : [Threads -> Call],
          alive : SUBSET Threads, opened : 0..(MaxCleanups + 1), cleanups : 0..MaxCleanups]
Fresh == [firstTime |-> TRUE, handlers |-> FALSE, holder |-> None, cache |-> None, invalid |-> {},
          db |-> [c \in Contexts |-> Closed], call |-> [t \in Threads |-> Resting],
          alive |-> Threads, opened |-> 0, cleanups |-> 0]

Init ==
    /\ image = Fresh
    /\ pid = 1
    /\ strays = {}
    /\ caught = {}

-----------------------------------------------------------------------------
At(t, stage) == t \in image.alive /\ image.call[t].stage = stage

On(m, t) == m.call[t].on
Of(m, t) == m.db[On(m, t)]
Asked(m, t) == m.call[t].op

Opens(m, t) == m.call[t].opens # "no"

GoesOpening(m, t, stage, how) ==
    [m EXCEPT !.call[t] = [@ EXCEPT !.stage = stage, !.opens = how]]
Goes(m, t, stage) == GoesOpening(m, t, stage, m.call[t].opens)
Becomes(m, t, db) == [m EXCEPT !.db[On(m, t)] = db]
Returns(m, t) == [m EXCEPT !.call[t] = Resting]
Unlocked(m) == [m EXCEPT !.holder = None]
To(m) == image' = m /\ UNCHANGED history

(* Another thread of the image holds the mutex of connection k, whether it *)
(* still runs or was left behind by a fork.                                *)
InUse(m, k, t) == \E u \in Threads \ {t} : m.call[u].stage = "running" /\ Of(m, u).conn = k

(* In stopInsertStatementsSession, which a destruction begins with.        *)
Stopping(m, t) == ~Opens(m, t) /\ Asked(m, t) \in {"stop", "close", "cleanup"}

(* An exception: a destruction goes on with the members of the context,    *)
(* and a context that was being created is destroyed. Any other call ends, *)
(* with the context as it is.                                              *)
Thrown(m, t) ==
    IF Asked(m, t) \in {"close", "cleanup"} \/ m.call[t].opens = "first"
    THEN Goes(m, t, "discard")
    ELSE Returns(m, t)

-----------------------------------------------------------------------------
(* A thread calls something on a context at rest: a function that queries  *)
(* the database, which it opens first if need be (getDatabaseContext); the *)
(* start or the end of an insertion session; the destruction of the        *)
(* context; proj_cleanup, which begins with that of the default context.   *)
Begin(t, c, op) ==
    LET m == image
        open == m.db[c].open
        stage == CASE op \in {"query", "start"} -> IF open THEN "handle" ELSE "lock"
                   [] op = "stop" -> "handle"
                   [] OTHER -> IF m.db[c].session THEN "handle" ELSE "discard"
        how == IF stage = "lock" THEN "first" ELSE "no"
    IN  /\ At(t, "idle")
        /\ ThreadOf[c] = t
        /\ op = "start" => ~m.db[c].session
        /\ op = "stop" => m.db[c].session
        /\ op = "close" => open
        /\ op = "cleanup" => c = Default /\ m.cleanups < MaxCleanups
        /\ To([m EXCEPT !.call[t] = [stage |-> stage, op |-> op, on |-> c, opens |-> how]])

(* DatabaseContext::Private::handle(), then the assertion of run().        *)
Handle(t) ==
    LET m == image
        k == Of(m, t).conn
    IN  /\ At(t, "handle")
        /\ To(IF k = None THEN Goes(m, t, "aborted")
                 ELSE IF k \in m.invalid THEN GoesOpening(m, t, "finalize", "again")
                 ELSE Goes(m, t, "run"))

(* closeDB(): the statements, each of which takes the mutex of its         *)
(* connection, then the handle.                                            *)
(* A plausible mistake: the statements of the old connection are kept.     *)
WithoutHandleOnly(db) == [db EXCEPT !.conn = None, !.sees = FALSE]
WithoutHandle(db) == [db EXCEPT !.statements = {}, !.conn = None, !.sees = FALSE]

Finalize(t) ==
    LET m == image
    IN  /\ At(t, "finalize")
        /\ \A k \in Of(m, t).statements : ~InUse(m, k, t)
        /\ To(Goes(Becomes(m, t, WithoutHandle(Of(m, t))), t, "lock"))

(* The same in the destructor, with all that the context had.              *)
Discard(t) ==
    LET m == image
        gone == Becomes(m, t, Closed)
    IN  /\ At(t, "discard")
        /\ \A k \in Of(m, t).statements : ~InUse(m, k, t)
        /\ To(IF Asked(m, t) = "cleanup" THEN Goes(gone, t, "clear") ELSE Returns(gone, t))

-----------------------------------------------------------------------------
(* SQLiteHandleCache::getHandle, from DatabaseContext::Private::open. The  *)
(* first call of the process registers the handlers of fork.               *)
Lock(t) ==
    LET m == image
    IN  /\ At(t, "lock")
        /\ m.holder = None
        /\ To(Goes([m EXCEPT !.holder = t, !.firstTime = FALSE],
                      t, IF m.firstTime THEN "register" ELSE "find"))

Register(t) ==
    /\ At(t, "register")
    /\ To(Goes([image EXCEPT !.handlers = TRUE], t, "find"))

(* With its handle an opening goes on with the auxiliary databases, if     *)
(* there are any, or is over; and so is the end of a session.              *)
Opened(m, t, k) ==
    LET db == [Of(m, t) EXCEPT !.open = TRUE, !.conn = k, !.sees = TRUE,
                               !.session = @ /\ Opens(m, t), !.failed = @ /\ Opens(m, t)]
        had == Becomes(m, t, db)
    IN  IF Stopping(m, t)
        THEN IF Asked(m, t) = "stop" THEN Returns(had, t) ELSE Goes(had, t, "discard")
        ELSE GoesOpening(had, t, "run", IF On(m, t) \in WithAux THEN m.call[t].opens ELSE "no")

(* A plausible mistake: what was opened is not found again.                *)
GetAnother(t) ==
    LET m == image
        new == File(pid, m.opened + 1)
    IN  /\ At(t, "find")
        /\ To(Unlocked(Opened([m EXCEPT !.cache = new, !.opened = @ + 1], t, new)))
Get(t) ==
    LET m == image
        new == File(pid, m.opened + 1)
    IN  /\ At(t, "find")
        /\ To(Unlocked(IF m.cache # None THEN Opened(m, t, m.cache)
                          ELSE Opened([m EXCEPT !.cache = new, !.opened = @ + 1], t, new)))

(* The file cannot be opened. A context that existed and goes on is left   *)
(* without a handle, and with its session.                                 *)
GetFails(t) ==
    LET m == image
    IN  /\ At(t, "find")
        /\ m.cache = None
        /\ To(Unlocked(Thrown(m, t)))

(* SQLiteHandleCache::clear, at the end of proj_cleanup.                   *)
Clear(t) ==
    LET m == image
    IN  /\ At(t, "clear")
        /\ m.holder = None
        /\ To(Returns([m EXCEPT !.cache = None, !.cleanups = @ + 1], t))

-----------------------------------------------------------------------------
(* DatabaseContext::Private::run: the statement is prepared and executed   *)
(* under the mutex of the connection.                                      *)
Run(t) ==
    LET m == image
        db == Of(m, t)
    IN  /\ At(t, "run")
        /\ ~InUse(m, db.conn, t)
        /\ To(Goes(Becomes(m, t, [db EXCEPT !.statements = @ \cup {db.conn}]), t, "running"))

(* A query returns; one for the tables is followed by the rest of          *)
(* attachExtraDatabases, which without a list opens the file again.        *)
(* A plausible mistake: a memory database is made for an empty list too.   *)
AlwaysAttaches(m, t) ==
    Goes(m, t, "attach")
AfterTables(m, t) ==
    Goes(m, t, IF Stopping(m, t) /\ On(m, t) \notin WithAux THEN "finalize" ELSE "attach")

Ran(t) ==
    LET m == image
    IN  /\ At(t, "running")
        /\ To(IF Asked(m, t) = "query" /\ ~Opens(m, t) THEN Returns(m, t) ELSE AfterTables(m, t))

(* A statement cannot be prepared, or executed. At the start of a session  *)
(* that may be before or after its own database was opened.                *)
StartsSession(t) == Asked(image, t) = "start" /\ ~Opens(image, t)
RunFails(t) ==
    LET m == image
        db == Of(m, t)
    IN  /\ At(t, "running") \/ (At(t, "run") /\ ~InUse(m, db.conn, t))
        /\ \E begun \in {FALSE, StartsSession(t)} :
               To(Thrown(Becomes(m, t, [db EXCEPT !.session = @ \/ begun]), t))

(* attachExtraDatabases with a list: closeDB, a memory database to which   *)
(* the files are attached, and views on the tables that were found in the  *)
(* main database of the connection before, which is the file or nothing.   *)
Attach(t) ==
    LET m == image
        db == Of(m, t)
        k == Memory(pid, On(m, t))
        attached == Becomes(m, t, [db EXCEPT !.conn = k, !.statements = {k},
                                             !.sees = @ /\ db.conn.of = None,
                                             !.session = (@ /\ Opens(m, t)) \/ StartsSession(t),
                                             !.failed = @ /\ Opens(m, t)])
    IN  /\ At(t, "attach")
        /\ ~InUse(m, db.conn, t)
        /\ To(IF Opens(m, t) THEN GoesOpening(attached, t, "run", "no")
                 ELSE IF Asked(m, t) \in {"start", "stop"} THEN Returns(attached, t)
                 ELSE Goes(attached, t, "discard"))

(* After closeDB there is no memory database, or the main file or another  *)
(* cannot be attached to it, or has another layout, or a view cannot be    *)
(* made: the context keeps what it has then. A session that starts has its *)
(* own database already, and one that ends still has it.                   *)
AttachFails(t) ==
    LET m == image
        db == Of(m, t)
    IN  /\ At(t, "attach")
        /\ ~InUse(m, db.conn, t)
        /\ \E k \in {None, Memory(pid, On(m, t))} :
               To(Thrown(Becomes(m, t, [db EXCEPT !.conn = k, !.statements = {k} \ {None},
                                                  !.sees = FALSE,
                                                  !.session = @ \/ StartsSession(t),
                                                  !.failed = db.session \/ StartsSession(t)]), t))

-----------------------------------------------------------------------------
(* fork(), by a thread that is in no call. The handlers, if there are any, *)
(* take sMutex_ before and give it back after, in both processes.          *)
StartFork(t) ==
    /\ At(t, "idle")
    /\ \A u \in Threads, stage \in {"prepare", "fork", "forkHeld"} : ~At(u, stage)
    /\ To(Goes(image, t, IF image.handlers THEN "prepare" ELSE "fork"))

Prepare(t) ==
    /\ At(t, "prepare")
    /\ image.holder = None
    /\ To(Goes([image EXCEPT !.holder = t], t, "forkHeld"))

Forking(t) == At(t, "fork") \/ At(t, "forkHeld")
After(t, stage) ==
    IF At(t, "forkHeld") THEN Goes(image, t, stage) ELSE Returns(image, t)

ForkInParent(t) ==
    /\ Forking(t)
    /\ To(After(t, "parentAfter"))

(* What the other threads were doing, and their contexts, are still there  *)
(* in the child, and matter if they held the mutex of a connection.        *)
Left(m, t) ==
    LET holds(u) == u = t \/ m.call[u].stage = "running"
    IN  [m EXCEPT !.alive = {t}, !.opened = 0,
                  !.call = [u \in Threads |-> IF holds(u) THEN @[u] ELSE Resting],
                  !.db = [c \in Contexts |-> IF holds(ThreadOf[c]) THEN @[c] ELSE Closed]]

ForkInChild(t) ==
    /\ Forking(t)
    /\ pid < MaxProcesses
    /\ pid' = pid + 1
    /\ image' = Left(After(t, "childAfter"), t)
    /\ strays' = {image.db[c].conn : c \in Contexts} \ {None, image.cache}
    /\ caught' = (IF At(t, "fork") /\ ~image.firstTime THEN {"first opening"} ELSE {})
                    \cup IF \E u \in Threads \ {t} : image.call[u].stage = "running"
                         THEN {"query"} ELSE {}

ParentAfter(t) ==
    /\ At(t, "parentAfter")
    /\ To(Unlocked(Returns(image, t)))

(* The child marks the handles of the cache and forgets them.              *)
(* A plausible mistake: they stay in the cache.                            *)
MarkedOnly(m) == [m EXCEPT !.invalid = @ \cup ({m.cache} \ {None})]
WithHandlesInvalidated(m) == [m EXCEPT !.invalid = @ \cup ({m.cache} \ {None}), !.cache = None]

(* A plausible mistake: the child takes the mutex before it is given back. *)
ChildAfterLocks(t) ==
    /\ At(t, "childAfter")
    /\ image.holder = None
    /\ To(WithHandlesInvalidated(Returns(image, t)))
ChildAfter(t) ==
    /\ At(t, "childAfter")
    /\ To(WithHandlesInvalidated(Unlocked(Returns(image, t))))

-----------------------------------------------------------------------------
LocksCache(t) == Lock(t) \/ Clear(t) \/ Prepare(t)
LocksConnection(t) == Finalize(t) \/ Discard(t) \/ Run(t) \/ Attach(t)
Proceeds(t) == Handle(t) \/ Register(t) \/ Get(t) \/ Ran(t)
                   \/ ForkInParent(t) \/ ForkInChild(t) \/ ParentAfter(t) \/ ChildAfter(t)
Throws(t) == GetFails(t) \/ RunFails(t) \/ AttachFails(t)

Next ==
    \E t \in Threads :
        \/ \E c \in Contexts, op \in Ops : Begin(t, c, op)
        \/ LocksCache(t)
        \/ LocksConnection(t)
        \/ Proceeds(t)
        \/ Throws(t)
        \/ StartFork(t)

Spec == Init /\ [][Next]_vars

(* The threads run, and a mutex that is free again and again is got.       *)
FairSpec ==
    /\ Spec
    /\ \A t \in Threads :
           /\ WF_vars(Proceeds(t))
           /\ SF_vars(LocksCache(t))
           /\ SF_vars(LocksConnection(t))

-----------------------------------------------------------------------------
TypeOK ==
    /\ image \in Image
    /\ pid \in Processes
    /\ strays \in SUBSET Connections
    /\ caught \in SUBSET {"first opening", "query"}

(* A process queries only through connections it opened itself, as the     *)
(* comment on pthread_atfork wants: after a fork the child closes what it  *)
(* inherited, whichever context met the fork first and whatever the cache  *)
(* held. Out of its reach are the connections that the cache no longer has, *)
(* and a fork that began before the handlers were registered.              *)
OwnConnection ==
    \A t \in Threads :
        At(t, "running") =>
            LET k == Of(image, t).conn
            IN  k.by = pid \/ k \in strays \/ "first opening" \in caught

(* At any moment of a reopening or of a session, the statements a context  *)
(* has prepared are of the connection it has: sqlite3_finalize would be    *)
(* given one whose connection is closed, or a query run in another file.   *)
(* And a context without auxiliary databases sees the tables of the        *)
(* database, in an insertion session, after it, and in a forked child.     *)
(* An attachment that throws may leave it with an empty memory database,   *)
(* but only as long as it has a session: however often the start and the   *)
(* end of it fail, an end that succeeds makes the context whole.           *)
ContextsAreWhole ==
    \A c \in Contexts :
        LET db == image.db[c]
        IN  /\ db.statements \subseteq {db.conn}
            /\ c \notin WithAux /\ db.conn # None => db.sees \/ (db.session /\ db.failed)

(* Every call returns, with or without an exception, or stops the program  *)
(* at the assertion of run() that there is a handle (aborted), in every    *)
(* process and whichever others open, close, query, clean up or fork       *)
(* meanwhile. In a child whose fork fell into the first opening or into a  *)
(* query of another thread, a mutex may have been held which nobody is     *)
(* there to give back.                                                     *)
CallsReturn ==
    \A t \in Threads :
        []<>(\/ t \notin image.alive
            \/ image.call[t].stage \in {"idle", "aborted"}
            \/ caught # {})
=============================================================================
