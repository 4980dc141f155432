---------------------------- MODULE GridDownload ----------------------------
(***************************************************************************)
(* Downloading a whole grid to the user-writable directory                 *)
(* (networkfilemanager.cpp, proj_is_download_needed and                    *)
(* proj_download_file), and what the contexts remember of the file: the    *)
(* entries of ctx->lookupedFiles (filemanager.cpp, pj_find_file) and of the *)
(* cache of DatabaseContext::lookForGridInfo (iso19111/factory.cpp).       *)
(*                                                                         *)
(* Every process has one context and is in at most one call, cut at each   *)
(* access to the server, to the directory and to the cache database.  A    *)
(* process may die at any of these points.                                 *)
(*                                                                         *)
(* One grid, which the database knows as one of the CDN.  The server's     *)
(* file has successive versions; version v is Size[v] units long, and      *)
(* stands for its FileProperties as well, since no two versions have the   *)
(* same.  A file is the sequence of the versions its units come from.      *)
(***************************************************************************)
EXTENDS Naturals, Sequences

CONSTANTS
    Processes,
    Lookers,      \* bound: the processes that look the file up
    Size,         \* the size of each version, in units of the download buffer
    CacheKeys,    \* bound: the keys <<network enabled, known is available>> asked
    NoFile,
    NoRow,
    Unset         \* no cached answer

ASSUME LookersAreProcesses == Lookers \subseteq Processes
ASSUME SizesArePositive == Size # <<>> /\ Size \in Seq(Nat \ {0})
ASSUME KeysAreFlags == CacheKeys \subseteq BOOLEAN \X BOOLEAN
ASSUME NothingIsNoFile == NoFile \notin Seq(Nat)
ASSUME NothingIsNoRow == NoRow \notin [ver : Nat, expired : BOOLEAN]

Versions == 1..Len(Size)

VARIABLES
    server,    \* the version the server has now
    local,     \* the file in the user-writable directory
    temp,      \* the temporary file of the call each process is in
    row,       \* its row of downloaded_file_properties
    lock,      \* the process that holds the database open
    call,      \* the call each process is in
    found,     \* ctx->lookupedFiles, for this file
    info,      \* cacheGridInfo_, for this file
    newest     \* history: the newest version that was ever put in place

files == <<local, temp, newest>>
lookups == <<found, info>>
vars == <<server, files, row, lock, call, lookups>>

(* Each stage names what comes next.                                       *)
Needed == {"exists", "open", "ask"}                 \* proj_is_download_needed
Downloading == {"create", "first", "more", "unlink", "rename", "record"}
Stages == {"idle", "done"} \cup Needed \cup Downloading

(* asks: the call is proj_is_download_needed; ver: the version whose       *)
(* headers came with the first answer; out: what the call came to.         *)
Call == [stage : Stages, asks : BOOLEAN, ignore : BOOLEAN, ver : Versions \cup {0},
         out : {"none", "needed", "not_needed", "downloaded", "failed", "not_renamed", "not_recorded"}]
Resting == [stage |-> "idle", asks |-> FALSE, ignore |-> FALSE, ver |-> 0, out |-> "none"]

Paths == {"none", "local", "remote"}
Info == [path : Paths, available : BOOLEAN]

ASSUME NothingIsUnset == Unset \notin Paths \cup Info

TypeOK ==
    /\ server \in Versions
    /\ local \in Seq(Versions) \cup {NoFile}
    /\ temp \in [Processes -> Seq(Versions) \cup {NoFile}]
    /\ row \in [ver : Versions, expired : BOOLEAN] \cup {NoRow}
    /\ lock \in Processes \cup {NoRow}
    /\ call \in [Processes -> Call]
    /\ found \in [Processes -> Paths \cup {Unset}]
    /\ info \in [Processes -> [BOOLEAN \X BOOLEAN -> Info \cup {Unset}]]
    /\ newest \in Versions \cup {0}

NoInfo == [k \in BOOLEAN \X BOOLEAN |-> Unset]

Init ==
    /\ server = 1
    /\ local = NoFile
    /\ temp = [p \in Processes |-> NoFile]
    /\ row = NoRow
    /\ lock = NoRow
    /\ call = [p \in Processes |-> Resting]
    /\ found = [p \in Processes |-> Unset]
    /\ info = [p \in Processes |-> NoInfo]
    /\ newest = 0

At(p, stage) == call[p].stage = stage
Goto(p, stage) == call' = [call EXCEPT ![p].stage = stage]
Return(p, out) == call' = [call EXCEPT ![p] = [Resting EXCEPT !.stage = "done", !.out = out]]

-----------------------------------------------------------------------------
(* proj_is_download_needed.                                                *)

Start(p, asks, ignore) ==
    /\ call[p].stage \in {"idle", "done"}
    /\ call' = [call EXCEPT ![p] = [Resting EXCEPT !.stage = "exists", !.asks = asks, !.ignore = ignore]]
    /\ temp' = [temp EXCEPT ![p] = NoFile]
    /\ UNCHANGED <<server, local, newest, row, lock, lookups>>

(* The answer TRUE is where proj_download_file goes on.                    *)
AnswerNeeded(p) == IF call[p].asks THEN Return(p, "needed") ELSE Goto(p, "create")

Exists(p) ==
    /\ At(p, "exists")
    /\ IF local = NoFile THEN AnswerNeeded(p) ELSE Goto(p, "open")
    /\ UNCHANGED <<server, files, row, lock, lookups>>

(* The database is held until the call returns, across the request. A      *)
(* SELECT that fails is taken for one that finds no row.                   *)
OpenCache(p) ==
    /\ At(p, "open")
    /\ lock = NoRow
    /\ \/ AnswerNeeded(p) /\ UNCHANGED lock
       \/ row # NoRow /\ (call[p].ignore \/ ~row.expired) /\ Return(p, "not_needed") /\ UNCHANGED lock
       \/ row # NoRow /\ ~call[p].ignore /\ row.expired /\ Goto(p, "ask") /\ lock' = p
    /\ UNCHANGED <<server, files, row, lookups>>

(* Its lock stayed taken for all the tries, or it cannot be opened.        *)
CacheUnavailable(p) ==
    /\ At(p, "open")
    /\ Return(p, "not_needed")
    /\ UNCHANGED <<server, files, row, lock, lookups>>

AskServer(p) ==
    /\ At(p, "ask")
    /\ lock' = NoRow
    /\ IF server # row.ver
       THEN AnswerNeeded(p) /\ UNCHANGED row
       ELSE Return(p, "not_needed") /\ row' = [row EXCEPT !.expired = FALSE]
    /\ UNCHANGED <<server, files, lookups>>

(* No answer, no usable header, or the row cannot be updated.              *)
AskFails(p) ==
    /\ At(p, "ask")
    /\ lock' = NoRow
    /\ Return(p, "not_needed")
    /\ UNCHANGED <<server, files, row, lookups>>

-----------------------------------------------------------------------------
(* proj_download_file.                                                     *)

(* DatabaseContext::invalidateGridInfo: the four keys of the name.         *)
(* A plausible mistake: only the keys of the context's network setting.    *)
ForgetInfoOfNetwork(p) == [k \in BOOLEAN \X BOOLEAN |-> IF k[1] THEN Unset ELSE info[p][k]]
ForgetInfo(p) == [k \in BOOLEAN \X BOOLEAN |-> Unset]

Create(p) ==
    /\ At(p, "create")
    /\ found' = [found EXCEPT ![p] = Unset]
    /\ info' = [info EXCEPT ![p] = ForgetInfo(p)]
    /\ \/ temp' = [temp EXCEPT ![p] = <<>>] /\ Goto(p, "first")
       \/ Return(p, "failed") /\ UNCHANGED temp
    /\ UNCHANGED <<server, local, newest, row, lock>>

(* The first answer gives the properties and the first units.              *)
First(p) ==
    /\ At(p, "first")
    /\ temp' = [temp EXCEPT ![p] = <<server>>]
    /\ call' = [call EXCEPT ![p].stage = "more", ![p].ver = server]
    /\ UNCHANGED <<server, local, newest, row, lock, lookups>>

(* A plausible mistake: a buffer that ends with the file counts as read.   *)
CompleteEarly(p) == Len(temp[p]) + 1 >= Size[call[p].ver]
Complete(p) == Len(temp[p]) >= Size[call[p].ver]

(* The server answers from the version it has now, which is not compared   *)
(* with the first; past its end it has nothing to give.                    *)
More(p) ==
    /\ At(p, "more")
    /\ ~Complete(p)
    /\ Len(temp[p]) < Size[server]
    /\ temp' = [temp EXCEPT ![p] = Append(@, server)]
    /\ UNCHANGED <<server, local, newest, row, lock, call, lookups>>

Close(p) ==
    /\ At(p, "more")
    /\ Complete(p)
    /\ Goto(p, "unlink")
    /\ UNCHANGED <<server, files, row, lock, lookups>>

(* No answer or a short one, a write that fails, the progress callback     *)
(* that says stop.                                                         *)
Abandon(p) ==
    /\ At(p, "first") \/ (At(p, "more") /\ Len(temp[p]) > 0)
    /\ temp' = [temp EXCEPT ![p] = NoFile]
    /\ Return(p, "failed")
    /\ UNCHANGED <<server, local, newest, row, lock, lookups>>

Unlink(p) ==
    /\ At(p, "unlink")
    /\ local' = NoFile
    /\ Goto(p, "rename")
    /\ UNCHANGED <<server, temp, newest, row, lock, lookups>>

Rename(p) ==
    /\ At(p, "rename")
    /\ \/ /\ local' = temp[p]
          /\ temp' = [temp EXCEPT ![p] = NoFile]
          /\ newest' = IF newest < call[p].ver THEN call[p].ver ELSE newest
          /\ Goto(p, "record")
       \/ Return(p, "not_renamed") /\ UNCHANGED files
    /\ UNCHANGED <<server, row, lock, lookups>>

(* What the row says from now on.                                          *)
(* Plausible mistakes: the properties of the last answer; properties that   *)
(* were never filled.                                                      *)
RecordLastAnswer(p) == [ver |-> server, expired |-> FALSE]
RecordNothing(p) == [ver |-> 0, expired |-> FALSE]
Recorded(p) == [ver |-> call[p].ver, expired |-> FALSE]

(* Opening the database again, SELECT, then UPDATE or INSERT, committed    *)
(* when the call returns.                                                  *)
Record(p) ==
    /\ At(p, "record")
    /\ \/ lock = NoRow /\ row' = Recorded(p) /\ Return(p, "downloaded")
       \/ Return(p, "not_recorded") /\ UNCHANGED row
    /\ UNCHANGED <<server, files, lock, lookups>>

-----------------------------------------------------------------------------
(* The lookups, between two calls of the context.                          *)

LocalPath == IF local = NoFile THEN "none" ELSE "local"
KnownInfo == [path |-> LocalPath, available |-> TRUE]

(* Before it tries the server, open_resource_file asks for the grid's URL  *)
(* with the network switched off, and that answer is cached too.           *)
WithUrl(p) ==
    IF info[p][<<FALSE, TRUE>>] = Unset
    THEN [info[p] EXCEPT ![<<FALSE, TRUE>>] = KnownInfo] ELSE info[p]

(* Where open_resource_file finds the file, and the cache after it.        *)
Resolve(p, net) ==
    IF local # NoFile \/ ~net THEN {<<LocalPath, info[p]>>}
    ELSE {"none", "remote"} \X {WithUrl(p)}

FindFile(p, net) ==
    /\ call[p].stage \in {"idle", "done"}
    /\ found[p] = Unset
    /\ \E r \in Resolve(p, net) :
          found' = [found EXCEPT ![p] = r[1]] /\ info' = [info EXCEPT ![p] = r[2]]
    /\ UNCHANGED <<server, files, row, lock, call>>

LookForGridInfo(p, net, known) ==
    LET key == <<net, known>> IN
    /\ call[p].stage \in {"idle", "done"}
    /\ info[p][key] = Unset
    /\ \/ known /\ info' = [info EXCEPT ![p][key] = KnownInfo]
       \/ /\ ~known
          /\ \E r \in Resolve(p, net) :
                info' = [info EXCEPT ![p] =
                           [r[2] EXCEPT ![key] = [path |-> r[1], available |-> r[1] # "none"]]]
    /\ UNCHANGED <<server, files, row, lock, call, found>>

-----------------------------------------------------------------------------
(* The surroundings.                                                       *)

Publish ==
    /\ server + 1 \in Versions
    /\ server' = server + 1
    /\ UNCHANGED <<files, row, lock, call, lookups>>

Expire ==
    /\ row # NoRow /\ ~row.expired
    /\ row' = [row EXCEPT !.expired = TRUE]
    /\ UNCHANGED <<server, files, lock, call, lookups>>

(* A process that dies leaves its temporary file, under a name with its    *)
(* pid that nobody uses again; the database is rolled back and its lock    *)
(* given up.  Another process starts in its place.                         *)
Die(p) ==
    /\ call[p].stage \notin {"idle", "done"}
    /\ call' = [call EXCEPT ![p] = Resting]
    /\ lock' = IF lock = p THEN NoRow ELSE lock
    /\ found' = [found EXCEPT ![p] = Unset]
    /\ info' = [info EXCEPT ![p] = NoInfo]
    /\ temp' = [temp EXCEPT ![p] = NoFile]
    /\ UNCHANGED <<server, local, newest, row>>

Step(p) ==
    \/ Exists(p) \/ OpenCache(p) \/ CacheUnavailable(p) \/ AskServer(p) \/ AskFails(p)
    \/ Create(p) \/ First(p) \/ More(p) \/ Close(p) \/ Abandon(p)
    \/ Unlink(p) \/ Rename(p) \/ Record(p)

Next ==
    \/ \E p \in Processes : Step(p) \/ Die(p)
    \/ \E p \in Processes, asks, ignore \in BOOLEAN : Start(p, asks, ignore)
    \/ \E p \in Lookers, net \in BOOLEAN : FindFile(p, net)
    \/ \E p \in Lookers, k \in CacheKeys : LookForGridInfo(p, k[1], k[2])
    \/ Publish
    \/ Expire

Spec == Init /\ [][Next]_vars
-----------------------------------------------------------------------------
(* Whatever process dies or fails, and wherever, the file under the grid's *)
(* name has all the units that its first answer announced: a reader never  *)
(* opens a part of a grid (2774-2812, written aside and renamed).          *)
LocalIsWhole == local # NoFile => local # <<>> /\ Len(local) = Size[local[1]]

(* The recorded properties never describe a version newer than what is in  *)
(* the file, for then the check against the server would find nothing to   *)
(* download and the old grid would stay (2832-2876 after 2812).  It holds  *)
(* until a download finishes after a newer one was put in place: it        *)
(* unlinks the newer file, and until it records its own properties, or for *)
(* good if it dies or cannot open the database, or if the other one        *)
(* records last, the row is ahead.                                         *)
RecordNotAhead ==
    local # NoFile /\ row # NoRow /\ local[1] = newest => \A i \in DOMAIN local : row.ver <= local[i]

(* When a download has put the file in place, the context that asked for   *)
(* it does not remember that there was none (2692-2706).                   *)
DownloadIsSeen ==
    \A p \in Processes : call[p].stage = "record" =>
        /\ found[p] # "none"
        /\ \A k \in BOOLEAN \X BOOLEAN : info[p][k] # Unset => info[p][k].path # "none"
=============================================================================
