-------------------------- MODULE GridDownloadProofs --------------------------
(***************************************************************************)
(* The invariants of GridDownload, for any number of processes, versions   *)
(* and sizes.  That a grid in place is whole rests on what each process    *)
(* knows of its own temporary file between its steps, and that the record  *)
(* is not ahead of it on the versions the server gave being in order; what *)
(* other processes do in between to the file, the row and the server must  *)
(* leave both true.                                                        *)
(***************************************************************************)
EXTENDS GridDownload, TLAPS

(* A file of which the first answer announced version v: it begins with    *)
(* it, and what was read later is not older.                               *)
BeginsWith(file, v) ==
    /\ file \in Seq(Versions) /\ file # <<>>
    /\ file[1] = v
    /\ \A i \in DOMAIN file : file[i] >= v

Filled == {"more", "unlink", "rename"}

Temporary(p) ==
    LET c == call[p]
    IN  /\ c.stage \in Filled =>
              /\ c.ver \in Versions /\ c.ver <= server
              /\ BeginsWith(temp[p], c.ver)
              /\ Len(temp[p]) <= Size[c.ver]
        /\ c.stage \in {"unlink", "rename"} => Len(temp[p]) = Size[c.ver]
        /\ c.stage = "record" => c.ver \in Versions /\ c.ver <= newest
        /\ c.stage = "ask" => row # NoRow

(* Nothing is looked up between the creation and the record. *)
Forgotten(p) ==
    call[p].stage \in {"first", "record"} \cup Filled => found[p] = Unset /\ info[p] = NoInfo

InPlace == local # NoFile => BeginsWith(local, local[1]) /\ Len(local) = Size[local[1]]

RowFits == row # NoRow => row.ver <= newest

IInv ==
    /\ TypeOK
    /\ \A p \in Processes : Temporary(p) /\ Forgotten(p)
    /\ InPlace
    /\ RowFits

LEMMA IInvImplies == IInv => LocalIsWhole /\ RecordNotAhead /\ DownloadIsSeen
<1> SUFFICES ASSUME IInv PROVE LocalIsWhole /\ RecordNotAhead /\ DownloadIsSeen
  OBVIOUS
<1>1. LocalIsWhole
  BY DEF IInv, InPlace, BeginsWith, LocalIsWhole
<1>2. RecordNotAhead
  <2> SUFFICES ASSUME local # NoFile, row # NoRow, local[1] = newest, NEW i \in DOMAIN local
               PROVE  row.ver <= local[i]
    BY DEF RecordNotAhead
  <2>1. local \in Seq(Versions) /\ local[i] >= newest /\ row.ver <= newest
    BY DEF IInv, InPlace, RowFits, BeginsWith
  <2>2. local[i] \in Nat /\ newest \in Nat /\ row.ver \in Nat
    BY <2>1 DEF IInv, TypeOK, Versions
  <2> QED BY <2>1, <2>2
<1>3. DownloadIsSeen
  <2> SUFFICES ASSUME NEW p \in Processes, call[p].stage = "record"
               PROVE  /\ found[p] # "none"
                      /\ \A k \in BOOLEAN \X BOOLEAN : info[p][k] = Unset
    BY DEF DownloadIsSeen
  <2>1. found[p] = Unset /\ info[p] = NoInfo
    BY DEF IInv, Forgotten
  <2>2. Unset # "none"
    BY NothingIsUnset DEF Paths
  <2> QED BY <2>1, <2>2 DEF NoInfo
<1> QED BY <1>1, <1>2, <1>3

LEMMA RestingIsCall == Resting \in Call /\ Resting.stage = "idle" /\ Resting.ver = 0
  BY DEF Resting, Call, Stages

LEMMA VersionsAre ==
    /\ Versions \subseteq Nat \ {0} /\ Len(Size) \in Nat \ {0} /\ 1 \in Versions
    /\ \A v \in Versions : Size[v] \in Nat \ {0}
    /\ \A v \in Versions \cup {0} : v \in Nat
<1>1. Size \in Seq(Nat \ {0}) /\ Size # <<>>
  BY SizesArePositive
<1>2. Len(Size) \in Nat /\ Len(Size) # 0
  BY <1>1
<1> QED BY <1>1, <1>2 DEF Versions

LEMMA InitIInv == Init => IInv
<1> SUFFICES ASSUME Init PROVE IInv
  OBVIOUS
<1>1. NoInfo \in [BOOLEAN \X BOOLEAN -> Info \cup {Unset}]
  BY DEF NoInfo
<1>2. TypeOK
  BY <1>1, RestingIsCall, VersionsAre DEF Init, TypeOK
<1>3. \A p \in Processes : call[p].stage = "idle"
  BY RestingIsCall DEF Init
<1>4. \A p \in Processes : Temporary(p) /\ Forgotten(p)
  BY <1>3 DEF Temporary, Forgotten, Filled
<1> QED BY <1>2, <1>4 DEF IInv, InPlace, RowFits, Init

-----------------------------------------------------------------------------
(* Where a call goes and how it ends. *)
LEMMA GotoIs ==
    ASSUME TypeOK, NEW p \in Processes, NEW s \in Stages, Goto(p, s)
    PROVE  /\ call' \in [Processes -> Call]
           /\ call'[p].stage = s /\ call'[p].ver = call[p].ver
           /\ \A q \in Processes \ {p} : call'[q] = call[q]
<1> DEFINE x == [call[p] EXCEPT !.stage = s]
<1>1. call \in [Processes -> Call] /\ call[p] \in Call
  BY DEF TypeOK
<1>2. x \in Call /\ x.stage = s /\ x.ver = call[p].ver
  BY <1>1 DEF Call
<1>3. call' = [call EXCEPT ![p] = x]
  BY Zenon DEF Goto
<1> HIDE DEF x
<1> QED BY <1>1, <1>2, <1>3

Outs == {"none", "needed", "not_needed", "downloaded", "failed", "not_renamed", "not_recorded"}

LEMMA ReturnIs ==
    ASSUME TypeOK, NEW p \in Processes, NEW out \in Outs, Return(p, out)
    PROVE  /\ call' \in [Processes -> Call]
           /\ call'[p].stage = "done" /\ call'[p].ver = 0
           /\ \A q \in Processes \ {p} : call'[q] = call[q]
<1> DEFINE x == [Resting EXCEPT !.stage = "done", !.out = out]
<1>1. call \in [Processes -> Call]
  BY DEF TypeOK
<1>2. x \in Call /\ x.stage = "done" /\ x.ver = 0
  BY DEF Call, Resting, Stages, Outs
<1>3. call' = [call EXCEPT ![p] = x]
  BY Zenon DEF Return
<1> HIDE DEF x
<1> QED BY <1>1, <1>2, <1>3

LEMMA AnswerNeededIs ==
    ASSUME TypeOK, NEW p \in Processes, AnswerNeeded(p)
    PROVE  /\ call' \in [Processes -> Call]
           /\ call'[p].stage \in {"done", "create"}
           /\ \A q \in Processes \ {p} : call'[q] = call[q]
<1>1. "create" \in Stages /\ "needed" \in Outs
  BY DEF Stages, Downloading, Outs
<1>2. CASE Return(p, "needed")
  BY <1>1, <1>2, ReturnIs
<1>3. CASE Goto(p, "create")
  BY <1>1, <1>3, GotoIs
<1> QED BY <1>2, <1>3 DEF AnswerNeeded

-----------------------------------------------------------------------------
(* Versions only grow and a row is never deleted, so that what another     *)
(* process knows stays true.                                               *)
Grows ==
    /\ server' >= server
    /\ newest' >= newest
    /\ row # NoRow => row' # NoRow

LEMMA OtherKeeps ==
    ASSUME IInv, TypeOK', Grows, NEW q \in Processes,
           call'[q] = call[q], temp'[q] = temp[q], found'[q] = found[q], info'[q] = info[q]
    PROVE  (Temporary(q) /\ Forgotten(q))'
<1>1. Temporary(q) /\ Forgotten(q)
  BY DEF IInv
<1>2. call[q].ver \in Nat /\ server \in Nat /\ server' \in Nat /\ newest \in Nat /\ newest' \in Nat
  <2>1. call[q].ver \in Versions \cup {0}
    BY DEF IInv, TypeOK, Call
  <2>2. /\ server \in Versions /\ server' \in Versions
        /\ newest \in Versions \cup {0} /\ newest' \in Versions \cup {0}
    BY DEF IInv, TypeOK
  <2> QED BY <2>1, <2>2, VersionsAre, Zenon
<1>3. Forgotten(q)'
  BY <1>1 DEF Forgotten
<1>4. Temporary(q)'
  BY <1>1, <1>2 DEF Temporary, Grows, BeginsWith
<1> QED BY <1>3, <1>4

LEMMA StepKeeps ==
    ASSUME IInv, NEW p \in Processes, TypeOK', Grows,
           \A q \in Processes \ {p} :
               call'[q] = call[q] /\ temp'[q] = temp[q] /\ found'[q] = found[q] /\ info'[q] = info[q],
           (Temporary(p) /\ Forgotten(p))', InPlace', RowFits'
    PROVE  IInv'
<1>1. ASSUME NEW q \in Processes PROVE (Temporary(q) /\ Forgotten(q))'
  BY OtherKeeps
<1> QED BY <1>1 DEF IInv

(* The stages in which a call relies on nothing. *)
LEMMA AtEase ==
    ASSUME NEW p \in Processes, call[p].stage \in {"idle", "done", "exists", "open", "create"}
    PROVE  Temporary(p) /\ Forgotten(p)
  BY DEF Temporary, Forgotten, Filled

(* A step that changes the call and nothing that the other parts speak of. *)
LEMMA CallOnly ==
    ASSUME IInv, NEW p \in Processes, call' \in [Processes -> Call],
           \A q \in Processes \ {p} : call'[q] = call[q],
           call'[p].stage \in {"idle", "done", "exists", "open", "create"},
           lock' \in Processes \cup {NoRow},
           UNCHANGED <<server, files, row, lookups>>
    PROVE  IInv'
<1>1. TypeOK'
  BY DEF IInv, TypeOK, files, lookups
<1>2. Grows
  BY <1>1, VersionsAre DEF Grows, files, IInv, TypeOK
<1>3. InPlace' /\ RowFits'
  BY DEF IInv, InPlace, RowFits, files
<1>4. (Temporary(p) /\ Forgotten(p))'
  BY DEF Temporary, Forgotten, Filled
<1> QED BY <1>1, <1>2, <1>3, <1>4, StepKeeps DEF files, lookups

-----------------------------------------------------------------------------
(* proj_is_download_needed. *)

LEMMA StartKeeps ==
    ASSUME IInv, NEW p \in Processes, NEW asks \in BOOLEAN, NEW ignore \in BOOLEAN,
           Start(p, asks, ignore)
    PROVE  IInv'
<1> DEFINE x == [Resting EXCEPT !.stage = "exists", !.asks = asks, !.ignore = ignore]
<1>1. x \in Call /\ x.stage = "exists"
  BY DEF Call, Resting, Stages, Needed
<1>2. call' = [call EXCEPT ![p] = x] /\ temp' = [temp EXCEPT ![p] = NoFile]
  BY DEF Start
<1> HIDE DEF x
<1>3. TypeOK'
  BY <1>1, <1>2 DEF Start, IInv, TypeOK, lookups
<1>4. /\ call'[p].stage = "exists"
      /\ \A q \in Processes \ {p} :
            call'[q] = call[q] /\ temp'[q] = temp[q] /\ found'[q] = found[q] /\ info'[q] = info[q]
  BY <1>1, <1>2 DEF Start, IInv, TypeOK, lookups
<1>5. Grows
  BY VersionsAre DEF Start, Grows, IInv, TypeOK
<1>6. InPlace' /\ RowFits'
  BY DEF Start, IInv, InPlace, RowFits
<1>7. (Temporary(p) /\ Forgotten(p))'
  BY <1>4 DEF Temporary, Forgotten, Filled
<1> QED BY <1>3, <1>4, <1>5, <1>6, <1>7, StepKeeps

LEMMA ExistsKeeps ==
    ASSUME IInv, NEW p \in Processes, Exists(p)
    PROVE  IInv'
<1>1. TypeOK /\ "open" \in Stages
  BY DEF IInv, Stages, Needed
<1>2. /\ call' \in [Processes -> Call] /\ call'[p].stage \in {"done", "create", "open"}
      /\ \A q \in Processes \ {p} : call'[q] = call[q]
  BY <1>1, AnswerNeededIs, GotoIs DEF Exists
<1> QED BY <1>1, <1>2, CallOnly DEF Exists, TypeOK

LEMMA CacheUnavailableKeeps ==
    ASSUME IInv, NEW p \in Processes, CacheUnavailable(p)
    PROVE  IInv'
<1>1. TypeOK /\ "not_needed" \in Outs
  BY DEF IInv, Outs
<1> QED BY <1>1, ReturnIs, CallOnly DEF CacheUnavailable, TypeOK

LEMMA OpenCacheKeeps ==
    ASSUME IInv, NEW p \in Processes, OpenCache(p)
    PROVE  IInv'
<1>1. TypeOK /\ "not_needed" \in Outs /\ "ask" \in Stages
  BY DEF IInv, Outs, Stages, Needed
<1>2. CASE (AnswerNeeded(p) \/ Return(p, "not_needed")) /\ UNCHANGED lock
  BY <1>1, <1>2, AnswerNeededIs, ReturnIs, CallOnly DEF OpenCache, TypeOK
<1>3. CASE row # NoRow /\ Goto(p, "ask") /\ lock' = p
  <2>1. /\ call' \in [Processes -> Call] /\ call'[p].stage = "ask"
        /\ \A q \in Processes \ {p} : call'[q] = call[q]
    BY <1>1, <1>3, GotoIs
  <2>2. UNCHANGED <<server, files, row, lookups>>
    BY DEF OpenCache
  <2>3. TypeOK'
    BY <1>1, <1>3, <2>1, <2>2 DEF TypeOK, files, lookups
  <2>4. Grows
    BY <1>1, <2>2, VersionsAre DEF Grows, TypeOK, files
  <2>5. InPlace' /\ RowFits'
    BY <2>2 DEF IInv, InPlace, RowFits, files
  <2>6. (Temporary(p) /\ Forgotten(p))'
    BY <1>3, <2>1, <2>2 DEF Temporary, Forgotten, Filled
  <2> QED BY <2>1, <2>2, <2>3, <2>4, <2>5, <2>6, StepKeeps DEF files, lookups
<1> QED BY <1>2, <1>3 DEF OpenCache

LEMMA AskFailsKeeps ==
    ASSUME IInv, NEW p \in Processes, AskFails(p)
    PROVE  IInv'
<1>1. TypeOK /\ "not_needed" \in Outs
  BY DEF IInv, Outs
<1> QED BY <1>1, ReturnIs, CallOnly DEF AskFails

LEMMA AskServerKeeps ==
    ASSUME IInv, NEW p \in Processes, AskServer(p)
    PROVE  IInv'
<1>1. TypeOK /\ "not_needed" \in Outs
  BY DEF IInv, Outs
<1>2. CASE server # row.ver
  BY <1>1, <1>2, AnswerNeededIs, CallOnly DEF AskServer
<1>3. CASE server = row.ver
  <2>1. /\ call' \in [Processes -> Call] /\ call'[p].stage = "done"
        /\ \A q \in Processes \ {p} : call'[q] = call[q]
    BY <1>1, <1>3, ReturnIs DEF AskServer
  <2>2. row # NoRow
    BY DEF AskServer, At, IInv, Temporary
  <2>3. /\ row' = [row EXCEPT !.expired = FALSE] /\ lock' = NoRow
        /\ UNCHANGED <<server, files, lookups>>
    BY <1>3 DEF AskServer
  <2>4. /\ row' \in [ver : Versions, expired : BOOLEAN] /\ row'.ver = row.ver
    BY <1>1, <2>2, <2>3 DEF TypeOK
  <2>5. row' # NoRow
    BY <2>4, VersionsAre, NothingIsNoRow
  <2>6. TypeOK'
    BY <1>1, <2>1, <2>3, <2>4 DEF TypeOK, files, lookups
  <2>7. Grows
    BY <1>1, <2>3, <2>5, VersionsAre DEF Grows, TypeOK, files
  <2>8. InPlace' /\ RowFits'
    BY <2>2, <2>3, <2>4 DEF IInv, InPlace, RowFits, files
  <2>9. (Temporary(p) /\ Forgotten(p))'
    BY <2>1 DEF Temporary, Forgotten, Filled
  <2> QED BY <2>1, <2>3, <2>6, <2>7, <2>8, <2>9, StepKeeps DEF files, lookups
<1> QED BY <1>2, <1>3

-----------------------------------------------------------------------------
(* proj_download_file. *)

LEMMA CreateKeeps ==
    ASSUME IInv, NEW p \in Processes, Create(p)
    PROVE  IInv'
<1>1. TypeOK /\ "failed" \in Outs /\ "first" \in Stages
  BY DEF IInv, Outs, Stages, Downloading
<1>2. /\ call' \in [Processes -> Call] /\ call'[p].stage \in {"first", "done"}
      /\ \A q \in Processes \ {p} : call'[q] = call[q]
  BY <1>1, GotoIs, ReturnIs DEF Create
<1>3. /\ temp' = temp \/ temp' = [temp EXCEPT ![p] = <<>>]
      /\ found' = [found EXCEPT ![p] = Unset] /\ info' = [info EXCEPT ![p] = NoInfo]
      /\ UNCHANGED <<server, local, newest, row, lock>>
  BY DEF Create, ForgetInfo, NoInfo
<1>4. NoInfo \in [BOOLEAN \X BOOLEAN -> Info \cup {Unset}]
  BY DEF NoInfo
<1>5. TypeOK'
  <2>1. temp' \in [Processes -> Seq(Versions) \cup {NoFile}]
    <3>1. <<>> \in Seq(Versions)
      OBVIOUS
    <3>2. temp \in [Processes -> Seq(Versions) \cup {NoFile}]
      BY <1>1 DEF TypeOK
    <3> QED BY <1>3, <3>1, <3>2
  <2>2. found' \in [Processes -> Paths \cup {Unset}]
    BY <1>1, <1>3 DEF TypeOK
  <2>3. info' \in [Processes -> [BOOLEAN \X BOOLEAN -> Info \cup {Unset}]]
    BY <1>1, <1>3, <1>4 DEF TypeOK
  <2> QED BY <1>1, <1>2, <1>3, <2>1, <2>2, <2>3 DEF TypeOK
<1>6. /\ found'[p] = Unset /\ info'[p] = NoInfo
      /\ \A q \in Processes \ {p} : temp'[q] = temp[q] /\ found'[q] = found[q] /\ info'[q] = info[q]
  BY <1>1, <1>3 DEF TypeOK
<1>7. Grows
  BY <1>1, <1>3, VersionsAre DEF Grows, TypeOK
<1>8. InPlace' /\ RowFits'
  BY <1>3 DEF IInv, InPlace, RowFits
<1>9. (Temporary(p) /\ Forgotten(p))'
  BY <1>2, <1>6 DEF Temporary, Forgotten, Filled
<1> QED BY <1>2, <1>5, <1>6, <1>7, <1>8, <1>9, StepKeeps

LEMMA FirstKeeps ==
    ASSUME IInv, NEW p \in Processes, First(p)
    PROVE  IInv'
<1> DEFINE x == [call[p] EXCEPT !.stage = "more", !.ver = server]
<1>1. TypeOK /\ server \in Versions /\ server \in Nat /\ call[p].stage = "first"
  BY VersionsAre DEF IInv, TypeOK, First, At
<1>2. x \in Call /\ x.stage = "more" /\ x.ver = server
  BY <1>1 DEF TypeOK, Call, Stages, Downloading
<1>3. /\ call' = [call EXCEPT ![p] = x] /\ temp' = [temp EXCEPT ![p] = <<server>>]
      /\ UNCHANGED <<server, local, newest, row, lock, lookups>>
  BY Zenon DEF First
<1> HIDE DEF x
<1>4. <<server>> \in Seq(Versions) /\ Len(<<server>>) = 1 /\ <<server>>[1] = server /\ <<server>> # <<>>
  BY <1>1
<1>5. TypeOK'
  BY <1>1, <1>2, <1>3, <1>4 DEF TypeOK, lookups
<1>6. /\ call'[p] = x /\ temp'[p] = <<server>>
      /\ \A q \in Processes \ {p} :
            call'[q] = call[q] /\ temp'[q] = temp[q] /\ found'[q] = found[q] /\ info'[q] = info[q]
  BY <1>1, <1>3 DEF TypeOK, lookups
<1>7. Grows
  BY <1>1, <1>3, VersionsAre DEF Grows, TypeOK
<1>8. InPlace' /\ RowFits'
  BY <1>3 DEF IInv, InPlace, RowFits
<1>9. Forgotten(p)'
  BY <1>1, <1>3 DEF IInv, Forgotten, lookups
<1>10. Temporary(p)'
  <2>1. BeginsWith(<<server>>, server)
    BY <1>1, <1>4 DEF BeginsWith
  <2>2. 1 <= Size[server]
    BY <1>1, VersionsAre
  <2>3. server' = server
    BY <1>3
  <2> QED BY <1>1, <1>2, <1>4, <1>6, <2>1, <2>2, <2>3 DEF Temporary, Filled, BeginsWith
<1> QED BY <1>5, <1>6, <1>7, <1>8, <1>9, <1>10, StepKeeps

LEMMA MoreKeeps ==
    ASSUME IInv, NEW p \in Processes, More(p)
    PROVE  IInv'
<1> DEFINE v == call[p].ver
           t == Append(temp[p], server)
<1>1. /\ TypeOK /\ server \in Versions /\ server \in Nat /\ call[p].stage = "more"
      /\ Temporary(p) /\ Forgotten(p)
  BY VersionsAre DEF IInv, TypeOK, More, At
<1>2. /\ v \in Versions /\ v \in Nat /\ v <= server /\ Size[v] \in Nat
      /\ temp[p] \in Seq(Versions) /\ temp[p] # <<>> /\ temp[p][1] = v
      /\ \A i \in DOMAIN temp[p] : temp[p][i] >= v
  BY <1>1, VersionsAre DEF Temporary, Filled, BeginsWith
<1>3. /\ temp' = [temp EXCEPT ![p] = t] /\ Len(temp[p]) < Size[v]
      /\ UNCHANGED <<server, local, newest, row, lock, call, lookups>>
  <2>1. ~(Len(temp[p]) >= Size[v])
    BY DEF More, Complete
  <2>2. Len(temp[p]) \in Nat
    BY <1>2
  <2> QED BY <1>2, <2>1, <2>2 DEF More
<1>4. /\ t \in Seq(Versions) /\ Len(t) = Len(temp[p]) + 1 /\ t # <<>> /\ t[1] = v
      /\ \A i \in DOMAIN t : t[i] >= v
  <2>1. t \in Seq(Versions) /\ Len(t) = Len(temp[p]) + 1
    BY <1>1, <1>2
  <2>2. Len(temp[p]) \in Nat \ {0}
    BY <1>2
  <2>3. t[1] = v
    BY <1>1, <1>2, <2>2
  <2>4. \A i \in DOMAIN t : t[i] >= v
    BY <1>1, <1>2, <2>1, <2>2
  <2> QED BY <2>1, <2>2, <2>3, <2>4
<1> HIDE DEF t
<1>5. TypeOK'
  BY <1>1, <1>3, <1>4 DEF TypeOK, lookups
<1>6. /\ temp'[p] = t /\ call' = call
      /\ \A q \in Processes \ {p} :
            call'[q] = call[q] /\ temp'[q] = temp[q] /\ found'[q] = found[q] /\ info'[q] = info[q]
  BY <1>1, <1>3 DEF TypeOK, lookups
<1>7. Grows
  BY <1>1, <1>3, VersionsAre DEF Grows, TypeOK
<1>8. InPlace' /\ RowFits'
  BY <1>3 DEF IInv, InPlace, RowFits
<1>9. Forgotten(p)'
  BY <1>1, <1>3 DEF Forgotten, lookups
<1>10. Temporary(p)'
  <2>1. BeginsWith(t, v)
    BY <1>4 DEF BeginsWith
  <2>2. Len(t) <= Size[v]
    BY <1>2, <1>3, <1>4
  <2> QED BY <1>1, <1>2, <1>3, <1>6, <2>1, <2>2 DEF Temporary, BeginsWith
<1> QED BY <1>5, <1>6, <1>7, <1>8, <1>9, <1>10, StepKeeps

LEMMA CloseKeeps ==
    ASSUME IInv, NEW p \in Processes, Close(p)
    PROVE  IInv'
<1>1. TypeOK /\ "unlink" \in Stages /\ call[p].stage = "more" /\ Temporary(p) /\ Forgotten(p)
  BY DEF IInv, Stages, Downloading, Close, At
<1>2. /\ call' \in [Processes -> Call] /\ call'[p].stage = "unlink" /\ call'[p].ver = call[p].ver
      /\ \A q \in Processes \ {p} : call'[q] = call[q]
  BY <1>1, GotoIs DEF Close
<1>3. UNCHANGED <<server, files, row, lock, lookups>> /\ Len(temp[p]) >= Size[call[p].ver]
  BY DEF Close, Complete
<1>4. TypeOK'
  BY <1>1, <1>2, <1>3 DEF TypeOK, files, lookups
<1>5. Grows
  BY <1>1, <1>3, VersionsAre DEF Grows, TypeOK, files
<1>6. InPlace' /\ RowFits'
  BY <1>3 DEF IInv, InPlace, RowFits, files
<1>7. Forgotten(p)'
  BY <1>1, <1>2, <1>3 DEF Forgotten, lookups, Filled
<1>8. Len(temp[p]) = Size[call[p].ver]
  <2>1. /\ call[p].ver \in Versions /\ temp[p] \in Seq(Versions)
        /\ Len(temp[p]) <= Size[call[p].ver]
    BY <1>1 DEF Temporary, Filled, BeginsWith
  <2>2. Len(temp[p]) \in Nat
    BY <2>1
  <2>3. Size[call[p].ver] \in Nat
    BY <2>1, VersionsAre
  <2> QED BY <1>3, <2>1, <2>2, <2>3
<1>9. Temporary(p)'
  BY <1>1, <1>2, <1>3, <1>8 DEF Temporary, BeginsWith, Filled, files
<1> QED BY <1>2, <1>3, <1>4, <1>5, <1>6, <1>7, <1>9, StepKeeps DEF files, lookups

(* A temporary file that is removed, by Abandon or with its process. *)
LEMMA RemovedKeeps ==
    ASSUME IInv, NEW p \in Processes, call' \in [Processes -> Call],
           call'[p].stage \in {"idle", "done"},
           \A q \in Processes \ {p} : call'[q] = call[q] /\ found'[q] = found[q] /\ info'[q] = info[q],
           temp' = [temp EXCEPT ![p] = NoFile],
           lock' \in Processes \cup {NoRow},
           found' \in [Processes -> Paths \cup {Unset}],
           info' \in [Processes -> [BOOLEAN \X BOOLEAN -> Info \cup {Unset}]],
           UNCHANGED <<server, local, newest, row>>
    PROVE  IInv'
<1>1. TypeOK'
  BY DEF IInv, TypeOK
<1>2. \A q \in Processes \ {p} : temp'[q] = temp[q]
  BY DEF IInv, TypeOK
<1>3. Grows
  BY VersionsAre DEF Grows, IInv, TypeOK
<1>4. InPlace' /\ RowFits'
  BY DEF IInv, InPlace, RowFits
<1>5. (Temporary(p) /\ Forgotten(p))'
  BY DEF Temporary, Forgotten, Filled
<1> QED BY <1>1, <1>2, <1>3, <1>4, <1>5, StepKeeps

LEMMA AbandonKeeps ==
    ASSUME IInv, NEW p \in Processes, Abandon(p)
    PROVE  IInv'
<1>1. TypeOK /\ "failed" \in Outs
  BY DEF IInv, Outs
<1>2. /\ call' \in [Processes -> Call] /\ call'[p].stage = "done"
      /\ \A q \in Processes \ {p} : call'[q] = call[q]
  BY <1>1, ReturnIs DEF Abandon
<1> QED BY <1>1, <1>2, RemovedKeeps DEF Abandon, TypeOK, lookups

LEMMA DieKeeps ==
    ASSUME IInv, NEW p \in Processes, Die(p)
    PROVE  IInv'
<1>1. TypeOK
  BY DEF IInv
<1>2. NoInfo \in [BOOLEAN \X BOOLEAN -> Info \cup {Unset}]
  BY DEF NoInfo
<1>3. /\ call' \in [Processes -> Call] /\ call'[p].stage = "idle"
      /\ \A q \in Processes \ {p} : call'[q] = call[q] /\ found'[q] = found[q] /\ info'[q] = info[q]
  BY <1>1, RestingIsCall DEF Die, TypeOK
<1>4. /\ lock' \in Processes \cup {NoRow}
      /\ found' \in [Processes -> Paths \cup {Unset}]
      /\ info' \in [Processes -> [BOOLEAN \X BOOLEAN -> Info \cup {Unset}]]
  BY <1>1, <1>2 DEF Die, TypeOK
<1> QED BY <1>3, <1>4, RemovedKeeps DEF Die

LEMMA UnlinkKeeps ==
    ASSUME IInv, NEW p \in Processes, Unlink(p)
    PROVE  IInv'
<1>1. TypeOK /\ "rename" \in Stages /\ call[p].stage = "unlink" /\ Temporary(p) /\ Forgotten(p)
  BY DEF IInv, Stages, Downloading, Unlink, At
<1>2. /\ call' \in [Processes -> Call] /\ call'[p].stage = "rename" /\ call'[p].ver = call[p].ver
      /\ \A q \in Processes \ {p} : call'[q] = call[q]
  BY <1>1, GotoIs DEF Unlink
<1>3. local' = NoFile /\ UNCHANGED <<server, temp, newest, row, lock, lookups>>
  BY DEF Unlink
<1>4. TypeOK'
  BY <1>1, <1>2, <1>3 DEF TypeOK, lookups
<1>5. Grows
  BY <1>1, <1>3, VersionsAre DEF Grows, TypeOK
<1>6. InPlace' /\ RowFits'
  BY <1>3 DEF IInv, InPlace, RowFits
<1>7. Forgotten(p)'
  BY <1>1, <1>2, <1>3 DEF Forgotten, lookups, Filled
<1>8. Temporary(p)'
  BY <1>1, <1>2, <1>3 DEF Temporary, BeginsWith, Filled
<1> QED BY <1>2, <1>3, <1>4, <1>5, <1>6, <1>7, <1>8, StepKeeps DEF lookups

LEMMA RenameKeeps ==
    ASSUME IInv, NEW p \in Processes, Rename(p)
    PROVE  IInv'
<1> DEFINE v == call[p].ver
<1>1. /\ TypeOK /\ "record" \in Stages /\ "not_renamed" \in Outs
      /\ call[p].stage = "rename" /\ Temporary(p) /\ Forgotten(p)
  BY DEF IInv, Stages, Downloading, Rename, At, Outs
<1>2. /\ v \in Versions /\ v \in Nat /\ BeginsWith(temp[p], v) /\ Len(temp[p]) = Size[v]
      /\ newest \in Versions \cup {0} /\ newest \in Nat
  <2>1. v \in Versions /\ BeginsWith(temp[p], v) /\ Len(temp[p]) = Size[v]
    BY <1>1 DEF Temporary, Filled
  <2>2. newest \in Versions \cup {0}
    BY <1>1 DEF TypeOK
  <2> QED BY <2>1, <2>2, VersionsAre, Zenon
<1>3. CASE Return(p, "not_renamed") /\ UNCHANGED files
  BY <1>1, <1>3, ReturnIs, CallOnly DEF Rename, TypeOK
<1>4. CASE /\ local' = temp[p] /\ temp' = [temp EXCEPT ![p] = NoFile]
           /\ newest' = IF newest < v THEN v ELSE newest
           /\ Goto(p, "record")
  <2>1. /\ call' \in [Processes -> Call] /\ call'[p].stage = "record" /\ call'[p].ver = v
        /\ \A q \in Processes \ {p} : call'[q] = call[q]
    BY <1>1, <1>4, GotoIs
  <2>2. UNCHANGED <<server, row, lock, lookups>>
    BY DEF Rename
  <2>3. newest' \in Versions \cup {0} /\ newest' >= newest /\ v <= newest'
    BY <1>2, <1>4
  <2>4. TypeOK'
    BY <1>1, <1>2, <1>4, <2>1, <2>2, <2>3 DEF TypeOK, lookups, BeginsWith
  <2>5. \A q \in Processes \ {p} : temp'[q] = temp[q]
    BY <1>1, <1>4 DEF TypeOK
  <2>6. Grows
    BY <1>1, <2>2, <2>3, VersionsAre DEF Grows, TypeOK
  <2>7. InPlace'
    BY <1>2, <1>4 DEF InPlace, BeginsWith
  <2>8. RowFits'
    <3>1. row # NoRow => row.ver \in Nat /\ row.ver <= newest
      BY <1>1, VersionsAre DEF IInv, RowFits, TypeOK
    <3>2. newest' \in Nat
      BY <2>3, VersionsAre
    <3> QED BY <1>2, <2>2, <2>3, <3>1, <3>2 DEF RowFits
  <2>9. (Temporary(p) /\ Forgotten(p))'
    BY <1>1, <1>2, <2>1, <2>2, <2>3 DEF Temporary, Forgotten, Filled, lookups
  <2> QED BY <2>1, <2>2, <2>4, <2>5, <2>6, <2>7, <2>8, <2>9, StepKeeps DEF lookups
<1> QED BY <1>3, <1>4 DEF Rename

LEMMA RecordKeeps ==
    ASSUME IInv, NEW p \in Processes, Record(p)
    PROVE  IInv'
<1>1. /\ TypeOK /\ "downloaded" \in Outs /\ "not_recorded" \in Outs
      /\ call[p].stage = "record" /\ call[p].ver \in Versions /\ call[p].ver <= newest
  BY DEF IInv, Outs, Record, At, Temporary
<1>2. /\ call' \in [Processes -> Call] /\ call'[p].stage = "done"
      /\ \A q \in Processes \ {p} : call'[q] = call[q]
  BY <1>1, ReturnIs DEF Record
<1>3. CASE UNCHANGED row
  BY <1>1, <1>2, <1>3, CallOnly DEF Record, TypeOK
<1>4. CASE row' = Recorded(p)
  <2>1. UNCHANGED <<server, files, lock, lookups>>
    BY DEF Record
  <2>2. row' \in [ver : Versions, expired : BOOLEAN] /\ row'.ver = call[p].ver
    BY <1>1, <1>4 DEF Recorded
  <2>3. row' # NoRow
    BY <2>2, VersionsAre, NothingIsNoRow
  <2>4. TypeOK'
    BY <1>1, <1>2, <2>1, <2>2 DEF TypeOK, files, lookups
  <2>5. Grows
    BY <1>1, <2>1, <2>3, VersionsAre DEF Grows, TypeOK, files
  <2>6. InPlace' /\ RowFits'
    BY <1>1, <2>1, <2>2 DEF IInv, InPlace, RowFits, files
  <2>7. (Temporary(p) /\ Forgotten(p))'
    BY <1>2 DEF Temporary, Forgotten, Filled
  <2> QED BY <1>2, <2>1, <2>4, <2>5, <2>6, <2>7, StepKeeps DEF files, lookups
<1> QED BY <1>3, <1>4 DEF Record

-----------------------------------------------------------------------------
(* The lookups, which only a context between two calls makes. *)

LEMMA LookupKeeps ==
    ASSUME IInv, NEW p \in Processes, call[p].stage \in {"idle", "done"},
           UNCHANGED <<server, files, row, lock, call>>,
           found' \in [Processes -> Paths \cup {Unset}],
           info' \in [Processes -> [BOOLEAN \X BOOLEAN -> Info \cup {Unset}]],
           \A q \in Processes \ {p} : found'[q] = found[q] /\ info'[q] = info[q]
    PROVE  IInv'
<1>1. TypeOK'
  BY DEF IInv, TypeOK, files
<1>2. Grows
  BY VersionsAre DEF Grows, IInv, TypeOK, files
<1>3. InPlace' /\ RowFits'
  BY DEF IInv, InPlace, RowFits, files
<1>4. (Temporary(p) /\ Forgotten(p))'
  BY DEF Temporary, Forgotten, Filled
<1> QED BY <1>1, <1>2, <1>3, <1>4, StepKeeps DEF files

LEMMA ResolveIs ==
    ASSUME TypeOK, NEW p \in Processes, NEW net \in BOOLEAN, NEW r \in Resolve(p, net)
    PROVE  r[1] \in Paths /\ r[2] \in [BOOLEAN \X BOOLEAN -> Info \cup {Unset}]
<1>1. info[p] \in [BOOLEAN \X BOOLEAN -> Info \cup {Unset}] /\ LocalPath \in Paths
  BY DEF TypeOK, LocalPath, Paths
<1>2. KnownInfo \in Info
  BY <1>1 DEF KnownInfo, Info
<1>3. WithUrl(p) \in [BOOLEAN \X BOOLEAN -> Info \cup {Unset}]
  BY <1>1, <1>2 DEF WithUrl
<1> QED BY <1>1, <1>3 DEF Resolve, Paths

LEMMA FindFileKeeps ==
    ASSUME IInv, NEW p \in Processes, NEW net \in BOOLEAN, FindFile(p, net)
    PROVE  IInv'
<1>1. TypeOK
  BY DEF IInv
<1>2. PICK r \in Resolve(p, net) :
          found' = [found EXCEPT ![p] = r[1]] /\ info' = [info EXCEPT ![p] = r[2]]
  BY DEF FindFile
<1>3. r[1] \in Paths /\ r[2] \in [BOOLEAN \X BOOLEAN -> Info \cup {Unset}]
  BY <1>1, ResolveIs
<1>4. /\ found' \in [Processes -> Paths \cup {Unset}]
      /\ info' \in [Processes -> [BOOLEAN \X BOOLEAN -> Info \cup {Unset}]]
      /\ \A q \in Processes \ {p} : found'[q] = found[q] /\ info'[q] = info[q]
  BY <1>1, <1>2, <1>3 DEF TypeOK
<1> QED BY <1>4, LookupKeeps DEF FindFile

LEMMA LookForGridInfoKeeps ==
    ASSUME IInv, NEW p \in Processes, NEW net \in BOOLEAN, NEW known \in BOOLEAN,
           LookForGridInfo(p, net, known)
    PROVE  IInv'
<1> DEFINE Infos == [BOOLEAN \X BOOLEAN -> Info \cup {Unset}]
           key == <<net, known>>
<1>1. TypeOK /\ info \in [Processes -> Infos] /\ key \in BOOLEAN \X BOOLEAN
  BY DEF IInv, TypeOK
<1>2. KnownInfo \in Info
  BY DEF KnownInfo, Info, LocalPath, Paths
<1>3. \E f \in Infos : info' = [info EXCEPT ![p] = f]
  <2>1. CASE info' = [info EXCEPT ![p][key] = KnownInfo]
    <3>1. info' = [info EXCEPT ![p] = [info[p] EXCEPT ![key] = KnownInfo]]
      BY <2>1, Zenon
    <3>2. [info[p] EXCEPT ![key] = KnownInfo] \in Infos
      BY <1>1, <1>2
    <3> QED BY <3>1, <3>2
  <2>2. ASSUME NEW r \in Resolve(p, net),
               info' = [info EXCEPT ![p] = [r[2] EXCEPT ![key] = [path |-> r[1], available |-> r[1] # "none"]]]
        PROVE  \E f \in Infos : info' = [info EXCEPT ![p] = f]
    <3>1. r[1] \in Paths /\ r[2] \in Infos
      BY <1>1, ResolveIs
    <3>2. [path |-> r[1], available |-> r[1] # "none"] \in Info
      BY <3>1 DEF Info
    <3>3. [r[2] EXCEPT ![key] = [path |-> r[1], available |-> r[1] # "none"]] \in Infos
      BY <1>1, <3>1, <3>2
    <3> QED BY <2>2, <3>3
  <2> QED BY <2>1, <2>2 DEF LookForGridInfo
<1>4. PICK f \in Infos : info' = [info EXCEPT ![p] = f]
  BY <1>3
<1>5. /\ info' \in [Processes -> Infos]
      /\ \A q \in Processes \ {p} : info'[q] = info[q]
  BY <1>1, <1>4
<1> QED BY <1>1, <1>5, LookupKeeps DEF LookForGridInfo, TypeOK

-----------------------------------------------------------------------------
(* The surroundings. *)

LEMMA PublishKeeps == IInv /\ Publish => IInv'
<1> SUFFICES ASSUME IInv, Publish PROVE IInv'
  OBVIOUS
<1>1. /\ TypeOK /\ server \in Nat /\ server' = server + 1 /\ server' \in Versions
      /\ UNCHANGED <<files, row, lock, call, lookups>>
  BY VersionsAre DEF Publish, IInv, TypeOK
<1>2. TypeOK'
  BY <1>1 DEF TypeOK, files, lookups
<1>3. Grows
  BY <1>1, VersionsAre DEF Grows, TypeOK, files
<1>4. \A q \in Processes : (Temporary(q) /\ Forgotten(q))'
  BY <1>1, <1>2, <1>3, OtherKeeps DEF files, lookups
<1>5. InPlace' /\ RowFits'
  BY <1>1 DEF IInv, InPlace, RowFits, files
<1> QED BY <1>2, <1>4, <1>5 DEF IInv

LEMMA ExpireKeeps == IInv /\ Expire => IInv'
<1> SUFFICES ASSUME IInv, Expire PROVE IInv'
  OBVIOUS
<1>1. /\ TypeOK /\ row \in [ver : Versions, expired : BOOLEAN] /\ row # NoRow
      /\ row' = [row EXCEPT !.expired = TRUE]
      /\ UNCHANGED <<server, files, lock, call, lookups>>
  BY DEF Expire, IInv, TypeOK
<1>2. row' \in [ver : Versions, expired : BOOLEAN] /\ row'.ver = row.ver
  BY <1>1
<1>3. row' # NoRow
  BY <1>2, VersionsAre, NothingIsNoRow
<1>4. TypeOK'
  BY <1>1, <1>2 DEF TypeOK, files, lookups
<1>5. Grows
  BY <1>1, <1>3, VersionsAre DEF Grows, TypeOK, files
<1>6. \A q \in Processes : (Temporary(q) /\ Forgotten(q))'
  BY <1>1, <1>4, <1>5, OtherKeeps DEF files, lookups
<1>7. InPlace' /\ RowFits'
  BY <1>1, <1>2 DEF IInv, InPlace, RowFits, files
<1> QED BY <1>4, <1>6, <1>7 DEF IInv

LEMMA NextIInv == IInv /\ [Next]_vars => IInv'
<1> SUFFICES ASSUME IInv, [Next]_vars PROVE IInv'
  OBVIOUS
<1>1. CASE UNCHANGED vars
  BY <1>1 DEF vars, files, lookups, IInv, TypeOK, Temporary, BeginsWith, Forgotten, InPlace, RowFits
<1>2. ASSUME NEW p \in Processes, Step(p) PROVE IInv'
  BY <1>2, ExistsKeeps, OpenCacheKeeps, CacheUnavailableKeeps, AskServerKeeps, AskFailsKeeps,
     CreateKeeps, FirstKeeps, MoreKeeps, CloseKeeps, AbandonKeeps, UnlinkKeeps, RenameKeeps,
     RecordKeeps DEF Step
<1>3. ASSUME NEW p \in Processes, Die(p) PROVE IInv'
  BY <1>3, DieKeeps
<1>4. ASSUME NEW p \in Processes, NEW asks \in BOOLEAN, NEW ignore \in BOOLEAN, Start(p, asks, ignore)
      PROVE  IInv'
  BY <1>4, StartKeeps
<1>5. ASSUME NEW p \in Lookers, NEW net \in BOOLEAN, FindFile(p, net) PROVE IInv'
  BY <1>5, LookersAreProcesses, FindFileKeeps
<1>6. ASSUME NEW p \in Lookers, NEW k \in CacheKeys, LookForGridInfo(p, k[1], k[2]) PROVE IInv'
  <2>1. p \in Processes /\ k[1] \in BOOLEAN /\ k[2] \in BOOLEAN
    BY LookersAreProcesses, KeysAreFlags
  <2> QED BY <1>6, <2>1, LookForGridInfoKeeps
<1>7. CASE Publish \/ Expire
  BY <1>7, PublishKeeps, ExpireKeeps
<1> QED BY <1>1, <1>2, <1>3, <1>4, <1>5, <1>6, <1>7 DEF Next

LEMMA Inductive == Spec => []IInv
  BY InitIInv, NextIInv, PTL DEF Spec

(* The state variables keep their types, whatever fails or dies. *)
THEOREM TypeCorrect == Spec => []TypeOK
<1>1. IInv => TypeOK
  BY DEF IInv
<1> QED BY Inductive, <1>1, PTL

(* Any number of processes that download the grid at once, fail or die     *)
(* anywhere, while the server's file changes, never leave a part of a grid *)
(* under its name (proj_download_file).                                    *)
THEOREM LocalStaysWhole == Spec => []LocalIsWhole
  BY Inductive, IInvImplies, PTL

(* Until an older download is put in place after a newer one, the recorded *)
(* properties are no newer than anything in the file.                      *)
THEOREM RecordIsNotAhead == Spec => []RecordNotAhead
  BY Inductive, IInvImplies, PTL

(* A context that has put the file in place remembers nothing that says it *)
(* is not there.                                                           *)
THEOREM DownloadsAreSeen == Spec => []DownloadIsSeen
  BY Inductive, IInvImplies, PTL
=============================================================================
