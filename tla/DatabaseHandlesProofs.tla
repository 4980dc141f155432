------------------------ MODULE DatabaseHandlesProofs ------------------------
(***************************************************************************)
(* The invariants of DatabaseHandles, for any threads, contexts and number *)
(* of forks.  Each property needs the others of IInv: a context sees its   *)
(* tables because of what the call under way found when it began, and its  *)
(* connection is of the process because the cache forgot the one it        *)
(* inherited before any other call of the child.                           *)
(***************************************************************************)
EXTENDS DatabaseHandles, TLAPS

(* Not at rest and not in fork(). *)
Within(x) ==
    x.stage \notin {"idle", "prepare", "fork", "forkHeld", "parentAfter", "childAfter"}

(* What a call x of thread t, on a context whose databases are db, may     *)
(* rely on where it is.                                                    *)
CallFits(x, t, db, m) ==
    /\ Within(x) => ThreadOf[x.on] = t
    /\ ~Within(x) => x.op = "query"
    /\ x.op = "cleanup" => x.on = Default /\ m.cleanups < MaxCleanups
    /\ x.stage = "clear" => x.op = "cleanup"
    /\ x.stage \in Opening => db.statements = {}
    /\ x.stage \in {"register", "find"} => ~m.firstTime
    /\ x.stage \in {"run", "running", "attach"} => db.conn # None
    /\ x.on \notin WithAux =>
          /\ x.op = "start" /\ x.stage # "discard" => ~db.session
          /\ x.stage = "attach" => x.op = "start"
          /\ x.stage \in {"handle", "run", "running", "attach"} => x.opens = "no"

(* What holds of the databases of a context wherever its calls are. *)
DatabaseFits(c, db) ==
    /\ db.statements \subseteq {db.conn}
    /\ ~db.open => db.conn = None /\ db.statements = {}
    /\ c \notin WithAux /\ db.conn # None =>
          /\ db.sees \/ (db.session /\ db.failed)
          /\ db.session \/ db.conn.of = None

(* The cache holds at most one opening of the file, each cleanup allows    *)
(* one more, and nothing is in it before it is first locked.               *)
CacheFits(m) ==
    /\ m.opened <= m.cleanups + (IF m.cache = None THEN 0 ELSE 1)
    /\ m.cache # None => m.cache.of = None
    /\ m.firstTime => m.cache = None

Calls == \A t \in Threads : CallFits(image.call[t], t, Of(image, t), image)
Databases == \A c \in Contexts : DatabaseFits(c, image.db[c])

(* Until the handler has run, the child has one thread and what it         *)
(* inherited.                                                              *)
InChild ==
    \A t \in Threads :
        image.call[t].stage = "childAfter" => image.alive = {t} /\ image.opened = 0
Inherits == \E t \in Threads : image.call[t].stage = "childAfter"

Own(k) == k.by = pid \/ k \in strays

(* After a fork that met no first opening: what is not of the process is   *)
(* marked or about to be, and no query is on it.                           *)
Owned ==
    "first opening" \notin caught =>
        /\ image.cache # None => image.cache.by = pid \/ Inherits
        /\ \A c \in Contexts :
              LET k == image.db[c].conn
              IN  \/ k = None \/ Own(k) \/ k \in image.invalid
                  \/ Inherits /\ k = image.cache
        /\ \A t \in Threads : At(t, "run") \/ At(t, "running") => Own(Of(image, t).conn)

IInv ==
    /\ TypeOK
    /\ Calls
    /\ Databases
    /\ CacheFits(image)
    /\ InChild
    /\ Owned

LEMMA IInvImplies == IInv => OwnConnection /\ ContextsAreWhole
<1> SUFFICES ASSUME IInv PROVE OwnConnection /\ ContextsAreWhole
  OBVIOUS
<1>1. OwnConnection
  BY DEF IInv, Owned, Own, OwnConnection
<1>2. ContextsAreWhole
  BY DEF IInv, Databases, DatabaseFits, ContextsAreWhole
<1> QED BY <1>1, <1>2

LEMMA FreshIsImage == Fresh \in Image
<1>1. Closed \in Database
  BY DEF Closed, Database
<1>2. Resting \in Call
  BY DefaultIsAContext DEF Resting, Call, Stages, Ops
<1>3. 0 \in 0..(MaxCleanups + 1) /\ 0 \in 0..MaxCleanups
  BY BoundsArePositive
<1> QED BY <1>1, <1>2, <1>3 DEF Fresh, Image

LEMMA InitIInv == Init => IInv
<1> SUFFICES ASSUME Init PROVE IInv
  OBVIOUS
<1>1. TypeOK
  BY FreshIsImage, BoundsArePositive DEF Init, TypeOK, Processes
<1>2. /\ \A t \in Threads : image.call[t] = Resting
      /\ \A c \in Contexts : image.db[c] = Closed
      /\ image.cache = None /\ image.opened = 0 /\ image.cleanups = 0
  BY DEF Init, Fresh
<1>3. \A t \in Threads : Of(image, t) = Closed
  <2>1. Resting.on = Default
    BY DEF Resting
  <2> QED BY <1>2, <2>1, DefaultIsAContext, Zenon DEF Of, On
<1>4. Calls
  <2> SUFFICES ASSUME NEW t \in Threads
               PROVE  CallFits(Resting, t, Closed, image)
    BY <1>2, <1>3 DEF Calls
  <2> QED BY DEF CallFits, Resting, Within, Opening, Closed
<1>5. Databases
  BY <1>2 DEF Databases, DatabaseFits, Closed
<1>6. CacheFits(image) /\ InChild
  BY <1>2 DEF CacheFits, InChild, Resting
<1>7. Owned
  <2>1. Closed.conn = None /\ Resting.stage = "idle"
    BY DEF Closed, Resting
  <2>2. \A t \in Threads : ~(At(t, "run") \/ At(t, "running"))
    BY <1>2, <2>1 DEF At
  <2>3. \A c \in Contexts : image.db[c].conn = None
    BY <1>2, <2>1
  <2> QED BY <1>2, <2>2, <2>3 DEF Owned
<1> QED BY <1>1, <1>4, <1>5, <1>6, <1>7 DEF IInv

-----------------------------------------------------------------------------
(* What the operators that write an image write. *)

Beside(n, m) ==
    /\ n.firstTime = m.firstTime /\ n.handlers = m.handlers /\ n.holder = m.holder
    /\ n.cache = m.cache /\ n.invalid = m.invalid /\ n.alive = m.alive
    /\ n.opened = m.opened /\ n.cleanups = m.cleanups

Hows == {"no", "first", "again"}

Placed(g, m, t, s, how) ==
    /\ g \in Image
    /\ g.db = m.db
    /\ g.call = [m.call EXCEPT ![t] = [stage |-> s, op |-> m.call[t].op, on |-> m.call[t].on,
                                      opens |-> how]]
    /\ Beside(g, m)

LEMMA GoesOpeningIs ==
    ASSUME NEW m \in Image, NEW t \in Threads, NEW s \in Stages, NEW how \in Hows
    PROVE  Placed(GoesOpening(m, t, s, how), m, t, s, how)
<1> DEFINE x == [m.call[t] EXCEPT !.stage = s, !.opens = how]
<1>1. m.call \in [Threads -> Call] /\ m.call[t] \in Call
  BY DEF Image
<1>2. /\ x \in Call
      /\ x = [stage |-> s, op |-> m.call[t].op, on |-> m.call[t].on, opens |-> how]
  <2> SUFFICES ASSUME NEW y \in Call
               PROVE  LET z == [y EXCEPT !.stage = s, !.opens = how]
                      IN  z \in Call /\ z = [stage |-> s, op |-> y.op, on |-> y.on, opens |-> how]
    BY <1>1
  <2> DEFINE z == [y EXCEPT !.stage = s]
  <2>1. z \in Call /\ z.op = y.op /\ z.on = y.on /\ z.stage = s
    BY DEF Call
  <2> HIDE DEF z
  <2>2. [z EXCEPT !.opens = how] = [stage |-> s, op |-> y.op, on |-> y.on, opens |-> how]
    BY <2>1 DEF Call
  <2>3. [stage |-> s, op |-> y.op, on |-> y.on, opens |-> how] \in Call
    BY DEF Call, Hows
  <2> QED BY <2>2, <2>3 DEF z
<1>3. GoesOpening(m, t, s, how) = [m EXCEPT !.call = [m.call EXCEPT ![t] = x]]
  BY Zenon DEF GoesOpening
<1> HIDE DEF x
<1>4. [m.call EXCEPT ![t] = x] \in [Threads -> Call]
  BY <1>1, <1>2
<1> QED BY <1>1, <1>2, <1>3, <1>4 DEF Image, Beside, Placed

LEMMA GoesIs ==
    ASSUME NEW m \in Image, NEW t \in Threads, NEW s \in Stages
    PROVE  /\ Goes(m, t, s) \in Image
           /\ Goes(m, t, s).db = m.db
           /\ Goes(m, t, s).call =
                [m.call EXCEPT ![t] = [stage |-> s, op |-> m.call[t].op, on |-> m.call[t].on,
                                       opens |-> m.call[t].opens]]
           /\ Beside(Goes(m, t, s), m)
<1>1. m.call[t].opens \in Hows
  BY DEF Image, Call, Hows
<1> DEFINE how == m.call[t].opens
<1>2. Goes(m, t, s) = GoesOpening(m, t, s, how)
  BY DEF Goes
<1> HIDE DEF how
<1>3. Placed(GoesOpening(m, t, s, how), m, t, s, how)
  BY <1>1, GoesOpeningIs DEF how
<1> QED BY <1>2, <1>3 DEF how, Placed

LEMMA BecomesIs ==
    ASSUME NEW m \in Image, NEW t \in Threads, NEW d \in Database
    PROVE  /\ Becomes(m, t, d) \in Image
           /\ Becomes(m, t, d).db = [m.db EXCEPT ![m.call[t].on] = d]
           /\ Becomes(m, t, d).call = m.call
           /\ Beside(Becomes(m, t, d), m)
  BY DEF Image, Becomes, Call, On, Beside

LEMMA ReturnsIs ==
    ASSUME NEW m \in Image, NEW t \in Threads
    PROVE  /\ Returns(m, t) \in Image
           /\ Returns(m, t).db = m.db
           /\ Returns(m, t).call = [m.call EXCEPT ![t] = Resting]
           /\ Beside(Returns(m, t), m)
  BY DefaultIsAContext DEF Image, Returns, Call, Resting, Stages, Ops, Beside

LEMMA UnlockedIs ==
    ASSUME NEW m \in Image
    PROVE  /\ Unlocked(m) \in Image
           /\ Unlocked(m).db = m.db /\ Unlocked(m).call = m.call
           /\ Unlocked(m).holder = None
           /\ Unlocked(m).firstTime = m.firstTime /\ Unlocked(m).handlers = m.handlers 
           /\ Unlocked(m).cache = m.cache /\ Unlocked(m).invalid = m.invalid /\ Unlocked(m).alive = m.alive
           /\ Unlocked(m).opened = m.opened /\ Unlocked(m).cleanups = m.cleanups
  BY DEF Image, Unlocked

-----------------------------------------------------------------------------
(* A step of thread t outside the handler of fork, which takes its call to *)
(* x and the databases of its context to d.                                *)
Steps(t, x, d) ==
    /\ t \in image.alive
    /\ image.call[t].stage # "childAfter"
    /\ x.stage # "childAfter"
    /\ image' \in Image
    /\ UNCHANGED history
    /\ image'.alive = image.alive /\ image'.invalid = image.invalid
    /\ image'.firstTime => image.firstTime
    /\ image'.call = [image.call EXCEPT ![t] = x]
    /\ image'.db = [image.db EXCEPT ![On(image, t)] = d]

(* What such a step owes. *)
Fits(t, x, d) ==
    /\ d # Of(image, t) => Within(image.call[t])
    /\ image'.cleanups = image.cleanups \/ image.call[t].stage = "clear"
    /\ CallFits(x, t, image'.db[x.on], image')
    /\ DatabaseFits(On(image, t), d)
    /\ CacheFits(image')
    /\ "first opening" \notin caught =>
          /\ image'.cache \in {None, image.cache} \/ image'.cache.by = pid
          /\ d.conn \in {None, Of(image, t).conn} \/ Own(d.conn)
          /\ x.stage \in {"run", "running"} => Own(image'.db[x.on].conn)

(* Nobody is in the handler of the child while another thread steps. *)
LEMMA NotInherits ==
    ASSUME IInv, NEW t \in Threads, t \in image.alive, image.call[t].stage # "childAfter"
    PROVE  ~Inherits
  BY DEF IInv, InChild, Inherits

LEMMA StepKeeps ==
    ASSUME IInv, NEW t \in Threads, NEW x \in Call, NEW d \in Database,
           Steps(t, x, d), Fits(t, x, d)
    PROVE  IInv'
<1>0. image \in Image /\ image.call \in [Threads -> Call] /\ image.db \in [Contexts -> Database]
  BY DEF IInv, TypeOK, Image
<1>1. /\ \A u \in Threads : image'.call[u] = IF u = t THEN x ELSE image.call[u]
      /\ \A c \in Contexts : image'.db[c] = IF c = On(image, t) THEN d ELSE image.db[c]
      /\ \A u \in Threads : On(image, u) \in Contexts
      /\ x.on \in Contexts
      /\ pid' = pid /\ strays' = strays /\ caught' = caught
  BY <1>0 DEF Steps, history, On, Call
<1>2. TypeOK'
  BY <1>1 DEF IInv, TypeOK, Steps
<1>3. ASSUME NEW u \in Threads \ {t}, Within(image.call[u])
      PROVE  image'.db[On(image, u)] = Of(image, u)
  <2>1. ThreadOf[On(image, u)] = u
    BY <1>3 DEF IInv, Calls, CallFits, On
  <2>2. CASE d = Of(image, t)
    BY <2>2, <1>1 DEF Of
  <2>3. CASE d # Of(image, t)
    <3>1. ThreadOf[On(image, t)] = t
      BY <2>3 DEF Fits, IInv, Calls, CallFits, On
    <3> QED BY <3>1, <2>1, <1>1 DEF Of
  <2> QED BY <2>2, <2>3
<1>4. Calls'
  <2> SUFFICES ASSUME NEW u \in Threads
               PROVE  CallFits(image'.call[u], u, image'.db[image'.call[u].on], image')
    BY DEF Calls, Of, On
  <2>1. CASE u = t
    BY <2>1, <1>1 DEF Fits
  <2>2. CASE u # t
    <3>1. CallFits(image.call[u], u, Of(image, u), image) /\ image'.call[u] = image.call[u]
      BY <2>2, <1>1 DEF IInv, Calls
    <3>2. image.call[u].op = "cleanup" => image'.cleanups = image.cleanups
      <4> SUFFICES ASSUME image.call[u].op = "cleanup", image.call[t].stage = "clear"
                   PROVE  FALSE
        BY DEF Fits
      <4>1. ThreadOf[Default] = u
        BY <3>1 DEF CallFits
      <4>2. ThreadOf[Default] = t
        BY DEF IInv, Calls, CallFits, Within
      <4> QED BY <4>1, <4>2, <2>2
    <3>3. CASE Within(image.call[u])
      BY <3>1, <3>2, <3>3, <1>3, <2>2 DEF CallFits, On, Steps
    <3>4. CASE ~Within(image.call[u])
      BY <3>1, <3>2, <3>4 DEF CallFits, Within, Opening
    <3> QED BY <3>3, <3>4
  <2> QED BY <2>1, <2>2
<1>5. Databases'
  BY <1>1 DEF Databases, IInv, Fits
<1>6. ~Inherits /\ ~Inherits' /\ InChild'
  BY <1>1, NotInherits DEF Steps, Inherits, InChild
<1>7. Owned'
  <2> SUFFICES ASSUME "first opening" \notin caught
               PROVE  /\ image'.cache # None => image'.cache.by = pid
                      /\ \A c \in Contexts :
                            LET k == image'.db[c].conn
                            IN  k = None \/ Own(k) \/ k \in image'.invalid
                      /\ \A u \in Threads :
                            (At(u, "run") \/ At(u, "running"))' => Own(image'.db[image'.call[u].on].conn)
    BY <1>1 DEF Owned, Own, Of, On
  <2>1. /\ image.cache # None => image.cache.by = pid
        /\ \A c \in Contexts :
              LET k == image.db[c].conn
              IN  k = None \/ Own(k) \/ k \in image.invalid
        /\ \A u \in Threads : At(u, "run") \/ At(u, "running") => Own(Of(image, u).conn)
    BY <1>6 DEF IInv, Owned
  <2>2. image'.cache # None => image'.cache.by = pid
    BY <2>1 DEF Fits
  <2>3. ASSUME NEW c \in Contexts
        PROVE  LET k == image'.db[c].conn
               IN  k = None \/ Own(k) \/ k \in image'.invalid
    BY <2>1, <1>1 DEF Fits, Steps, Of
  <2>4. ASSUME NEW u \in Threads, (At(u, "run") \/ At(u, "running"))'
        PROVE  Own(image'.db[image'.call[u].on].conn)
    <3>1. CASE u = t
      BY <3>1, <2>4, <1>1 DEF Fits, At
    <3>2. CASE u # t
      <4>1. image'.call[u] = image.call[u] /\ (At(u, "run") \/ At(u, "running"))
        BY <3>2, <2>4, <1>1 DEF At, Steps
      <4>2. Within(image.call[u])
        BY <4>1 DEF At, Within
      <4> QED BY <4>1, <4>2, <1>3, <2>1, <3>2 DEF On
    <3> QED BY <3>1, <3>2
  <2> QED BY <2>2, <2>3, <2>4
<1> QED BY <1>2, <1>4, <1>5, <1>6, <1>7 DEF IInv, Fits

-----------------------------------------------------------------------------
(* A step that goes on, with other databases or the same, keeps the        *)
(* invariant if the call and the databases fit.                            *)
LEMMA GoingOnOpening ==
    ASSUME IInv, NEW t \in Threads, NEW s \in Stages, NEW how \in Hows, NEW d \in Database,
           t \in image.alive, Within(image.call[t]), s # "childAfter",
           To(GoesOpening(Becomes(image, t, d), t, s, how)),
           CallFits([stage |-> s, op |-> Asked(image, t), on |-> On(image, t), opens |-> how], t, d, image),
           DatabaseFits(On(image, t), d),
           "first opening" \notin caught =>
               /\ d.conn \in {None, Of(image, t).conn} \/ Own(d.conn)
               /\ s \in {"run", "running"} => Own(d.conn)
    PROVE  IInv'
<1> DEFINE x == [stage |-> s, op |-> Asked(image, t), on |-> On(image, t), opens |-> how]
<1>1. image \in Image /\ image.call[t] \in Call /\ image.db \in [Contexts -> Database]
  BY DEF IInv, TypeOK, Image
<1>2. x \in Call /\ x.stage = s /\ x.on = On(image, t)
  BY <1>1 DEF Call, Asked, On, Hows
<1>3. /\ image'.call = [image.call EXCEPT ![t] = x]
      /\ image'.db = [image.db EXCEPT ![On(image, t)] = d]
      /\ image' \in Image /\ Beside(image', image)
  <2> DEFINE n == Becomes(image, t, d)
  <2>1. /\ n \in Image /\ n.call = image.call /\ Beside(n, image)
        /\ n.db = [image.db EXCEPT ![On(image, t)] = d]
    <3>1. /\ n \in Image /\ n.call = image.call /\ Beside(n, image)
          /\ n.db = [image.db EXCEPT ![image.call[t].on] = d]
      <4> HIDE DEF n
      <4>1. n = Becomes(image, t, d)
        BY DEF n
      <4> QED BY <1>1, <4>1, BecomesIs, Zenon
    <3>2. On(image, t) = image.call[t].on
      BY DEF On
    <3> HIDE DEF n
    <3> QED BY <3>1, <3>2
  <2>2. image' = GoesOpening(n, t, s, how)
    BY DEF To
  <2> HIDE DEF n
  <2> DEFINE g == GoesOpening(n, t, s, how)
  <2>2a. Placed(g, n, t, s, how)
    BY <2>1, GoesOpeningIs
  <2> HIDE DEF g
  <2>3. /\ image' \in Image /\ image'.db = n.db /\ Beside(image', n)
        /\ image'.call = [n.call EXCEPT ![t] = [stage |-> s, op |-> n.call[t].op, on |-> n.call[t].on,
                                            opens |-> how]]
    <3>1. image' = g
      BY <2>2 DEF g
    <3> QED BY <3>1, <2>2a, Zenon DEF Placed
  <2> QED BY <2>1, <2>3 DEF Beside, Asked, On
<1>4. image.call[t].stage # "childAfter"
  BY DEF Within
<1> HIDE DEF x
<1>5. Steps(t, x, d)
  BY <1>2, <1>3, <1>4 DEF Steps, Beside, To
<1>6. image'.db[x.on] = d
  BY <1>1, <1>2, <1>3 DEF Call, On
<1>7. CallFits(x, t, d, image')
  <2>1. CallFits(x, t, d, image)
    BY DEF x
  <2> QED BY <1>3, <2>1 DEF CallFits, Beside
<1>8. Fits(t, x, d)
  BY <1>2, <1>3, <1>6, <1>7 DEF Fits, Beside, IInv, CacheFits
<1> QED BY <1>2, <1>5, <1>8, StepKeeps

LEMMA GoingOn ==
    ASSUME IInv, NEW t \in Threads, NEW s \in Stages, NEW d \in Database,
           t \in image.alive, Within(image.call[t]), s # "childAfter",
           To(Goes(Becomes(image, t, d), t, s)),
           CallFits([stage |-> s, op |-> Asked(image, t), on |-> On(image, t),
                     opens |-> image.call[t].opens], t, d, image),
           DatabaseFits(On(image, t), d),
           "first opening" \notin caught =>
               /\ d.conn \in {None, Of(image, t).conn} \/ Own(d.conn)
               /\ s \in {"run", "running"} => Own(d.conn)
    PROVE  IInv'
<1> DEFINE how == image.call[t].opens
<1>1. image \in Image /\ how \in Hows
  BY DEF IInv, TypeOK, Image, Call, Hows
<1>2. Becomes(image, t, d).call[t].opens = how
  BY <1>1, BecomesIs
<1>3. To(GoesOpening(Becomes(image, t, d), t, s, how))
  BY <1>2 DEF Goes
<1> HIDE DEF how
<1>4. CallFits([stage |-> s, op |-> Asked(image, t), on |-> On(image, t), opens |-> how], t, d, image)
  BY DEF how
<1> QED BY <1>1, <1>3, <1>4, GoingOnOpening

(* The same for one that ends the call. *)
LEMMA Returning ==
    ASSUME IInv, NEW t \in Threads, NEW d \in Database,
           t \in image.alive, Within(image.call[t]),
           To(Returns(Becomes(image, t, d), t)),
           DatabaseFits(On(image, t), d),
           "first opening" \notin caught => d.conn \in {None, Of(image, t).conn} \/ Own(d.conn)
    PROVE  IInv'
<1>1. image \in Image /\ image.call[t] \in Call /\ image.db \in [Contexts -> Database]
  BY DEF IInv, TypeOK, Image
<1>2. /\ Resting \in Call /\ Resting.stage = "idle" /\ Resting.on = Default
      /\ Resting.op = "query"
  BY DefaultIsAContext DEF Resting, Call, Stages, Ops
<1>3. /\ image'.call = [image.call EXCEPT ![t] = Resting]
      /\ image'.db = [image.db EXCEPT ![On(image, t)] = d]
      /\ image' \in Image /\ Beside(image', image)
  <2> DEFINE n == Becomes(image, t, d)
  <2>1. /\ n \in Image /\ n.call = image.call /\ Beside(n, image)
        /\ n.db = [image.db EXCEPT ![On(image, t)] = d]
    <3>1. /\ n \in Image /\ n.call = image.call /\ Beside(n, image)
          /\ n.db = [image.db EXCEPT ![image.call[t].on] = d]
      <4> HIDE DEF n
      <4>1. n = Becomes(image, t, d)
        BY DEF n
      <4> QED BY <1>1, <4>1, BecomesIs, Zenon
    <3>2. On(image, t) = image.call[t].on
      BY DEF On
    <3> HIDE DEF n
    <3> QED BY <3>1, <3>2
  <2>2. image' = Returns(n, t)
    BY DEF To
  <2> HIDE DEF n
  <2>3. /\ image' \in Image /\ image'.db = n.db /\ Beside(image', n)
        /\ image'.call = [n.call EXCEPT ![t] = Resting]
    BY <2>1, <2>2, ReturnsIs
  <2> QED BY <2>1, <2>3 DEF Beside
<1>4. image.call[t].stage # "childAfter"
  BY DEF Within
<1>5. Steps(t, Resting, d)
  BY <1>2, <1>3, <1>4 DEF Steps, Beside, To
<1>6. CallFits(Resting, t, image'.db[Default], image')
  BY <1>2 DEF CallFits, Within, Opening
<1>7. Fits(t, Resting, d)
  BY <1>2, <1>3, <1>6 DEF Fits, Beside, IInv, CacheFits
<1> QED BY <1>2, <1>5, <1>7, StepKeeps

(* The databases a context has are what it becomes when nothing changes. *)
LEMMA SameDatabases ==
    ASSUME IInv, NEW t \in Threads
    PROVE  /\ Of(image, t) \in Database
           /\ Becomes(image, t, Of(image, t)) = image
           /\ DatabaseFits(On(image, t), Of(image, t))
<1>1. image \in Image /\ On(image, t) \in Contexts
  BY DEF IInv, TypeOK, Image, Call, On
<1>2. Of(image, t) \in Database
  BY <1>1 DEF Of, Image
<1>3. image.db \in [Contexts -> Database]
  BY <1>1 DEF Image
<1>4. [image.db EXCEPT ![On(image, t)] = image.db[On(image, t)]] = image.db
  BY <1>1, <1>3
<1>5. Becomes(image, t, Of(image, t))
        = [image EXCEPT !.db = [image.db EXCEPT ![On(image, t)] = image.db[On(image, t)]]]
  BY Zenon DEF Becomes, Of
<1>6. [image EXCEPT !.db = image.db] = image
  BY <1>1 DEF Image
<1> QED BY <1>1, <1>2, <1>4, <1>5, <1>6 DEF IInv, Databases, Of

-----------------------------------------------------------------------------
(* The calls. *)

LEMMA BeginKeeps ==
    ASSUME IInv, NEW t \in Threads, NEW c \in Contexts, NEW op \in Ops, Begin(t, c, op)
    PROVE  IInv'
<1> DEFINE stage == CASE op \in {"query", "start"} -> IF image.db[c].open THEN "handle" ELSE "lock"
                      [] op = "stop" -> "handle"
                      [] OTHER -> IF image.db[c].session THEN "handle" ELSE "discard"
           how == IF stage = "lock" THEN "first" ELSE "no"
           x == [stage |-> stage, op |-> op, on |-> c, opens |-> how]
           d == Of(image, t)
<1>1. image \in Image /\ image.call \in [Threads -> Call] /\ image.db \in [Contexts -> Database]
  BY DEF IInv, TypeOK, Image
<1>2. /\ At(t, "idle") /\ ThreadOf[c] = t
      /\ op = "start" => ~image.db[c].session
      /\ op = "stop" => image.db[c].session
      /\ op = "cleanup" => c = Default /\ image.cleanups < MaxCleanups
      /\ To([image EXCEPT !.call[t] = x])
  BY DEF Begin
<1>3. stage \in {"handle", "lock", "discard"} /\ stage \in Stages
  BY DEF Stages, Opening
<1>4. /\ x \in Call /\ x.stage = stage /\ x.op = op /\ x.on = c
      /\ stage = "handle" => x.opens = "no"
  BY <1>3 DEF Call
<1>4a. stage = "lock" => ~image.db[c].open
  OBVIOUS
<1> HIDE DEF x, stage
<1>5. [image.call EXCEPT ![t] = x] \in [Threads -> Call]
  BY <1>1, <1>4
<1>6. /\ image' \in Image /\ image'.db = image.db
      /\ image'.call = [image.call EXCEPT ![t] = x]
      /\ Beside(image', image)
  BY <1>1, <1>2, <1>5 DEF To, Image, Beside
<1>7. d \in Database /\ Becomes(image, t, d) = image /\ DatabaseFits(On(image, t), d)
  BY SameDatabases
<1>8. Steps(t, x, d)
  <2>1. image'.db = [image.db EXCEPT ![On(image, t)] = d]
    BY <1>1, <1>6 DEF Of, On, Call
  <2> QED BY <1>2, <1>3, <1>4, <1>6, <2>1 DEF Steps, At, Beside, To
<1>9. CallFits(x, t, image'.db[x.on], image')
  <2>1. DatabaseFits(c, image.db[c])
    BY DEF IInv, Databases
  <2>2. image'.db[x.on] = image.db[c] /\ image'.cleanups = image.cleanups
    BY <1>4, <1>6 DEF Beside
  <2>3. stage = "lock" => image.db[c].statements = {}
    BY <1>4a, <2>1 DEF DatabaseFits
  <2> QED BY <1>2, <1>3, <1>4, <1>4a, <2>2, <2>3 DEF CallFits, Within, Opening
<1>10. Fits(t, x, d)
  BY <1>3, <1>4, <1>6, <1>7, <1>9 DEF Fits, Beside, IInv, CacheFits
<1> QED BY <1>4, <1>7, <1>8, <1>10, StepKeeps

(* What the invariant says of a thread in a call. *)
LEMMA AtWithin ==
    ASSUME IInv, NEW t \in Threads, NEW s, At(t, s),
           s \notin {"idle", "prepare", "fork", "forkHeld", "parentAfter", "childAfter"}
    PROVE  /\ t \in image.alive /\ image.call[t].stage = s /\ Within(image.call[t])
           /\ image.call[t].on = On(image, t) /\ image.call[t].op = Asked(image, t)
           /\ CallFits(image.call[t], t, Of(image, t), image)
           /\ On(image, t) \in Contexts /\ Asked(image, t) \in Ops
           /\ ~Inherits
<1>1. /\ t \in image.alive /\ image.call[t].stage = s /\ Within(image.call[t])
  BY DEF At, Within
<1>2. image.call[t] \in Call
  BY DEF IInv, TypeOK, Image
<1> QED BY <1>1, <1>2, NotInherits DEF IInv, Calls, On, Asked, Call

LEMMA HandleKeeps ==
    ASSUME IInv, NEW t \in Threads, Handle(t)
    PROVE  IInv'
<1> DEFINE db == Of(image, t)
           s == IF db.conn = None THEN "aborted"
                ELSE IF db.conn \in image.invalid THEN "finalize" ELSE "run"
           how == IF s = "finalize" THEN "again" ELSE image.call[t].opens
<1>1. At(t, "handle") /\ To(GoesOpening(Becomes(image, t, db), t, s, how))
  BY SameDatabases DEF Handle, Goes
<1>2. s \in Stages /\ s \in {"aborted", "finalize", "run"}
  BY DEF Stages
<1>3. /\ t \in image.alive /\ image.call[t].stage = "handle" /\ Within(image.call[t])
      /\ image.call[t].on = On(image, t) /\ image.call[t].op = Asked(image, t)
      /\ CallFits(image.call[t], t, db, image)
      /\ On(image, t) \in Contexts /\ ~Inherits
  BY <1>1, AtWithin
<1>4. db \in Database /\ DatabaseFits(On(image, t), db)
  BY SameDatabases
<1>5. CallFits([stage |-> s, op |-> Asked(image, t), on |-> On(image, t), opens |-> how], t, db, image)
  BY <1>2, <1>3 DEF CallFits, Within, Opening
<1>6. "first opening" \notin caught => (s = "run" => Own(db.conn))
  BY <1>3 DEF IInv, Owned, Of
<1>7. how \in Hows
  BY DEF IInv, TypeOK, Image, Call, Hows
<1> HIDE DEF s, how
<1> QED BY <1>1, <1>2, <1>3, <1>4, <1>5, <1>6, <1>7, GoingOnOpening

(* Without its handle, or closed, a context has nothing that must fit. *)
LEMMA WithoutHandleFits ==
    ASSUME NEW db \in Database, NEW c
    PROVE  /\ WithoutHandle(db) \in Database /\ Closed \in Database
           /\ DatabaseFits(c, WithoutHandle(db)) /\ DatabaseFits(c, Closed)
           /\ WithoutHandle(db).conn = None /\ WithoutHandle(db).statements = {}
           /\ WithoutHandle(db).session = db.session
           /\ Closed.conn = None
  BY DEF WithoutHandle, Closed, Database, DatabaseFits

LEMMA FinalizeKeeps ==
    ASSUME IInv, NEW t \in Threads, Finalize(t)
    PROVE  IInv'
<1> DEFINE db == Of(image, t)
           without == WithoutHandle(db)
           how == image.call[t].opens
<1>1. At(t, "finalize") /\ To(Goes(Becomes(image, t, without), t, "lock"))
  BY DEF Finalize
<1>2. /\ t \in image.alive /\ image.call[t].stage = "finalize" /\ Within(image.call[t])
      /\ image.call[t].on = On(image, t) /\ image.call[t].op = Asked(image, t)
      /\ CallFits(image.call[t], t, db, image)
      /\ On(image, t) \in Contexts /\ Asked(image, t) \in Ops
  BY <1>1, AtWithin
<1>3. db \in Database
  BY SameDatabases
<1>4. /\ without \in Database /\ DatabaseFits(On(image, t), without)
      /\ without.conn = None /\ without.statements = {} /\ without.session = db.session
  BY <1>3, WithoutHandleFits
<1>5. "lock" \in Stages
  BY DEF Stages, Opening
<1> HIDE DEF without
<1>6. CallFits([stage |-> "lock", op |-> Asked(image, t), on |-> On(image, t), opens |-> how],
               t, without, image)
  BY <1>2, <1>4 DEF CallFits, Within, Opening
<1> QED BY <1>1, <1>2, <1>4, <1>5, <1>6, GoingOn

LEMMA DiscardKeeps ==
    ASSUME IInv, NEW t \in Threads, Discard(t)
    PROVE  IInv'
<1> DEFINE db == Of(image, t)
           how == image.call[t].opens
<1>1. /\ At(t, "discard")
      /\ \/ To(Returns(Becomes(image, t, Closed), t))
         \/ /\ Asked(image, t) = "cleanup"
            /\ To(Goes(Becomes(image, t, Closed), t, "clear"))
  BY DEF Discard
<1>2. /\ t \in image.alive /\ image.call[t].stage = "discard" /\ Within(image.call[t])
      /\ image.call[t].on = On(image, t) /\ image.call[t].op = Asked(image, t)
      /\ CallFits(image.call[t], t, db, image)
      /\ On(image, t) \in Contexts /\ Asked(image, t) \in Ops
  BY <1>1, AtWithin
<1>3. db \in Database
  BY SameDatabases
<1>4. Closed \in Database /\ DatabaseFits(On(image, t), Closed) /\ Closed.conn = None
  BY <1>3, WithoutHandleFits
<1>5. CASE To(Returns(Becomes(image, t, Closed), t))
  BY <1>2, <1>4, <1>5, Returning
<1>6. CASE Asked(image, t) = "cleanup" /\ To(Goes(Becomes(image, t, Closed), t, "clear"))
  <2>1. CallFits([stage |-> "clear", op |-> Asked(image, t), on |-> On(image, t), opens |-> how],
                 t, Closed, image)
    BY <1>2, <1>6 DEF CallFits, Within, Opening
  <2>2. "clear" \in Stages
    BY DEF Stages
  <2> QED BY <1>2, <1>4, <1>6, <2>1, <2>2, GoingOn
<1> QED BY <1>1, <1>5, <1>6

(* A call that throws leaves the databases it got as far as, if they fit:  *)
(* whoever is destroyed next relies on nothing else.                       *)
LEMMA ThrownKeeps ==
    ASSUME IInv, NEW t \in Threads, NEW d \in Database, NEW s, At(t, s),
           s \in {"find", "run", "running", "attach"},
           To(Thrown(Becomes(image, t, d), t)),
           DatabaseFits(On(image, t), d),
           "first opening" \notin caught => d.conn \in {None, Of(image, t).conn} \/ Own(d.conn)
    PROVE  IInv'
<1> DEFINE how == image.call[t].opens
<1>1. /\ t \in image.alive /\ image.call[t].stage = s /\ Within(image.call[t])
      /\ image.call[t].on = On(image, t) /\ image.call[t].op = Asked(image, t)
      /\ CallFits(image.call[t], t, Of(image, t), image)
      /\ On(image, t) \in Contexts /\ Asked(image, t) \in Ops
  BY AtWithin
<1>2. \/ To(Returns(Becomes(image, t, d), t))
      \/ To(Goes(Becomes(image, t, d), t, "discard"))
  BY DEF Thrown
<1>3. CASE To(Returns(Becomes(image, t, d), t))
  BY <1>1, <1>3, Returning
<1>4. CASE To(Goes(Becomes(image, t, d), t, "discard"))
  <2>1. CallFits([stage |-> "discard", op |-> Asked(image, t), on |-> On(image, t), opens |-> how],
                 t, d, image)
    BY <1>1 DEF CallFits, Within, Opening
  <2>2. "discard" \in Stages
    BY DEF Stages
  <2> QED BY <1>1, <1>4, <2>1, <2>2, GoingOn
<1> QED BY <1>2, <1>3, <1>4

LEMMA RunKeeps ==
    ASSUME IInv, NEW t \in Threads, Run(t)
    PROVE  IInv'
<1> DEFINE db == Of(image, t)
           d == [db EXCEPT !.statements = @ \cup {db.conn}]
<1>1. At(t, "run") /\ To(Goes(Becomes(image, t, d), t, "running"))
  BY DEF Run
<1>2. /\ t \in image.alive /\ image.call[t].stage = "run" /\ Within(image.call[t])
      /\ image.call[t].on = On(image, t) /\ image.call[t].op = Asked(image, t)
      /\ CallFits(image.call[t], t, db, image)
      /\ On(image, t) \in Contexts /\ ~Inherits
  BY <1>1, AtWithin
<1>3. db \in Database /\ DatabaseFits(On(image, t), db)
  BY SameDatabases
<1>4. db.conn # None
  BY <1>2 DEF CallFits
<1>5. /\ d \in Database /\ d.conn = db.conn /\ d.open = db.open /\ d.sees = db.sees
      /\ d.session = db.session /\ d.failed = db.failed /\ d.statements = db.statements \cup {db.conn}
  BY <1>3, <1>4 DEF Database
<1>6. db.open
  BY <1>3, <1>4 DEF DatabaseFits
<1> HIDE DEF d
<1>7. DatabaseFits(On(image, t), d)
  BY <1>3, <1>5, <1>6 DEF DatabaseFits
<1>8. CallFits([stage |-> "running", op |-> Asked(image, t), on |-> On(image, t),
                opens |-> image.call[t].opens], t, d, image)
  BY <1>2, <1>4, <1>5 DEF CallFits, Within, Opening
<1>9. "first opening" \notin caught => Own(d.conn)
  BY <1>1, <1>5 DEF IInv, Owned
<1>10. "running" \in Stages
  BY DEF Stages
<1> QED BY <1>1, <1>2, <1>5, <1>7, <1>8, <1>9, <1>10, GoingOn

LEMMA RanKeeps ==
    ASSUME IInv, NEW t \in Threads, Ran(t)
    PROVE  IInv'
<1> DEFINE db == Of(image, t)
           s == IF Stopping(image, t) /\ On(image, t) \notin WithAux THEN "finalize" ELSE "attach"
<1>1. /\ At(t, "running")
      /\ \/ To(Returns(Becomes(image, t, db), t))
         \/ /\ Asked(image, t) # "query" \/ Opens(image, t)
            /\ To(Goes(Becomes(image, t, db), t, s))
  BY SameDatabases DEF Ran, AfterTables
<1>2. /\ t \in image.alive /\ image.call[t].stage = "running" /\ Within(image.call[t])
      /\ image.call[t].on = On(image, t) /\ image.call[t].op = Asked(image, t)
      /\ CallFits(image.call[t], t, db, image)
      /\ On(image, t) \in Contexts /\ Asked(image, t) \in Ops
  BY <1>1, AtWithin
<1>3. db \in Database /\ DatabaseFits(On(image, t), db)
  BY SameDatabases
<1>4. s \in Stages /\ s \in {"finalize", "attach"}
  BY DEF Stages
<1>5. CASE To(Returns(Becomes(image, t, db), t))
  BY <1>2, <1>3, <1>5, Returning
<1>6. CASE /\ Asked(image, t) # "query" \/ Opens(image, t)
           /\ To(Goes(Becomes(image, t, db), t, s))
  <2>1. CallFits([stage |-> s, op |-> Asked(image, t), on |-> On(image, t),
                  opens |-> image.call[t].opens], t, db, image)
    BY <1>2, <1>6 DEF CallFits, Within, Opening, Stopping, Opens, Ops
  <2> QED BY <1>2, <1>3, <1>4, <1>6, <2>1, GoingOn
<1> QED BY <1>1, <1>5, <1>6

LEMMA RunFailsKeeps ==
    ASSUME IInv, NEW t \in Threads, RunFails(t)
    PROVE  IInv'
<1> DEFINE db == Of(image, t)
<1>1. PICK begun \in {FALSE, StartsSession(t)} :
        To(Thrown(Becomes(image, t, [db EXCEPT !.session = @ \/ begun]), t))
  BY DEF RunFails
<1> DEFINE d == [db EXCEPT !.session = @ \/ begun]
<1>2. PICK s \in {"run", "running"} : At(t, s)
  BY DEF RunFails
<1>3. db \in Database /\ DatabaseFits(On(image, t), db)
  BY SameDatabases
<1>4. StartsSession(t) \in BOOLEAN
  BY DEF StartsSession
<1>5. /\ d \in Database /\ d.conn = db.conn /\ d.statements = db.statements /\ d.open = db.open
      /\ d.sees = db.sees /\ d.failed = db.failed /\ (db.session => d.session)
  BY <1>3, <1>4 DEF Database
<1>6. To(Thrown(Becomes(image, t, d), t))
  BY <1>1
<1> HIDE DEF d
<1>7. DatabaseFits(On(image, t), d)
  BY <1>3, <1>5 DEF DatabaseFits
<1> QED BY <1>2, <1>5, <1>6, <1>7, ThrownKeeps

(* The memory database of a context is its own, wherever an attachment     *)
(* ends; without auxiliary databases the attachment is for a session.      *)
LEMMA AtAttach ==
    ASSUME IInv, NEW t \in Threads, At(t, "attach")
    PROVE  LET c == On(image, t)
               k == Memory(pid, c)
               db == Of(image, t)
           IN  /\ k \in Connections /\ k # None /\ Own(k)
               /\ db.open
               /\ c \notin WithAux => /\ db.sees /\ db.conn.of = None /\ ~db.session
                                      /\ ~Opens(image, t) /\ StartsSession(t)
<1> DEFINE db == Of(image, t)
           k == Memory(pid, On(image, t))
<1>1. /\ t \in image.alive /\ image.call[t].stage = "attach" /\ Within(image.call[t])
      /\ image.call[t].on = On(image, t) /\ image.call[t].op = Asked(image, t)
      /\ CallFits(image.call[t], t, db, image)
      /\ On(image, t) \in Contexts /\ Asked(image, t) \in Ops
  BY AtWithin
<1>2. db \in Database /\ DatabaseFits(On(image, t), db)
  BY SameDatabases
<1>3. pid \in Processes
  BY DEF IInv, TypeOK
<1>4. k \in Connections /\ k.by = pid /\ k # None
  BY <1>1, <1>3, NoneIsNothing DEF Connections, Memory
<1>5. Own(k)
  BY <1>4 DEF Own
<1>6. db.open
  BY <1>1, <1>2 DEF CallFits, DatabaseFits
<1>7. On(image, t) \notin WithAux => /\ db.sees /\ db.conn.of = None /\ ~db.session
                                    /\ ~Opens(image, t) /\ StartsSession(t)
  BY <1>1, <1>2 DEF CallFits, DatabaseFits, Opens, StartsSession
<1> QED BY <1>4, <1>5, <1>6, <1>7

LEMMA AttachKeeps ==
    ASSUME IInv, NEW t \in Threads, Attach(t)
    PROVE  IInv'
<1> DEFINE db == Of(image, t)
           c == On(image, t)
           k == Memory(pid, c)
           d == [db EXCEPT !.conn = k, !.statements = {k}, !.sees = @ /\ db.conn.of = None,
                           !.session = (@ /\ Opens(image, t)) \/ StartsSession(t),
                           !.failed = @ /\ Opens(image, t)]
           how == image.call[t].opens
<1>1. /\ At(t, "attach")
      /\ \/ Opens(image, t) /\ To(GoesOpening(Becomes(image, t, d), t, "run", "no"))
         \/ To(Returns(Becomes(image, t, d), t))
         \/ To(Goes(Becomes(image, t, d), t, "discard"))
  BY DEF Attach
<1>2. /\ t \in image.alive /\ image.call[t].stage = "attach" /\ Within(image.call[t])
      /\ image.call[t].on = c /\ image.call[t].op = Asked(image, t)
      /\ CallFits(image.call[t], t, db, image)
      /\ c \in Contexts /\ Asked(image, t) \in Ops
  BY <1>1, AtWithin
<1>3. db \in Database /\ DatabaseFits(c, db)
  BY SameDatabases
<1>4. /\ k \in Connections /\ k # None /\ Own(k) /\ db.open
      /\ c \notin WithAux => /\ db.sees /\ db.conn.of = None /\ ~db.session
                             /\ ~Opens(image, t) /\ StartsSession(t)
  BY <1>1, AtAttach
<1>5. Opens(image, t) \in BOOLEAN /\ StartsSession(t) \in BOOLEAN
  BY DEF Opens, StartsSession
<1>6. /\ d \in Database /\ d.open = db.open /\ d.conn = k /\ d.statements = {k}
      /\ d.sees = (db.sees /\ db.conn.of = None)
      /\ d.session = ((db.session /\ Opens(image, t)) \/ StartsSession(t))
  BY <1>3, <1>4, <1>5 DEF Database
<1>7. "run" \in Stages /\ "discard" \in Stages /\ "no" \in Hows
  BY DEF Stages, Hows
<1> HIDE DEF d, k
<1>8. DatabaseFits(c, d)
  BY <1>4, <1>6 DEF DatabaseFits
<1>9. CASE Opens(image, t) /\ To(GoesOpening(Becomes(image, t, d), t, "run", "no"))
  <2>1. CallFits([stage |-> "run", op |-> Asked(image, t), on |-> c, opens |-> "no"], t, d, image)
    BY <1>2, <1>4, <1>6, <1>9 DEF CallFits, Within, Opening
  <2> QED BY <1>2, <1>4, <1>6, <1>7, <1>8, <1>9, <2>1, GoingOnOpening
<1>10. CASE To(Returns(Becomes(image, t, d), t))
  BY <1>2, <1>4, <1>6, <1>8, <1>10, Returning
<1>11. CASE To(Goes(Becomes(image, t, d), t, "discard"))
  <2>1. CallFits([stage |-> "discard", op |-> Asked(image, t), on |-> c, opens |-> how], t, d, image)
    BY <1>2 DEF CallFits, Within, Opening
  <2> QED BY <1>2, <1>4, <1>6, <1>7, <1>8, <1>11, <2>1, GoingOn
<1> QED BY <1>1, <1>9, <1>10, <1>11

LEMMA AttachFailsKeeps ==
    ASSUME IInv, NEW t \in Threads, AttachFails(t)
    PROVE  IInv'
<1> DEFINE db == Of(image, t)
           c == On(image, t)
           left(k) == [db EXCEPT !.conn = k, !.statements = {k} \ {None}, !.sees = FALSE,
                                 !.session = @ \/ StartsSession(t),
                                 !.failed = db.session \/ StartsSession(t)]
<1>1. PICK k \in {None, Memory(pid, c)} : To(Thrown(Becomes(image, t, left(k)), t))
  BY DEF AttachFails
<1>2. At(t, "attach")
  BY DEF AttachFails
<1> DEFINE d == left(k)
<1>3. db \in Database /\ DatabaseFits(c, db)
  BY SameDatabases
<1>4. /\ Memory(pid, c) \in Connections /\ Own(Memory(pid, c)) /\ db.open
      /\ c \notin WithAux => StartsSession(t)
  BY <1>2, AtAttach
<1>5. StartsSession(t) \in BOOLEAN
  BY DEF StartsSession
<1>6. /\ d \in Database /\ d.open = db.open /\ d.conn = k /\ d.statements = {k} \ {None}
      /\ d.session = (db.session \/ StartsSession(t))
      /\ d.failed = (db.session \/ StartsSession(t))
  BY <1>3, <1>4, <1>5 DEF Database
<1>7. To(Thrown(Becomes(image, t, d), t))
  BY <1>1
<1> HIDE DEF d, left
<1>8. DatabaseFits(c, d)
  BY <1>4, <1>6 DEF DatabaseFits
<1>9. d.conn = None \/ Own(d.conn)
  BY <1>4, <1>6
<1> QED BY <1>2, <1>6, <1>7, <1>8, <1>9, ThrownKeeps

-----------------------------------------------------------------------------
(* The cache, under its mutex. *)

LEMMA LockKeeps ==
    ASSUME IInv, NEW t \in Threads, Lock(t)
    PROVE  IInv'
<1> DEFINE m == [image EXCEPT !.holder = t, !.firstTime = FALSE]
           s == IF image.firstTime THEN "register" ELSE "find"
           x == [stage |-> s, op |-> Asked(image, t), on |-> On(image, t),
                opens |-> image.call[t].opens]
           d == Of(image, t)
<1>1. At(t, "lock") /\ To(Goes(m, t, s))
  BY DEF Lock
<1>2. /\ t \in image.alive /\ image.call[t].stage = "lock" /\ Within(image.call[t])
      /\ image.call[t].on = On(image, t) /\ image.call[t].op = Asked(image, t)
      /\ CallFits(image.call[t], t, d, image)
      /\ On(image, t) \in Contexts /\ Asked(image, t) \in Ops
  BY <1>1, AtWithin
<1>3. d \in Database /\ DatabaseFits(On(image, t), d) /\ image \in Image
  BY SameDatabases DEF IInv, TypeOK
<1>4. /\ m \in Image /\ m.db = image.db /\ m.call = image.call /\ m.firstTime = FALSE
      /\ m.cache = image.cache /\ m.invalid = image.invalid /\ m.alive = image.alive
      /\ m.opened = image.opened /\ m.cleanups = image.cleanups
  BY <1>3 DEF Image
<1>5. s \in Stages /\ s \in {"register", "find"}
  BY DEF Stages, Opening
<1> HIDE DEF m, s
<1>6. /\ x \in Call /\ x.stage = s /\ x.op = Asked(image, t) /\ x.on = On(image, t)
  BY <1>2, <1>3, <1>5 DEF Call, Image
<1> HIDE DEF x
<1>7. /\ image' \in Image /\ image'.db = m.db /\ image'.call = [m.call EXCEPT ![t] = x]
      /\ Beside(image', m)
  <2> DEFINE g == Goes(m, t, s)
  <2>1. g \in Image /\ g.db = m.db /\ g.call = [m.call EXCEPT ![t] = x] /\ Beside(g, m)
    BY <1>4, <1>5, GoesIs DEF x, Asked, On
  <2>2. image' = g
    BY <1>1 DEF To
  <2> HIDE DEF g
  <2> QED BY <2>1, <2>2, Zenon
<1>8. image'.db = [image.db EXCEPT ![On(image, t)] = d]
  BY <1>2, <1>3, <1>4, <1>7 DEF Image, Of
<1>9. Steps(t, x, d)
  BY <1>1, <1>2, <1>4, <1>5, <1>6, <1>7, <1>8 DEF Steps, Beside, To
<1>10. CallFits(x, t, d, image')
  <2>1. ~image'.firstTime /\ image'.cleanups = image.cleanups
    BY <1>4, <1>7 DEF Beside
  <2> QED BY <1>2, <1>5, <1>6, <2>1 DEF CallFits, Within, Opening
<1>11. Fits(t, x, d)
  BY <1>2, <1>3, <1>4, <1>5, <1>6, <1>7, <1>10 DEF Fits, Beside, IInv, CacheFits, Of
<1> QED BY <1>3, <1>6, <1>9, <1>11, StepKeeps

LEMMA RegisterKeeps ==
    ASSUME IInv, NEW t \in Threads, Register(t)
    PROVE  IInv'
<1> DEFINE m == [image EXCEPT !.handlers = TRUE]
           x == [stage |-> "find", op |-> Asked(image, t), on |-> On(image, t),
                opens |-> image.call[t].opens]
           d == Of(image, t)
<1>1. At(t, "register") /\ To(Goes(m, t, "find"))
  BY DEF Register
<1>2. /\ t \in image.alive /\ image.call[t].stage = "register" /\ Within(image.call[t])
      /\ image.call[t].on = On(image, t) /\ image.call[t].op = Asked(image, t)
      /\ CallFits(image.call[t], t, d, image)
      /\ On(image, t) \in Contexts /\ Asked(image, t) \in Ops
  BY <1>1, AtWithin
<1>3. d \in Database /\ DatabaseFits(On(image, t), d) /\ image \in Image
  BY SameDatabases DEF IInv, TypeOK
<1>4. /\ m \in Image /\ m.db = image.db /\ m.call = image.call /\ m.firstTime = image.firstTime
      /\ m.cache = image.cache /\ m.invalid = image.invalid /\ m.alive = image.alive
      /\ m.opened = image.opened /\ m.cleanups = image.cleanups
  BY <1>3 DEF Image
<1>5. "find" \in Stages
  BY DEF Stages, Opening
<1> HIDE DEF m
<1>6. /\ x \in Call /\ x.stage = "find" /\ x.op = Asked(image, t) /\ x.on = On(image, t)
  BY <1>2, <1>3, <1>5 DEF Call, Image
<1> HIDE DEF x
<1>7. /\ image' \in Image /\ image'.db = m.db /\ image'.call = [m.call EXCEPT ![t] = x]
      /\ Beside(image', m)
  <2> DEFINE g == Goes(m, t, "find")
  <2>1. g \in Image /\ g.db = m.db /\ g.call = [m.call EXCEPT ![t] = x] /\ Beside(g, m)
    BY <1>4, <1>5, GoesIs DEF x, Asked, On
  <2>2. image' = g
    BY <1>1 DEF To
  <2> HIDE DEF g
  <2> QED BY <2>1, <2>2, Zenon
<1>8. image'.db = [image.db EXCEPT ![On(image, t)] = d]
  BY <1>2, <1>3, <1>4, <1>7 DEF Image, Of
<1>9. Steps(t, x, d)
  BY <1>1, <1>2, <1>4, <1>6, <1>7, <1>8 DEF Steps, Beside, To
<1>10. CallFits(x, t, d, image')
  <2>1. image'.firstTime = image.firstTime /\ image'.cleanups = image.cleanups
    BY <1>4, <1>7 DEF Beside
  <2> QED BY <1>2, <1>6, <2>1 DEF CallFits, Within, Opening
<1>11. Fits(t, x, d)
  BY <1>2, <1>3, <1>4, <1>6, <1>7, <1>10 DEF Fits, Beside, IInv, CacheFits, Of
<1> QED BY <1>3, <1>6, <1>9, <1>11, StepKeeps

(* A thread that got connection k, whether it was in the cache or is new,  *)
(* in an image m that differs from the present one by that connection.     *)
LEMMA OpenedKeeps ==
    ASSUME IInv, NEW t \in Threads, At(t, "find"), NEW k \in Connections, NEW m \in Image,
           To(Unlocked(Opened(m, t, k))),
           m.db = image.db, m.call = image.call, m.alive = image.alive,
           m.invalid = image.invalid, m.cleanups = image.cleanups,
           m.cache = k, k.of = None, ~m.firstTime, m.opened <= m.cleanups + 1,
           "first opening" \notin caught => k.by = pid
    PROVE  IInv'
<1> DEFINE c == On(image, t)
           d == [Of(m, t) EXCEPT !.open = TRUE, !.conn = k, !.sees = TRUE,
                                 !.session = @ /\ Opens(m, t), !.failed = @ /\ Opens(m, t)]
           n == Becomes(m, t, d)
           s == IF Stopping(image, t) THEN "discard" ELSE "run"
           how == IF Stopping(image, t) \/ c \in WithAux THEN image.call[t].opens ELSE "no"
<1>1. /\ t \in image.alive /\ image.call[t].stage = "find" /\ Within(image.call[t])
      /\ image.call[t].on = c /\ image.call[t].op = Asked(image, t)
      /\ CallFits(image.call[t], t, Of(image, t), image)
      /\ c \in Contexts /\ Asked(image, t) \in Ops
  BY AtWithin
<1>2. /\ image \in Image /\ Of(image, t) \in Database /\ Of(m, t) = Of(image, t)
      /\ On(m, t) = c /\ Asked(m, t) = Asked(image, t) /\ Stopping(m, t) = Stopping(image, t)
      /\ how \in Hows /\ Opens(m, t) = Opens(image, t) /\ Opens(image, t) \in BOOLEAN
  BY SameDatabases DEF IInv, TypeOK, Of, On, Asked, Stopping, Opens, Image, Call, Hows
<1>3. k # None
  BY NoneIsNothing
<1>4. /\ d \in Database /\ d.open = TRUE /\ d.conn = k /\ d.sees = TRUE /\ d.statements = {}
      /\ d.session = (Of(image, t).session /\ Opens(image, t))
  BY <1>1, <1>2 DEF Database, CallFits, Opening
<1>5. \/ Stopping(image, t) /\ To(Unlocked(Returns(n, t)))
      \/ To(Unlocked(GoesOpening(n, t, s, how)))
  <2>1. n.call = image.call
    <3> HIDE DEF d
    <3>1. Becomes(m, t, d).call = m.call
      BY <1>4, BecomesIs
    <3> QED BY <3>1
  <2> QED BY <1>2, <2>1 DEF Opened, Goes
<1> HIDE DEF d
<1>6. /\ n \in Image /\ n.call = image.call /\ Beside(n, m)
      /\ n.db = [image.db EXCEPT ![c] = d]
  <2>1. /\ n \in Image /\ n.call = m.call /\ Beside(n, m)
        /\ n.db = [m.db EXCEPT ![m.call[t].on] = d]
    BY <1>4, BecomesIs, Zenon
  <2>2. m.call[t].on = c
    BY <1>2 DEF On
  <2> HIDE DEF n
  <2> QED BY <2>1, <2>2
<1> HIDE DEF n
<1>7. s \in Stages /\ s \in {"discard", "run"}
  BY DEF Stages
<1>8. PICK x \in Call :
        /\ To(Unlocked(IF x = Resting THEN Returns(n, t) ELSE GoesOpening(n, t, s, how)))
        /\ x = Resting \/ x = [stage |-> s, op |-> Asked(image, t), on |-> c, opens |-> how]
  <2>1. Resting \in Call /\ Resting.stage = "idle"
    BY DefaultIsAContext DEF Resting, Call, Stages, Ops
  <2>2. [stage |-> s, op |-> Asked(image, t), on |-> c, opens |-> how] \in Call
    BY <1>1, <1>2, <1>7 DEF Call, Hows
  <2>3. [stage |-> s, op |-> Asked(image, t), on |-> c, opens |-> how] # Resting
    <3> DEFINE y == [stage |-> s, op |-> Asked(image, t), on |-> c, opens |-> how]
    <3>1. y.stage = s
      OBVIOUS
    <3> HIDE DEF y, s
    <3>2. y # Resting
      BY <3>1, <2>1, <1>7
    <3> QED BY <3>2 DEF y
  <2> QED BY <1>5, <2>1, <2>2, <2>3
<1> DEFINE r == IF x = Resting THEN Returns(n, t) ELSE GoesOpening(n, t, s, how)
<1>9. r \in Image /\ r.db = n.db /\ r.call = [image.call EXCEPT ![t] = x] /\ Beside(r, n)
  <2>1. /\ Returns(n, t) \in Image /\ Returns(n, t).db = n.db
        /\ Returns(n, t).call = [n.call EXCEPT ![t] = Resting] /\ Beside(Returns(n, t), n)
    BY <1>6, ReturnsIs, Zenon
  <2>2. /\ GoesOpening(n, t, s, how) \in Image
        /\ GoesOpening(n, t, s, how).db = n.db
        /\ Beside(GoesOpening(n, t, s, how), n)
        /\ GoesOpening(n, t, s, how).call
             = [n.call EXCEPT ![t] = [stage |-> s, op |-> n.call[t].op, on |-> n.call[t].on,
                                      opens |-> how]]
    <3> HIDE DEF s, how
    <3>1. n \in Image /\ s \in Stages /\ how \in Hows
      BY <1>2, <1>6, <1>7 DEF how
    <3>2. Placed(GoesOpening(n, t, s, how), n, t, s, how)
      BY <3>1, GoesOpeningIs
    <3> QED BY <3>2, Zenon DEF Placed
  <2>3. GoesOpening(n, t, s, how).call
          = [image.call EXCEPT ![t] = [stage |-> s, op |-> Asked(image, t), on |-> c, opens |-> how]]
    BY <2>2, <1>6, Zenon DEF Asked, On
  <2> HIDE DEF s
  <2>4. CASE x = Resting
    BY <2>1, <2>4, <1>6
  <2>5. CASE x # Resting
    BY <2>2, <2>3, <2>5, <1>8
  <2> QED BY <2>4, <2>5
<1> DEFINE u == Unlocked(r)
<1>10. image' = u
  BY <1>8 DEF To
<1> HIDE DEF r
<1>11. /\ u \in Image /\ u.db = r.db /\ u.call = r.call /\ u.firstTime = r.firstTime
       /\ u.cache = r.cache /\ u.invalid = r.invalid /\ u.alive = r.alive
       /\ u.opened = r.opened /\ u.cleanups = r.cleanups
  BY <1>9, UnlockedIs
<1> HIDE DEF u
<1>12. /\ image' \in Image
       /\ image'.db = [image.db EXCEPT ![c] = d]
       /\ image'.call = [image.call EXCEPT ![t] = x]
       /\ image'.alive = image.alive /\ image'.invalid = image.invalid
       /\ image'.cache = k /\ image'.firstTime = FALSE
       /\ image'.opened = m.opened /\ image'.cleanups = image.cleanups
  <2>1. /\ r.firstTime = m.firstTime /\ r.cache = k /\ r.invalid = image.invalid
        /\ r.alive = image.alive /\ r.opened = m.opened /\ r.cleanups = image.cleanups
    BY <1>6, <1>9 DEF Beside
  <2>2. m.firstTime = FALSE
    BY DEF Image
  <2> QED BY <1>6, <1>9, <1>10, <1>11, <2>1, <2>2, Zenon
<1>13. image'.db[c] = d
  BY <1>1, <1>2, <1>12 DEF Image
<1>14. /\ x.stage # "childAfter" /\ (x.stage \in {"run", "running"} => x.on = c)
       /\ CallFits(x, t, image'.db[x.on], image')
  <2>1. CASE x = Resting
    <3>1. x.stage = "idle" /\ x.op = "query"
      BY <2>1 DEF Resting
    <3> QED BY <3>1 DEF CallFits, Within, Opening
  <2>2. CASE x = [stage |-> s, op |-> Asked(image, t), on |-> c, opens |-> how]
    <3>1. /\ x.stage = s /\ x.op = Asked(image, t) /\ x.on = c /\ x.opens = how
      BY <2>2
    <3>2. c \notin WithAux => s = "discard" \/ how = "no"
      OBVIOUS
    <3>2a. c \notin WithAux /\ Asked(image, t) = "start" => ~d.session
      BY <1>1, <1>4 DEF CallFits, Opening
    <3>2b. d.conn # None
      BY <1>3, <1>4
    <3>2c. /\ s \in {"run", "discard"} /\ ThreadOf[c] = t
           /\ Asked(image, t) = "cleanup" => c = Default /\ image.cleanups < MaxCleanups
      BY <1>1 DEF CallFits
    <3>2d. image'.cleanups = image.cleanups
      BY <1>12
    <3> HIDE DEF s, how
    <3>3. CallFits(x, t, d, image')
      BY <3>1, <3>2, <3>2a, <3>2b, <3>2c, <3>2d DEF CallFits, Within, Opening
    <3> QED BY <1>7, <1>13, <3>1, <3>3
  <2> QED BY <1>8, <2>1, <2>2
<1>15. Steps(t, x, d)
  BY <1>1, <1>8, <1>12, <1>14 DEF Steps, To
<1>16. DatabaseFits(c, d)
  BY <1>4 DEF DatabaseFits
<1>17. CacheFits(image')
  BY <1>12, <1>3 DEF CacheFits
<1>18. Fits(t, x, d)
  BY <1>1, <1>4, <1>12, <1>13, <1>14, <1>16, <1>17 DEF Fits, Own
<1> QED BY <1>4, <1>15, <1>18, StepKeeps

LEMMA GetKeeps ==
    ASSUME IInv, NEW t \in Threads, Get(t)
    PROVE  IInv'
<1> DEFINE new == File(pid, image.opened + 1)
           m == [image EXCEPT !.cache = new, !.opened = @ + 1]
<1>1. At(t, "find")
  BY DEF Get
<1>2. /\ image \in Image /\ pid \in Processes /\ CacheFits(image) /\ ~Inherits
      /\ image.opened \in Nat /\ image.cleanups \in Nat /\ image.cleanups <= MaxCleanups
      /\ ~image.firstTime
  <2>1. image \in Image /\ pid \in Processes /\ CacheFits(image)
    BY DEF IInv, TypeOK
  <2>2. image.opened \in Nat /\ image.cleanups \in Nat /\ image.cleanups <= MaxCleanups
    BY <2>1, BoundsArePositive DEF Image
  <2>3. /\ ~Inherits /\ CallFits(image.call[t], t, Of(image, t), image)
        /\ image.call[t].stage = "find"
    BY <1>1, AtWithin
  <2> QED BY <2>1, <2>2, <2>3 DEF CallFits
<1>3. CASE image.cache # None
  <2>1. To(Unlocked(Opened(image, t, image.cache)))
    BY <1>3 DEF Get
  <2>2. image.cache \in Connections
    BY <1>2, <1>3 DEF Image
  <2>3. image.cache.of = None /\ image.opened <= image.cleanups + 1
    BY <1>2, <1>3 DEF CacheFits
  <2>4. "first opening" \notin caught => image.cache.by = pid
    BY <1>2, <1>3 DEF IInv, Owned
  <2> QED BY <1>1, <1>2, <2>1, <2>2, <2>3, <2>4, OpenedKeeps
<1>4. CASE image.cache = None
  <2>1. To(Unlocked(Opened(m, t, new)))
    BY <1>4 DEF Get
  <2>2. image.opened <= image.cleanups
    BY <1>2, <1>4 DEF CacheFits
  <2>3. image.opened + 1 \in 1..(MaxCleanups + 1)
    BY <1>2, <2>2, BoundsArePositive
  <2>4. new \in Connections /\ new.of = None /\ new.by = pid
    BY <1>2, <2>3 DEF Connections, File
  <2> HIDE DEF new
  <2>5. /\ m \in Image /\ m.db = image.db /\ m.call = image.call /\ m.alive = image.alive
        /\ m.invalid = image.invalid /\ m.cleanups = image.cleanups
        /\ m.cache = new /\ ~m.firstTime /\ m.opened = image.opened + 1
    <3>1. image.opened + 1 \in 0..(MaxCleanups + 1)
      BY <1>2, <2>3
    <3> DEFINE k == image.opened + 1
    <3>2. m = [image EXCEPT !.cache = new, !.opened = k]
      OBVIOUS
    <3> HIDE DEF k, m
    <3>3. /\ m.db = image.db /\ m.call = image.call /\ m.alive = image.alive
          /\ m.invalid = image.invalid /\ m.cleanups = image.cleanups
          /\ m.cache = new /\ m.firstTime = image.firstTime /\ m.opened = k
      BY <1>2, <3>2 DEF Image
    <3>4. m \in Image
      BY <1>2, <2>4, <3>1, <3>2 DEF Image, k
    <3> QED BY <1>2, <3>3, <3>4 DEF k
  <2> HIDE DEF m
  <2>6. m.opened <= m.cleanups + 1
    BY <1>2, <2>2, <2>5
  <2> QED BY <1>1, <2>1, <2>4, <2>5, <2>6, OpenedKeeps
<1> QED BY <1>3, <1>4

(* A call that ends and only changes, besides, what no call relies on. *)
LEMMA EndedKeeps ==
    ASSUME IInv, NEW t \in Threads, NEW m \in Image,
           t \in image.alive, image.call[t].stage # "childAfter",
           image' = m, UNCHANGED history,
           m.db = image.db, m.call = [image.call EXCEPT ![t] = Resting],
           m.alive = image.alive, m.invalid = image.invalid,
           m.firstTime = image.firstTime, m.cache \in {None, image.cache},
           m.cleanups = image.cleanups \/ image.call[t].stage = "clear",
           CacheFits(m)
    PROVE  IInv'
<1> DEFINE d == Of(image, t)
<1>1. d \in Database /\ DatabaseFits(On(image, t), d) /\ image \in Image
  BY SameDatabases DEF IInv, TypeOK
<1>2. Resting \in Call /\ Resting.stage = "idle" /\ Resting.op = "query"
  BY DefaultIsAContext DEF Resting, Call, Stages, Ops
<1>3. image'.db = [image.db EXCEPT ![On(image, t)] = d]
  BY <1>1 DEF Image, Of, On, Call
<1>4. CallFits(Resting, t, image'.db[Resting.on], image')
  BY <1>2 DEF CallFits, Within, Opening
<1>5. Steps(t, Resting, d)
  BY <1>2, <1>3 DEF Steps
<1>6. Fits(t, Resting, d)
  BY <1>1, <1>2, <1>4 DEF Fits
<1> QED BY <1>1, <1>2, <1>5, <1>6, StepKeeps

LEMMA GetFailsKeeps ==
    ASSUME IInv, NEW t \in Threads, GetFails(t)
    PROVE  IInv'
<1> DEFINE d == Of(image, t)
           n == Thrown(image, t)
           m == Unlocked(n)
           x == [stage |-> "discard", op |-> Asked(image, t), on |-> On(image, t),
                 opens |-> image.call[t].opens]
<1>1. At(t, "find") /\ image' = m /\ UNCHANGED history
  BY DEF GetFails, To
<1>2. /\ t \in image.alive /\ image.call[t].stage = "find" /\ Within(image.call[t])
      /\ image.call[t].on = On(image, t) /\ image.call[t].op = Asked(image, t)
      /\ CallFits(image.call[t], t, d, image)
      /\ On(image, t) \in Contexts /\ Asked(image, t) \in Ops
  BY <1>1, AtWithin
<1>3. d \in Database /\ DatabaseFits(On(image, t), d) /\ image \in Image /\ CacheFits(image)
  BY SameDatabases DEF IInv, TypeOK
<1>4. "discard" \in Stages
  BY DEF Stages
<1>5. x \in Call /\ x.stage = "discard" /\ x.op = Asked(image, t) /\ x.on = On(image, t)
  BY <1>2, <1>3, <1>4 DEF Call, Image
<1>6. /\ n \in Image /\ n.db = image.db /\ Beside(n, image)
      /\ \/ n.call = [image.call EXCEPT ![t] = Resting]
         \/ n.call = [image.call EXCEPT ![t] = x]
  <2>1. CASE n = Returns(image, t)
    BY <1>3, <2>1, ReturnsIs
  <2>2. CASE n = Goes(image, t, "discard")
    <3> HIDE DEF n
    <3>1. /\ Goes(image, t, "discard") \in Image /\ Goes(image, t, "discard").db = image.db
          /\ Goes(image, t, "discard").call = [image.call EXCEPT ![t] = x]
          /\ Beside(Goes(image, t, "discard"), image)
      BY <1>3, <1>4, GoesIs DEF Asked, On
    <3> HIDE DEF x
    <3> QED BY <2>2, <3>1, Zenon
  <2> QED BY <2>1, <2>2 DEF Thrown
<1> HIDE DEF n, x
<1>7. /\ m \in Image /\ m.db = n.db /\ m.call = n.call
      /\ m.firstTime = n.firstTime /\ m.cache = n.cache /\ m.invalid = n.invalid
      /\ m.alive = n.alive /\ m.opened = n.opened /\ m.cleanups = n.cleanups
  BY <1>6, UnlockedIs
<1> HIDE DEF m
<1>8. CacheFits(m)
  BY <1>3, <1>6, <1>7 DEF CacheFits, Beside
<1>9. CASE n.call = [image.call EXCEPT ![t] = Resting]
  BY <1>1, <1>2, <1>6, <1>7, <1>8, <1>9, EndedKeeps DEF Beside
<1>10. CASE n.call = [image.call EXCEPT ![t] = x]
  <2>1. image'.db = [image.db EXCEPT ![On(image, t)] = d]
    BY <1>1, <1>2, <1>3, <1>6, <1>7 DEF Image, Of
  <2>2. Steps(t, x, d)
    BY <1>1, <1>2, <1>5, <1>6, <1>7, <1>10, <2>1 DEF Steps, Beside
  <2>3. CallFits(x, t, d, image')
    <3>1. image'.cleanups = image.cleanups /\ image'.firstTime = image.firstTime
      BY <1>1, <1>6, <1>7 DEF Beside
    <3> QED BY <1>2, <1>5, <3>1 DEF CallFits, Within, Opening
  <2>4. image'.db[x.on] = d
    BY <1>1, <1>5, <1>6, <1>7 DEF Of
  <2>5. Fits(t, x, d)
    BY <1>1, <1>2, <1>3, <1>5, <1>6, <1>7, <1>8, <2>3, <2>4 DEF Fits, Beside
  <2> QED BY <1>3, <1>5, <2>2, <2>5, StepKeeps
<1> QED BY <1>6, <1>9, <1>10

LEMMA ClearKeeps ==
    ASSUME IInv, NEW t \in Threads, Clear(t)
    PROVE  IInv'
<1> DEFINE n == [image EXCEPT !.cache = None, !.cleanups = @ + 1]
           m == Returns(n, t)
<1>1. At(t, "clear") /\ image' = m /\ UNCHANGED history
  BY DEF Clear, To
<1>2. /\ image \in Image /\ CacheFits(image) /\ image.cleanups < MaxCleanups
      /\ image.cleanups \in Nat /\ image.opened \in Nat
      /\ image.call[t].stage = "clear" /\ t \in image.alive
  <2>1. image \in Image /\ CacheFits(image)
    BY DEF IInv, TypeOK
  <2>2. image.opened \in Nat /\ image.cleanups \in Nat
    BY <2>1, BoundsArePositive DEF Image
  <2>3. /\ CallFits(image.call[t], t, Of(image, t), image) /\ t \in image.alive
        /\ image.call[t].stage = "clear"
    BY <1>1, AtWithin
  <2> QED BY <2>1, <2>2, <2>3 DEF CallFits
<1>3. image.cleanups + 1 \in 0..MaxCleanups
  BY <1>2, BoundsArePositive
<1>4. /\ n \in Image /\ n.db = image.db /\ n.call = image.call /\ n.alive = image.alive
      /\ n.invalid = image.invalid /\ n.firstTime = image.firstTime /\ n.cache = None
      /\ n.opened = image.opened /\ n.cleanups = image.cleanups + 1
  BY <1>2, <1>3 DEF Image
<1> HIDE DEF n
<1>5. /\ m \in Image /\ m.db = n.db /\ m.call = [n.call EXCEPT ![t] = Resting]
      /\ Beside(m, n)
  BY <1>4, ReturnsIs
<1> HIDE DEF m
<1>6. CacheFits(m)
  BY <1>2, <1>4, <1>5 DEF CacheFits, Beside
<1> QED BY <1>1, <1>2, <1>4, <1>5, <1>6, EndedKeeps DEF Beside

-----------------------------------------------------------------------------
(* fork(). *)

(* Its steps in the parent, and before it in either. *)
LEMMA OutsideKeeps ==
    ASSUME IInv, NEW t \in Threads, NEW m \in Image, NEW s \in {"prepare", "fork", "forkHeld", "parentAfter"},
           t \in image.alive, ~Within(image.call[t]), image.call[t].stage # "childAfter",
           m.db = image.db, m.call = image.call, m.alive = image.alive, m.invalid = image.invalid,
           m.firstTime = image.firstTime, m.cache = image.cache,
           m.opened = image.opened, m.cleanups = image.cleanups,
           To(Goes(m, t, s))
    PROVE  IInv'
<1> DEFINE d == Of(image, t)
           g == Goes(m, t, s)
           x == [stage |-> s, op |-> Asked(image, t), on |-> On(image, t),
                opens |-> image.call[t].opens]
<1>1. d \in Database /\ DatabaseFits(On(image, t), d) /\ image \in Image /\ CacheFits(image)
  BY SameDatabases DEF IInv, TypeOK
<1>2. s \in Stages
  BY DEF Stages
<1>3. Asked(image, t) = "query" /\ On(image, t) \in Contexts /\ Asked(image, t) \in Ops
  BY <1>1 DEF IInv, Calls, CallFits, Asked, On, Image, Call
<1>4. x \in Call /\ x.stage = s /\ x.op = "query"
  BY <1>1, <1>2, <1>3 DEF Call, Image
<1>5. g \in Image /\ g.db = m.db /\ g.call = [m.call EXCEPT ![t] = x] /\ Beside(g, m)
  BY <1>2, GoesIs DEF Asked, On
<1> HIDE DEF g, x
<1>6. image' = g /\ UNCHANGED history
  BY DEF To, g
<1>7. /\ image' \in Image /\ image'.db = image.db /\ image'.call = [image.call EXCEPT ![t] = x]
      /\ image'.alive = image.alive /\ image'.invalid = image.invalid
      /\ image'.firstTime = image.firstTime /\ image'.cache = image.cache
      /\ image'.opened = image.opened /\ image'.cleanups = image.cleanups
  <2>1. /\ image' \in Image /\ image'.db = m.db /\ image'.call = [m.call EXCEPT ![t] = x]
        /\ Beside(image', m)
    BY <1>5, <1>6, Zenon
  <2> QED BY <2>1 DEF Beside
<1>8. image'.db = [image.db EXCEPT ![On(image, t)] = d]
  BY <1>1, <1>3, <1>7 DEF Image, Of
<1>9. CallFits(x, t, image'.db[x.on], image')
  BY <1>4 DEF CallFits, Within, Opening
<1>10. Steps(t, x, d)
  BY <1>4, <1>6, <1>7, <1>8 DEF Steps
<1>11. Fits(t, x, d)
  BY <1>1, <1>4, <1>7, <1>9 DEF Fits, CacheFits
<1> QED BY <1>1, <1>4, <1>10, <1>11, StepKeeps

LEMMA StartForkKeeps ==
    ASSUME IInv, NEW t \in Threads, StartFork(t)
    PROVE  IInv'
<1>1. image \in Image
  BY DEF IInv, TypeOK
<1> QED BY <1>1, OutsideKeeps DEF StartFork, At, Within

LEMMA PrepareKeeps ==
    ASSUME IInv, NEW t \in Threads, Prepare(t)
    PROVE  IInv'
<1> DEFINE m == [image EXCEPT !.holder = t]
<1>1. image \in Image
  BY DEF IInv, TypeOK
<1>2. /\ m \in Image /\ m.db = image.db /\ m.call = image.call /\ m.alive = image.alive
      /\ m.invalid = image.invalid /\ m.firstTime = image.firstTime /\ m.cache = image.cache
      /\ m.opened = image.opened /\ m.cleanups = image.cleanups
  BY <1>1 DEF Image
<1>3. At(t, "prepare") /\ To(Goes(m, t, "forkHeld"))
  BY DEF Prepare
<1> HIDE DEF m
<1> QED BY <1>2, <1>3, OutsideKeeps DEF At, Within

LEMMA ForkInParentKeeps ==
    ASSUME IInv, NEW t \in Threads, ForkInParent(t)
    PROVE  IInv'
<1>1. image \in Image /\ CacheFits(image)
  BY DEF IInv, TypeOK
<1>2. CASE At(t, "forkHeld")
  BY <1>1, <1>2, OutsideKeeps DEF ForkInParent, After, At, Within
<1>3. CASE At(t, "fork") /\ ~At(t, "forkHeld")
  <2> DEFINE m == Returns(image, t)
  <2>1. To(m)
    BY <1>3 DEF ForkInParent, After
  <2>2. /\ m \in Image /\ m.db = image.db /\ m.call = [image.call EXCEPT ![t] = Resting]
        /\ Beside(m, image)
    BY <1>1, ReturnsIs
  <2> HIDE DEF m
  <2>3. CacheFits(m)
    BY <1>1, <2>2 DEF CacheFits, Beside
  <2> QED BY <1>3, <2>1, <2>2, <2>3, EndedKeeps DEF To, Beside, At
<1> QED BY <1>2, <1>3 DEF ForkInParent, Forking

LEMMA ParentAfterKeeps ==
    ASSUME IInv, NEW t \in Threads, ParentAfter(t)
    PROVE  IInv'
<1> DEFINE n == Returns(image, t)
           m == Unlocked(n)
<1>1. At(t, "parentAfter") /\ image' = m /\ UNCHANGED history
  BY DEF ParentAfter, To
<1>2. image \in Image /\ CacheFits(image)
  BY DEF IInv, TypeOK
<1>3. /\ n \in Image /\ n.db = image.db /\ n.call = [image.call EXCEPT ![t] = Resting]
      /\ Beside(n, image)
  BY <1>2, ReturnsIs
<1> HIDE DEF n
<1>4. /\ m \in Image /\ m.db = n.db /\ m.call = n.call
      /\ m.firstTime = n.firstTime /\ m.cache = n.cache /\ m.invalid = n.invalid
      /\ m.alive = n.alive /\ m.opened = n.opened /\ m.cleanups = n.cleanups
  BY <1>3, UnlockedIs
<1> HIDE DEF m
<1>5. CacheFits(m)
  BY <1>2, <1>3, <1>4 DEF CacheFits, Beside
<1> QED BY <1>1, <1>3, <1>4, <1>5, EndedKeeps DEF Beside, At

(* The child: one thread, no opening of its own, and as strays whatever    *)
(* its contexts have that the cache has not.                               *)
LEMMA ForkInChildKeeps ==
    ASSUME IInv, NEW t \in Threads, ForkInChild(t)
    PROVE  IInv'
<1> DEFINE m == After(t, "childAfter")
           holds(u) == u = t \/ m.call[u].stage = "running"
           s == IF At(t, "forkHeld") THEN "childAfter" ELSE "idle"
<1>1. /\ At(t, "fork") \/ At(t, "forkHeld")
      /\ pid < MaxProcesses /\ pid' = pid + 1
      /\ image' = Left(m, t)
      /\ strays' = {image.db[c].conn : c \in Contexts} \ {None, image.cache}
      /\ caught' \in SUBSET {"first opening", "query"}
      /\ At(t, "fork") /\ ~image.firstTime => "first opening" \in caught'
  BY DEF ForkInChild, Forking
<1>2. /\ image \in Image /\ CacheFits(image) /\ pid \in Processes
      /\ t \in image.alive /\ image.call[t].stage \in {"fork", "forkHeld"}
  BY <1>1 DEF IInv, TypeOK, At
<1>3. "childAfter" \in Stages /\ Resting.stage = "idle" /\ Resting.op = "query"
  BY DEF Stages, Resting
<1>4. /\ m \in Image /\ m.db = image.db /\ Beside(m, image)
      /\ m.call[t].stage = s /\ m.call[t].op = "query"
      /\ \A u \in Threads \ {t} : m.call[u] = image.call[u]
  <2>1. CASE At(t, "forkHeld")
    <3>1. m = Goes(image, t, "childAfter")
      BY <2>1 DEF After
    <3>2. /\ m \in Image /\ m.db = image.db /\ Beside(m, image)
          /\ m.call = [image.call EXCEPT ![t] = [stage |-> "childAfter", op |-> image.call[t].op,
                                               on |-> image.call[t].on,
                                               opens |-> image.call[t].opens]]
      BY <1>2, <1>3, <3>1, GoesIs
    <3>3. image.call[t].op = "query"
      BY <1>2 DEF IInv, Calls, CallFits, Within
    <3> QED BY <1>2, <2>1, <3>2, <3>3 DEF Image
  <2>2. CASE ~At(t, "forkHeld")
    <3>1. m = Returns(image, t)
      BY <2>2 DEF After
    <3>2. /\ m \in Image /\ m.db = image.db /\ Beside(m, image)
          /\ m.call = [image.call EXCEPT ![t] = Resting]
      BY <1>2, <3>1, ReturnsIs
    <3> QED BY <1>2, <1>3, <2>2, <3>2 DEF Image
  <2> QED BY <2>1, <2>2
<1> HIDE DEF m
<1>5. /\ Closed \in Database /\ Resting \in Call
      /\ m.call \in [Threads -> Call] /\ m.db \in [Contexts -> Database]
  BY <1>4, DefaultIsAContext DEF Closed, Database, Resting, Call, Stages, Ops, Image
<1> DEFINE calls == [u \in Threads |-> IF holds(u) THEN m.call[u] ELSE Resting]
           dbs == [c \in Contexts |-> IF holds(ThreadOf[c]) THEN m.db[c] ELSE Closed]
<1>6. calls \in [Threads -> Call] /\ dbs \in [Contexts -> Database]
  BY <1>5
<1>7. image' = [m EXCEPT !.alive = {t}, !.opened = 0, !.call = calls, !.db = dbs]
  BY <1>1 DEF Left
<1> HIDE DEF calls, dbs
<1>8. /\ image'.alive = {t} /\ image'.opened = 0 /\ image'.call = calls /\ image'.db = dbs
      /\ image'.cache = image.cache /\ image'.firstTime = image.firstTime
      /\ image'.cleanups = image.cleanups
  BY <1>4, <1>7 DEF Image, Beside
<1>9. image' \in Image
  <2>1. 0 \in 0..(MaxCleanups + 1)
    BY BoundsArePositive
  <2> QED BY <1>4, <1>6, <1>7, <2>1 DEF Image
<1>10. TypeOK'
  <2>1. pid + 1 \in Processes
    <3>1. pid \in Nat /\ MaxProcesses \in Nat
      BY <1>2, BoundsArePositive DEF Processes
    <3>2. pid \in 1..MaxProcesses /\ pid < MaxProcesses
      BY <1>1, <1>2 DEF Processes
    <3>3. pid + 1 \in 1..MaxProcesses
      BY <3>1, <3>2
    <3> QED BY <3>3 DEF Processes
  <2>2. strays' \in SUBSET Connections
    <3>1. \A c \in Contexts : image.db[c].conn \in Connections \cup {None}
      BY <1>2 DEF Image, Database
    <3> QED BY <1>1, <3>1
  <2> QED BY <1>1, <1>9, <2>1, <2>2 DEF TypeOK
<1>11. /\ \A u \in Threads : image'.call[u] = IF holds(u) THEN m.call[u] ELSE Resting
       /\ \A c \in Contexts : image'.db[c] = IF holds(ThreadOf[c]) THEN image.db[c] ELSE Closed
  BY <1>4, <1>8 DEF calls, dbs
<1>12. Calls'
  <2> SUFFICES ASSUME NEW u \in Threads
               PROVE  CallFits(image'.call[u], u, image'.db[image'.call[u].on], image')
    BY DEF Calls, Of, On
  <2>1. CASE u = t
    BY <1>3, <1>4, <1>11, <2>1 DEF CallFits, Within, Opening
  <2>2. CASE u # t /\ m.call[u].stage = "running"
    <3>1. CallFits(image.call[u], u, Of(image, u), image) /\ image'.call[u] = image.call[u]
      BY <1>4, <1>11, <2>2 DEF IInv, Calls
    <3>2. ThreadOf[image.call[u].on] = u /\ image.call[u].on \in Contexts
      BY <1>2, <1>4, <2>2, <3>1 DEF CallFits, Within, Image, Call
    <3>3. image'.db[image.call[u].on] = Of(image, u)
      BY <1>11, <2>2, <3>2 DEF Of, On
    <3> QED BY <1>8, <3>1, <3>3 DEF CallFits
  <2>3. CASE u # t /\ m.call[u].stage # "running"
    <3>1. image'.call[u] = Resting
      BY <1>11, <2>3
    <3> QED BY <1>3, <3>1 DEF CallFits, Within, Opening
  <2> QED BY <2>1, <2>2, <2>3
<1>13. Databases'
  <2> SUFFICES ASSUME NEW c \in Contexts
               PROVE  DatabaseFits(c, image'.db[c])
    BY DEF Databases
  <2>1. DatabaseFits(c, image.db[c])
    BY DEF IInv, Databases
  <2>2. DatabaseFits(c, Closed)
    BY DEF DatabaseFits, Closed
  <2> QED BY <1>11, <2>1, <2>2
<1>14. CacheFits(image')
  <2>1. image.cleanups \in Nat
    BY <1>2, BoundsArePositive DEF Image
  <2> QED BY <1>2, <1>8, <2>1 DEF CacheFits
<1>15. InChild'
  <2> SUFFICES ASSUME NEW u \in Threads, image'.call[u].stage = "childAfter"
               PROVE  u = t
    BY <1>8 DEF InChild
  <2> QED BY <1>3, <1>11
<1>16. Owned'
  <2> SUFFICES ASSUME "first opening" \notin caught'
               PROVE  /\ image'.cache # None => Inherits'
                      /\ \A c \in Contexts :
                            LET k == image'.db[c].conn
                            IN  k = None \/ k \in strays' \/ (Inherits' /\ k = image'.cache)
                      /\ \A u \in Threads : ~(At(u, "run") \/ At(u, "running"))'
    BY DEF Owned, Own
  <2>1. \A u \in Threads : ~(At(u, "run") \/ At(u, "running"))'
    BY <1>4, <1>8, <1>11 DEF At
  <2>2. image.cache # None => Inherits'
    <3> SUFFICES ASSUME image.cache # None PROVE image'.call[t].stage = "childAfter"
      BY DEF Inherits
    <3>1. At(t, "forkHeld")
      BY <1>1, <1>2 DEF CacheFits
    <3> QED BY <1>4, <1>11, <3>1
  <2>3. ASSUME NEW c \in Contexts
        PROVE  LET k == image'.db[c].conn
               IN  k = None \/ k \in strays' \/ (Inherits' /\ k = image'.cache)
    <3>1. Closed.conn = None
      BY DEF Closed
    <3>2. image.db[c].conn = None \/ image.db[c].conn \in strays' \/ image.db[c].conn = image.cache
      BY <1>1
    <3> QED BY <1>8, <1>11, <2>2, <3>1, <3>2
  <2> QED BY <1>8, <2>1, <2>2, <2>3
<1> QED BY <1>10, <1>12, <1>13, <1>14, <1>15, <1>16 DEF IInv

(* The handler of the child: what the cache had is marked, and with it     *)
(* whatever its contexts have of it.                                       *)
LEMMA ChildAfterKeeps ==
    ASSUME IInv, NEW t \in Threads, ChildAfter(t)
    PROVE  IInv'
<1> DEFINE n == Returns(image, t)
           m == Unlocked(n)
<1>1. At(t, "childAfter") /\ image' = WithHandlesInvalidated(m) /\ UNCHANGED history
  BY DEF ChildAfter, To
<1>2. image \in Image /\ CacheFits(image)
  BY DEF IInv, TypeOK
<1>3. /\ n \in Image /\ n.db = image.db /\ n.call = [image.call EXCEPT ![t] = Resting]
      /\ Beside(n, image)
  BY <1>2, ReturnsIs
<1> HIDE DEF n
<1>4. /\ m \in Image /\ m.db = n.db /\ m.call = n.call
      /\ m.firstTime = n.firstTime /\ m.cache = n.cache /\ m.invalid = n.invalid
      /\ m.alive = n.alive /\ m.opened = n.opened /\ m.cleanups = n.cleanups
  BY <1>3, UnlockedIs
<1> HIDE DEF m
<1>5. /\ image' \in Image /\ image'.db = image.db
      /\ image'.call = [image.call EXCEPT ![t] = Resting]
      /\ image'.firstTime = image.firstTime /\ image'.alive = image.alive
      /\ image'.opened = image.opened /\ image'.cleanups = image.cleanups
      /\ image'.cache = None /\ image'.invalid = image.invalid \cup ({image.cache} \ {None})
  <2>1. /\ m.firstTime = image.firstTime /\ m.cache = image.cache /\ m.invalid = image.invalid
        /\ m.alive = image.alive /\ m.opened = image.opened /\ m.cleanups = image.cleanups
    BY <1>3, <1>4 DEF Beside
  <2> DEFINE i == m.invalid \cup ({m.cache} \ {None})
  <2>2. i \in SUBSET Connections
    BY <1>4 DEF Image
  <2>3. image' = [m EXCEPT !.invalid = i, !.cache = None]
    BY <1>1 DEF WithHandlesInvalidated
  <2>4. i = image.invalid \cup ({image.cache} \ {None})
    BY <2>1
  <2> HIDE DEF i
  <2>5. image' \in Image
    BY <1>4, <2>2, <2>3 DEF Image
  <2>6. /\ image'.db = m.db /\ image'.call = m.call /\ image'.firstTime = m.firstTime
        /\ image'.alive = m.alive /\ image'.opened = m.opened /\ image'.cleanups = m.cleanups
        /\ image'.cache = None /\ image'.invalid = i
    BY <1>4, <2>3 DEF Image
  <2> QED BY <1>3, <1>4, <2>1, <2>4, <2>5, <2>6, Zenon
<1>6. /\ image.alive = {t} /\ image.opened = 0
      /\ \A u \in Threads \ {t} : image'.call[u] = image.call[u] /\ image.call[u].stage # "childAfter"
      /\ image'.call[t] = Resting /\ Resting.stage = "idle" /\ Resting.op = "query"
  <2>1. \A u \in Threads : image.call[u].stage = "childAfter" => image.alive = {u} /\ image.opened = 0
    BY DEF IInv, InChild
  <2>2. image.call \in [Threads -> Call]
    BY <1>2 DEF Image
  <2>3. image.alive = {t} /\ image.opened = 0
    BY <1>1, <2>1 DEF At
  <2>4. \A u \in Threads \ {t} : image.call[u].stage # "childAfter"
    BY <2>1, <2>3
  <2> QED BY <1>5, <2>2, <2>3, <2>4 DEF Resting
<1>7. TypeOK'
  BY <1>1, <1>5 DEF IInv, TypeOK, history
<1>8. Calls'
  <2> SUFFICES ASSUME NEW u \in Threads
               PROVE  CallFits(image'.call[u], u, image'.db[image'.call[u].on], image')
    BY DEF Calls, Of, On
  <2>1. CASE u = t
    BY <1>6, <2>1 DEF CallFits, Within, Opening
  <2>2. CASE u # t
    BY <1>5, <1>6, <2>2 DEF IInv, Calls, CallFits, Of, On
  <2> QED BY <2>1, <2>2
<1>9. Databases'
  BY <1>5 DEF IInv, Databases
<1>10. CacheFits(image')
  <2>1. image.cleanups \in Nat
    BY <1>2, BoundsArePositive DEF Image
  <2> QED BY <1>5, <1>6, <2>1 DEF CacheFits
<1>11. InChild'
  BY <1>6 DEF InChild
<1>12. Owned'
  <2>1. \A u \in Threads : ~(At(u, "run") \/ At(u, "running"))'
    BY <1>5, <1>6 DEF At
  <2>2. pid' = pid /\ strays' = strays /\ caught' = caught
    BY <1>1 DEF history
  <2>3. ASSUME "first opening" \notin caught, NEW c \in Contexts
        PROVE  LET k == image'.db[c].conn IN k = None \/ Own(k) \/ k \in image'.invalid
    BY <1>5, <2>3 DEF IInv, Owned
  <2> QED BY <1>5, <2>1, <2>2, <2>3 DEF Owned, Own
<1> QED BY <1>7, <1>8, <1>9, <1>10, <1>11, <1>12 DEF IInv

-----------------------------------------------------------------------------
LEMMA NextIInv == IInv /\ [Next]_vars => IInv'
<1> SUFFICES ASSUME IInv, [Next]_vars PROVE IInv'
  OBVIOUS
<1>1. CASE UNCHANGED vars
  BY <1>1 DEF vars, history, IInv, TypeOK, Calls, Databases, InChild, Owned, Inherits, Own, At, Of, On
<1>2. ASSUME NEW t \in Threads, NEW c \in Contexts, NEW op \in Ops, Begin(t, c, op)
      PROVE  IInv'
  BY <1>2, BeginKeeps
<1>3. ASSUME NEW t \in Threads, LocksCache(t) PROVE IInv'
  BY <1>3, LockKeeps, ClearKeeps, PrepareKeeps DEF LocksCache
<1>4. ASSUME NEW t \in Threads, LocksConnection(t) PROVE IInv'
  BY <1>4, FinalizeKeeps, DiscardKeeps, RunKeeps, AttachKeeps DEF LocksConnection
<1>5. ASSUME NEW t \in Threads, Proceeds(t) PROVE IInv'
  BY <1>5, HandleKeeps, RegisterKeeps, GetKeeps, RanKeeps, ForkInParentKeeps,
     ForkInChildKeeps, ParentAfterKeeps, ChildAfterKeeps DEF Proceeds
<1>6. ASSUME NEW t \in Threads, Throws(t) \/ StartFork(t) PROVE IInv'
  BY <1>6, GetFailsKeeps, RunFailsKeeps, AttachFailsKeeps, StartForkKeeps DEF Throws
<1> QED BY <1>1, <1>2, <1>3, <1>4, <1>5, <1>6 DEF Next

LEMMA Inductive == Spec => []IInv
  BY InitIInv, NextIInv, PTL DEF Spec

(* The state variables keep their types.  In particular a process opens    *)
(* the file at most once for each proj_cleanup, and once more.             *)
THEOREM TypeCorrect == Spec => []TypeOK
<1>1. IInv => TypeOK
  BY DEF IInv
<1> QED BY Inductive, <1>1, PTL

(* After any number of forks, whichever thread forks and whatever its      *)
(* contexts and the cache hold, a query runs on a connection the process   *)
(* opened itself (DatabaseContext::Private::handle and                     *)
(* SQLiteHandleCache::invalidateHandles).                                  *)
THEOREM QueriesAreOnOwnConnections == Spec => []OwnConnection
  BY Inductive, IInvImplies, PTL

(* Through reopenings, sessions, cleanups and forks, and whatever throws   *)
(* meanwhile, a context's statements are of its connection, and one        *)
(* without auxiliary databases sees the tables, but for a session that it  *)
(* still has and whose attachment threw (DatabaseContext::Private::closeDB, *)
(* attachExtraDatabases, startInsertStatementsSession).                    *)
THEOREM ContextsStayWhole == Spec => []ContextsAreWhole
  BY Inductive, IInvImplies, PTL
=============================================================================
