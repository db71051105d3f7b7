--------------------------- MODULE LiveLoop_proofs ---------------------------
(***************************************************************************)
(* The live loop is a feed that skips nothing and delivers nothing twice,  *)
(* for pools, windows, forks, rings and numbers of faults of any size.     *)
(***************************************************************************)
EXTENDS LiveLoop, WellFoundedInduction, TLAPS

\* What the loop does while it holds a position.
Under == {"fetch", "probe", "tip", "commit"}

\* The position is the ledger after the cursor, or the cursor's own, tried again
\* after an acknowledgement was lost.
Position ==
    loop.pc \in Under =>
       /\ loop.next >= 1
       /\ cursor # <<>> => loop.next \in {cursor[1].seq, cursor[1].seq + 1}

\* Only a ledger some endpoint serves is committed.
Committing == loop.pc = "commit" => loop.next <= MaxTip

\* What the cursor says of the rows and of the ring.
CursorAgrees ==
    /\ cursor = <<>> => ingested = {} /\ DOMAIN ring = {}
    /\ cursor # <<>> => /\ cursor[1].seq \in ingested
                        /\ cursor[1].seq \in DOMAIN ring
                        /\ \A s \in DOMAIN ring : s <= cursor[1].seq
                        /\ cursor[1].hash = ring[cursor[1].seq].hash

IInv == TypeOK /\ Position /\ Committing /\ CursorAgrees

-----------------------------------------------------------------------------
(* The pool.                                                               *)

\* A non-empty set of naturals has a least element.
LEMMA LeastTurn ==
    ASSUME NEW T \in SUBSET Nat, T # {}
    PROVE  \E x \in T : \A y \in T : x <= y
<1> DEFINE R == OpToRel(<, Nat)
<1>1. PICK x \in T : \A y \in T : ~ (<<y, x>> \in R)
  <2>1. IsWellFoundedOn(R, Nat)
    BY NatLessThanWellFounded
  <2> HIDE DEF R
  <2> QED BY <2>1, WFMin, Zenon
<1>2. \A y \in T : y < x => <<y, x>> \in R
  BY DEF OpToRel
<1>3. \A y \in T : ~ (y < x)
  <2> HIDE DEF R
  <2> QED BY <1>1, <1>2, Zenon
<1>4. \A y \in T : x <= y
  BY <1>3
<1> QED BY <1>4

LEMMA MaxOfOneAnd ==
    ASSUME NEW a \in Int
    PROVE  Max({1, a}) = IF a >= 1 THEN a ELSE 1
<1> DEFINE m == IF a >= 1 THEN a ELSE 1
<1>1. m \in {1, a} /\ \A y \in {1, a} : m >= y
  OBVIOUS
<1>2. \A x \in {1, a} : (\A y \in {1, a} : x >= y) => x = m
  OBVIOUS
<1> HIDE DEF m
<1>3. Max({1, a}) = m
  BY <1>1, <1>2 DEF Max
<1> QED BY <1>3 DEF m

\* A call that reaches an endpoint is answered by one that is up.
LEMMA AnsweringIsUp ==
    ASSUME PoolTypeOK, Reached
    PROVE  Answering \in Endpoints /\ tip[Answering] \in 1..MaxTip
<1> DEFINE T == {Turn(e) : e \in up}
<1>1. \A e \in up : Turn(e) \in Nat
  BY PoolAssumption DEF PoolTypeOK, Turn, Endpoints
<1>2. T \in SUBSET Nat /\ T # {}
  BY <1>1 DEF Reached
<1>3. PICK t \in T : \A u \in T : t <= u
  <2> HIDE DEF T
  <2> QED BY <1>2, LeastTurn
<1>4. PICK e \in up : Turn(e) = t
  BY <1>3
<1>5. \A f \in up : Turn(e) <= Turn(f)
  BY <1>3, <1>4
<1>6. Answering \in up
  BY <1>5 DEF Answering
<1> QED BY <1>6 DEF PoolTypeOK

\* Moving the preference keeps the pool's types.
LEMMA PreferTyped == PoolTypeOK /\ Reached /\ Prefer => PoolTypeOK'
BY AnsweringIsUp DEF Prefer, PoolTypeOK

LEMMA HashTyped ==
    ASSUME PoolTypeOK, NEW e \in Endpoints, NEW seq \in 0..MaxTip
    PROVE  Hash(e, seq) \in Hashes
BY PoolAssumption DEF PoolTypeOK, Hash, Hashes, Endpoints

\* The locals a process starts with, and the placeholder for no ledger.
LEMMA ConstantsTyped == NoLedger \in Fetched /\ Booting \in Loop
<1>1. <<0, 0, 0>> \in Hashes
  BY PoolAssumption DEF Hashes
<1>2. NoLedger \in Fetched
  BY <1>1, PoolAssumption DEF NoLedger, Fetched
<1> QED BY <1>2, PoolAssumption DEF Booting, Loop

\* The two shapes of the cursor row.
LEMMA CursorShape ==
    ASSUME TypeOK, cursor # <<>>
    PROVE  /\ cursor[1].seq \in 1..MaxTip /\ cursor[1].hash \in Hashes
           /\ cursor = <<[seq |-> cursor[1].seq, hash |-> cursor[1].hash]>>
<1>1. PICK s \in 1..MaxTip, h \in Hashes : cursor = <<[seq |-> s, hash |-> h]>>
  BY DEF TypeOK
<1> QED BY <1>1

-----------------------------------------------------------------------------
(* The steps, by what they leave alone.                                    *)

LEMMA InitIInv == Init => IInv
<1> SUFFICES ASSUME Init PROVE IInv
  OBVIOUS
<1>1. loop = Booting /\ loop.pc = "boot" /\ cursor = <<>> /\ ring = <<>> /\ ingested = {}
  BY DEF Init, Booting
<1>2. PoolTypeOK
  BY PoolAssumption DEF Init, PoolInit, PoolTypeOK, Endpoints
<1>3. budget \in [crash: 0..MaxCrashes, outage: 0..MaxOutages, ack: 0..MaxLostAcks]
  BY LoopAssumption DEF Init
<1>4. DOMAIN ring = {}
  BY <1>1
<1>5. TypeOK
  BY <1>1, <1>2, <1>3, <1>4, ConstantsTyped DEF TypeOK, Init
<1> QED BY <1>1, <1>4, <1>5 DEF IInv, Position, Committing, CursorAgrees, Under

\* A step that writes nothing to the database.
LEMMA DatabaseStays ==
    ASSUME IInv, UNCHANGED dbVars, PoolTypeOK', loop' \in Loop, ready' \in BOOLEAN,
           budget' \in [crash: 0..MaxCrashes, outage: 0..MaxOutages, ack: 0..MaxLostAcks],
           Position', Committing'
    PROVE  IInv'
<1>1. cursor' = cursor /\ ring' = ring /\ ingested' = ingested
  BY DEF dbVars
<1>2. CursorAgrees'
  BY <1>1 DEF IInv, CursorAgrees
<1>3. TypeOK'
  BY <1>1 DEF IInv, TypeOK
<1> QED BY <1>2, <1>3 DEF IInv

\* A step of the endpoints or of a fault: the loop does not move either.
LEMMA LoopStays ==
    ASSUME IInv, UNCHANGED <<dbVars, loop, ready>>, PoolTypeOK',
           budget' \in [crash: 0..MaxCrashes, outage: 0..MaxOutages, ack: 0..MaxLostAcks]
    PROVE  IInv'
<1>1. Position' /\ Committing'
  BY DEF IInv, Position, Committing, dbVars
<1>2. loop' \in Loop /\ ready' \in BOOLEAN
  BY DEF IInv, TypeOK
<1> QED BY <1>1, <1>2, DatabaseStays

\* A step to a state of the loop that holds no position.
LEMMA LetsGo ==
    ASSUME IInv, UNCHANGED dbVars, PoolTypeOK', loop' \in Loop, loop'.pc \notin Under,
           ready' \in BOOLEAN,
           budget' \in [crash: 0..MaxCrashes, outage: 0..MaxOutages, ack: 0..MaxLostAcks]
    PROVE  IInv'
<1>1. Position' /\ Committing'
  BY DEF Position, Committing, Under
<1> QED BY <1>1, DatabaseStays

\* Goto and Stop keep the position and the locals' types.
LEMMA GotoTyped ==
    ASSUME IInv, NEW pc \in {"resume", "fetch", "tip"}, Goto(pc)
    PROVE  loop' \in Loop /\ loop'.pc = pc /\ loop'.next = loop.next
<1>1. 0 \in 0..MaxTip /\ NoLedger \in Fetched /\ loop \in Loop
  BY ConstantsTyped, PoolAssumption DEF IInv, TypeOK
<1>2. loop' = [loop EXCEPT !.pc = pc, !.got = NoLedger, !.asked = 0]
  BY DEF Goto
<1> QED BY <1>1, <1>2 DEF Loop

LEMMA StopTyped ==
    ASSUME IInv, NEW why \in {"unreachable", "database", "reset", "retention", "divergence"},
           Stop(why)
    PROVE  loop' \in Loop /\ loop'.pc = "stopped"
BY ConstantsTyped DEF IInv, TypeOK, Loop, Stop

\* A step that keeps the position and commits nothing.
LEMMA KeepsPosition ==
    ASSUME IInv, UNCHANGED dbVars, PoolTypeOK', loop' \in Loop, loop.pc \in Under,
           loop'.pc \in Under \ {"commit"}, loop'.next = loop.next, ready' \in BOOLEAN,
           budget' \in [crash: 0..MaxCrashes, outage: 0..MaxOutages, ack: 0..MaxLostAcks]
    PROVE  IInv'
<1>1. Position' /\ Committing'
  BY DEF IInv, Position, Committing, Under, dbVars
<1> QED BY <1>1, DatabaseStays

-----------------------------------------------------------------------------
(* The actions that write nothing.                                         *)

Types == /\ PoolTypeOK /\ loop \in Loop /\ ready \in BOOLEAN
         /\ budget \in [crash: 0..MaxCrashes, outage: 0..MaxOutages, ack: 0..MaxLostAcks]

LEMMA IInvTypes == IInv => Types
BY DEF IInv, TypeOK, Types

LEMMA BootKeepsIInv ==
    ASSUME IInv, VerifyNetwork \/ VerifyNetworkFails \/ LoadCursorFails
    PROVE  IInv'
<1>1. CASE VerifyNetwork
  <2>1. loop' \in Loop /\ loop'.pc = "resume"
    BY <1>1, GotoTyped DEF VerifyNetwork
  <2>2. PoolTypeOK'
    BY <1>1, IInvTypes, PreferTyped DEF VerifyNetwork, Types
  <2> QED BY <1>1, <2>1, <2>2, IInvTypes, LetsGo DEF VerifyNetwork, Under, Types
<1>2. CASE VerifyNetworkFails
  <2>1. loop' \in Loop /\ loop'.pc = "stopped"
    BY <1>2, StopTyped DEF VerifyNetworkFails
  <2>2. PoolTypeOK'
    BY <1>2, IInvTypes DEF VerifyNetworkFails, Types, poolVars, PoolTypeOK
  <2> QED BY <1>2, <2>1, <2>2, IInvTypes, LetsGo DEF VerifyNetworkFails, Under, Types
<1>3. CASE LoadCursorFails
  <2>1. loop' \in Loop /\ loop'.pc = "stopped"
    BY <1>3, StopTyped DEF LoadCursorFails
  <2>2. PoolTypeOK'
    BY <1>3, IInvTypes DEF LoadCursorFails, Types, poolVars, PoolTypeOK
  <2> QED BY <1>3, <2>1, <2>2, IInvTypes, LetsGo DEF LoadCursorFails, Under, Types
<1> QED BY <1>1, <1>2, <1>3

\* A pool step of a call: the preference moves, or nothing does.
LEMMA CallTyped ==
    ASSUME IInv, (Reached /\ Prefer) \/ UNCHANGED poolVars
    PROVE  PoolTypeOK'
BY IInvTypes, PreferTyped DEF Types, poolVars, PoolTypeOK

LEMMA FreshKeepsIInv == IInv /\ resumeFresh => IInv'
<1> SUFFICES ASSUME IInv, resumeFresh PROVE IInv'
  OBVIOUS
<1>1. UNCHANGED <<dbVars, ready, budget>> /\ cursor = <<>> /\ PoolTypeOK'
  BY CallTyped DEF resumeFresh
<1>2. CASE ~Reached
  <2>1. loop' \in Loop /\ loop'.pc = "stopped"
    BY <1>2, StopTyped DEF resumeFresh
  <2> QED BY <1>1, <2>1, IInvTypes, LetsGo DEF Under, Types
<1>3. CASE Reached
  <2> DEFINE n == IF StartLedger = 0 THEN tip[Answering] ELSE StartLedger
  <2>1. n \in 1..MaxTip
    BY <1>3, AnsweringIsUp, IInvTypes, LoopAssumption, PoolAssumption DEF Types
  <2>2. loop' = [loop EXCEPT !.pc = "fetch", !.next = n]
    BY <1>3 DEF resumeFresh
  <2> HIDE DEF n
  <2>3. loop' \in Loop /\ loop'.pc = "fetch" /\ loop'.next = n
    <3>1. n \in 0..(MaxTip + 1)
      BY <2>1, PoolAssumption
    <3> QED BY <3>1, <2>2, IInvTypes DEF Types, Loop
  <2>4. Position' /\ Committing'
    BY <1>1, <2>1, <2>3 DEF Position, Committing, Under, dbVars
  <2> QED BY <1>1, <2>3, <2>4, IInvTypes, DatabaseStays DEF Types
<1> QED BY <1>2, <1>3

LEMMA CursorKeepsIInv == IInv /\ resumeCursor => IInv'
<1> SUFFICES ASSUME IInv, resumeCursor PROVE IInv'
  OBVIOUS
<1>1. UNCHANGED <<dbVars, ready, budget>> /\ cursor # <<>> /\ PoolTypeOK'
  BY CallTyped DEF resumeCursor
<1>2. CASE Reached /\ cursor[1].seq > tip[Answering] + resetSlack
  <2>1. loop' \in Loop /\ loop'.pc = "stopped"
    BY <1>2, StopTyped DEF resumeCursor
  <2> QED BY <1>1, <2>1, IInvTypes, LetsGo DEF Under, Types
<1>3. CASE ~(Reached /\ cursor[1].seq > tip[Answering] + resetSlack)
  <2>1. cursor[1].seq \in 1..MaxTip /\ cursor[1].hash \in Hashes /\ MaxTip \in Nat
    BY <1>1, CursorShape, PoolAssumption DEF IInv
  <2>2. loop' = [loop EXCEPT !.pc = "fetch", !.next = cursor[1].seq + 1,
                             !.expectedPrev = cursor[1].hash]
    BY <1>3 DEF resumeCursor, resumeNext
  <2>3. cursor[1].seq + 1 \in 0..(MaxTip + 1)
    BY <2>1
  <2>4. loop' \in Loop /\ loop'.pc = "fetch" /\ loop'.next = cursor[1].seq + 1
    BY <2>1, <2>2, <2>3, IInvTypes DEF Types, Loop
  <2>5. Position' /\ Committing'
    BY <1>1, <2>1, <2>4 DEF Position, Committing, Under, dbVars
  <2> QED BY <1>1, <2>4, <2>5, IInvTypes, DatabaseStays DEF Types
<1> QED BY <1>2, <1>3

LEMMA GetLedgerKeepsIInv == IInv /\ GetLedger => IInv'
<1> SUFFICES ASSUME IInv, GetLedger PROVE IInv'
  OBVIOUS
<1>1. /\ UNCHANGED <<dbVars, ready, budget>> /\ PoolTypeOK' /\ Reached
      /\ loop.pc = "fetch" /\ loop.next <= tip[Answering]
  BY CallTyped DEF GetLedger
<1>2. CASE ~Extends(Hash(Answering, loop.next - 1), loop.expectedPrev)
  <2>1. loop' \in Loop /\ loop'.pc = "stopped"
    BY <1>2, StopTyped DEF GetLedger
  <2> QED BY <1>1, <2>1, IInvTypes, LetsGo DEF Under, Types
<1>3. CASE Extends(Hash(Answering, loop.next - 1), loop.expectedPrev)
  <2> DEFINE got == [hash |-> Hash(Answering, loop.next),
                     prev |-> Hash(Answering, loop.next - 1), latest |-> tip[Answering]]
  <2>1. Answering \in Endpoints /\ tip[Answering] \in 1..MaxTip /\ MaxTip \in Nat
    BY <1>1, AnsweringIsUp, IInvTypes, PoolAssumption DEF Types
  <2>2. loop.next \in 1..MaxTip
    BY <1>1, <2>1, IInvTypes DEF IInv, Position, Under, Types, Loop
  <2>3. Hash(Answering, loop.next) \in Hashes /\ Hash(Answering, loop.next - 1) \in Hashes
    BY <2>1, <2>2, IInvTypes, HashTyped DEF Types
  <2>4. got \in Fetched
    BY <2>1, <2>3 DEF Fetched
  <2>5. loop' = [loop EXCEPT !.pc = "commit", !.got = got]
    BY <1>3 DEF GetLedger
  <2> HIDE DEF got
  <2>6. loop' \in Loop /\ loop'.pc = "commit" /\ loop'.next = loop.next
    BY <2>4, <2>5, IInvTypes DEF Types, Loop
  <2>7. Position' /\ Committing'
    BY <1>1, <2>2, <2>6 DEF IInv, Position, Committing, Under, dbVars
  <2> QED BY <1>1, <2>6, <2>7, IInvTypes, DatabaseStays DEF Types
<1> QED BY <1>2, <1>3

LEMMA EmptyPageKeepsIInv == IInv /\ EmptyPage => IInv'
<1> SUFFICES ASSUME IInv, EmptyPage PROVE IInv'
  OBVIOUS
<1>1. UNCHANGED <<dbVars, ready, budget>> /\ PoolTypeOK' /\ loop.pc = "fetch"
  BY CallTyped DEF EmptyPage, OutOfRange
<1>2. CASE loop.next > tip[Answering]
  <2>1. loop' \in Loop /\ loop'.pc = "tip" /\ loop'.next = loop.next
    BY <1>2, GotoTyped DEF EmptyPage
  <2> QED BY <1>1, <2>1, IInvTypes, KeepsPosition DEF Under, Types
<1>3. CASE ~(loop.next > tip[Answering])
  <2>1. loop' \in Loop /\ loop'.pc = "stopped"
    BY <1>3, StopTyped DEF EmptyPage
  <2> QED BY <1>1, <2>1, IInvTypes, LetsGo DEF Under, Types
<1> QED BY <1>2, <1>3

LEMMA WindowErrorKeepsIInv == IInv /\ WindowError => IInv'
<1> SUFFICES ASSUME IInv, WindowError PROVE IInv'
  OBVIOUS
<1>1. UNCHANGED <<poolVars, dbVars, ready, budget>> /\ Reached /\ loop.pc = "fetch"
  BY DEF WindowError, OutOfRange
<1>2. PoolTypeOK' /\ tip[Answering] \in 0..MaxTip
  BY <1>1, CallTyped, AnsweringIsUp, IInvTypes, PoolAssumption DEF Types
<1>3. loop' = [loop EXCEPT !.pc = "probe", !.asked = tip[Answering]]
  BY DEF WindowError
<1>4. loop' \in Loop /\ loop'.pc = "probe" /\ loop'.next = loop.next
  BY <1>2, <1>3, IInvTypes DEF Types, Loop
<1> QED BY <1>1, <1>2, <1>4, IInvTypes, KeepsPosition DEF Under, Types

LEMMA ClassifyKeepsIInv == IInv /\ classifyOutOfRange => IInv'
<1> SUFFICES ASSUME IInv, classifyOutOfRange PROVE IInv'
  OBVIOUS
<1>1. UNCHANGED <<dbVars, ready, budget>> /\ PoolTypeOK' /\ loop.pc = "probe"
  BY CallTyped DEF classifyOutOfRange
<1>2. CASE Goto("tip") \/ Goto("fetch")
  <2>1. loop' \in Loop /\ loop'.pc \in {"tip", "fetch"} /\ loop'.next = loop.next
    BY <1>2, GotoTyped
  <2> QED BY <1>1, <2>1, IInvTypes, KeepsPosition DEF Under, Types
<1>3. CASE Stop("retention")
  <2>1. loop' \in Loop /\ loop'.pc = "stopped"
    BY <1>3, StopTyped
  <2> QED BY <1>1, <2>1, IInvTypes, LetsGo DEF Under, Types
<1> QED BY <1>2, <1>3 DEF classifyOutOfRange

LEMMA TipKeepsIInv == IInv /\ markTipReached => IInv'
<1> SUFFICES ASSUME IInv, markTipReached PROVE IInv'
  OBVIOUS
<1>1. UNCHANGED <<dbVars, budget>> /\ PoolTypeOK' /\ loop.pc = "tip"
  BY CallTyped DEF markTipReached
<1>2. ready' \in BOOLEAN
  <2> DEFINE near == loop.next + readyLagThreshold >= tip[Answering]
  <2>1. ready' = near \/ ready' = ready
    BY DEF markTipReached
  <2>2. near = TRUE \/ near = FALSE
    OBVIOUS
  <2> HIDE DEF near
  <2>3. ready \in BOOLEAN
    BY IInvTypes DEF Types
  <2> QED BY <2>1, <2>2, <2>3, Zenon
<1>3. loop' \in Loop /\ loop'.pc = "fetch" /\ loop'.next = loop.next
  BY GotoTyped DEF markTipReached
<1> QED BY <1>1, <1>2, <1>3, IInvTypes, KeepsPosition DEF Under, Types

LEMMA CommitFailsKeepsIInv == IInv /\ CommitFails => IInv'
<1> SUFFICES ASSUME IInv, CommitFails PROVE IInv'
  OBVIOUS
<1>1. UNCHANGED <<poolVars, dbVars, ready, budget>> /\ PoolTypeOK' /\ loop.pc = "commit"
  BY CallTyped DEF CommitFails
<1>2. loop' \in Loop /\ loop'.pc = "fetch" /\ loop'.next = loop.next
  BY GotoTyped DEF CommitFails
<1> QED BY <1>1, <1>2, IInvTypes, KeepsPosition DEF Under, Types

\* Crashes, restarts and what the endpoints do.
LEMMA FaultsKeepIInv ==
    ASSUME IInv,
           Restart \/ Crash \/ Closes \/ Outage \/ Recovery \/ NetworkReset \/ UNCHANGED vars
    PROVE  IInv'
<1> DEFINE Budget == [crash: 0..MaxCrashes, outage: 0..MaxOutages, ack: 0..MaxLostAcks]
<1>0. /\ budget \in Budget /\ MaxCrashes \in Nat /\ MaxOutages \in Nat
      /\ PoolTypeOK /\ ready \in BOOLEAN /\ 1 \in Endpoints
  BY IInvTypes, LoopAssumption, PoolAssumption DEF Types, Endpoints
<1>1. CASE Restart \/ Crash
  <2>1. UNCHANGED <<dbVars, tip, up, epoch>> /\ preferred' = 1 /\ loop' = Booting /\ ready' = FALSE
    BY <1>1 DEF Restart, Crash
  <2>2. PoolTypeOK'
    BY <1>0, <2>1 DEF PoolTypeOK
  <2>3. budget' \in Budget
    BY <1>0, <1>1 DEF Restart, Crash
  <2>4. loop' \in Loop /\ loop'.pc \notin Under
    BY <2>1, ConstantsTyped DEF Booting, Under
  <2> QED BY <2>1, <2>2, <2>3, <2>4, LetsGo
<1>2. CASE Closes
  <2>1. PICK e \in Endpoints : Close(e)
    BY <1>2 DEF Closes
  <2>2. PoolTypeOK'
    BY <1>0, <2>1, PoolAssumption DEF Close, PoolTypeOK
  <2>3. UNCHANGED <<dbVars, loop, ready, budget>>
    BY <1>2 DEF Closes, loopVars
  <2> QED BY <1>0, <2>2, <2>3, LoopStays
<1>3. CASE Outage
  <2>1. PoolTypeOK'
    BY <1>0, <1>3 DEF Outage, Fails, PoolTypeOK
  <2>2. budget' \in Budget
    BY <1>0, <1>3 DEF Outage
  <2> QED BY <1>3, <2>1, <2>2, LoopStays DEF Outage
<1>4. CASE Recovery
  <2>1. PoolTypeOK'
    BY <1>0, <1>4 DEF Recovery, Recovers, PoolTypeOK
  <2>2. UNCHANGED <<dbVars, loop, ready, budget>>
    BY <1>4 DEF Recovery, loopVars
  <2> QED BY <1>0, <2>1, <2>2, LoopStays
<1>5. CASE NetworkReset
  <2>1. PoolTypeOK'
    BY <1>0, <1>5, PoolAssumption DEF NetworkReset, Reset, PoolTypeOK
  <2>2. UNCHANGED <<dbVars, loop, ready, budget>>
    BY <1>5 DEF NetworkReset, loopVars
  <2> QED BY <1>0, <2>1, <2>2, LoopStays
<1>6. CASE UNCHANGED vars
  <2>1. PoolTypeOK' /\ UNCHANGED <<dbVars, loop, ready, budget>>
    BY <1>0, <1>6 DEF vars, loopVars, poolVars, PoolTypeOK
  <2> QED BY <1>0, <2>1, LoopStays
<1> QED BY <1>1, <1>2, <1>3, <1>4, <1>5, <1>6

-----------------------------------------------------------------------------
(* The transaction.                                                        *)

\* The locals when a ledger is committed.
LEMMA AtCommit ==
    ASSUME IInv, loop.pc = "commit"
    PROVE  /\ loop.next \in 1..MaxTip /\ MaxTip \in Nat /\ hashRingSize \in Nat
           /\ loop.got.hash \in Hashes /\ loop.got.prev \in Hashes
           /\ cursor # <<>> => /\ loop.next \in {cursor[1].seq, cursor[1].seq + 1}
                              /\ cursor[1].seq \in 1..MaxTip
<1>1. loop \in Loop /\ MaxTip \in Nat /\ hashRingSize \in Nat
  BY IInvTypes, PoolAssumption, LoopAssumption DEF Types
<1>2. loop.next \in 1..MaxTip
  BY <1>1 DEF IInv, Position, Committing, Under, Loop
<1>3. loop.got \in Fetched
  BY <1>1 DEF Loop
<1>4. loop.got.hash \in Hashes /\ loop.got.prev \in Hashes
  BY <1>3 DEF Fetched
<1>5. cursor # <<>> => /\ loop.next \in {cursor[1].seq, cursor[1].seq + 1}
                      /\ cursor[1].seq \in 1..MaxTip
  BY CursorShape DEF IInv, Position, Under
<1> QED BY <1>1, <1>2, <1>4, <1>5

\* The cursor after a commit is the committed ledger; it moves unless it was
\* there already.
LEMMA CursorAfter ==
    ASSUME IInv, loop.pc = "commit", CommitLedger
    PROVE  /\ cursor' # <<>> /\ cursor'[1].seq = loop.next
           /\ \E h \in Hashes : cursor' = <<[seq |-> loop.next, hash |-> h]>>
           /\ IF cursor # <<>> /\ cursor[1].seq = loop.next
              THEN cursor' = cursor
              ELSE cursor'[1].hash = loop.got.hash
<1>1. cursor' = IF cursor # <<>> /\ cursor[1].seq >= loop.next THEN cursor
                ELSE <<[seq |-> loop.next, hash |-> loop.got.hash]>>
  BY DEF CommitLedger, AdvanceCursor
<1>2. CASE cursor # <<>> /\ cursor[1].seq >= loop.next
  <2>1. cursor[1].seq = loop.next /\ cursor' = cursor
    BY <1>1, <1>2, AtCommit
  <2>2. cursor[1].hash \in Hashes /\ cursor = <<[seq |-> cursor[1].seq, hash |-> cursor[1].hash]>>
    BY <1>2, CursorShape DEF IInv
  <2> QED BY <1>2, <2>1, <2>2
<1>3. CASE ~(cursor # <<>> /\ cursor[1].seq >= loop.next)
  <2>1. cursor' = <<[seq |-> loop.next, hash |-> loop.got.hash]>>
    BY <1>1, <1>3
  <2>2. ~(cursor # <<>> /\ cursor[1].seq = loop.next)
    BY <1>3, AtCommit
  <2> QED BY <2>1, <2>2, AtCommit
<1> QED BY <1>2, <1>3

\* The ring after a commit holds the committed ledger and nothing above it.
LEMMA RingAfter ==
    ASSUME IInv, loop.pc = "commit", CommitLedger
    PROVE  /\ loop.next \in DOMAIN ring'
           /\ DOMAIN ring' \subseteq 1..MaxTip
           /\ \A s \in DOMAIN ring' : s <= loop.next /\ ring'[s] \in [hash: Hashes, prev: Hashes]
           /\ ring'[loop.next].hash =
                 IF loop.next \in DOMAIN ring THEN ring[loop.next].hash ELSE loop.got.hash
<1> DEFINE n == loop.next
           row == [hash |-> loop.got.hash, prev |-> loop.got.prev]
           kept == IF n \in DOMAIN ring THEN ring
                   ELSE [s \in DOMAIN ring \cup {n} |-> IF s = n THEN row ELSE ring[s]]
<1>1. ring' = [s \in {t \in DOMAIN kept : t >= n - hashRingSize} |-> kept[s]]
  BY DEF CommitLedger, RingInsert
<1>2. n \in 1..MaxTip /\ MaxTip \in Nat /\ hashRingSize \in Nat /\ row \in [hash: Hashes, prev: Hashes]
  BY AtCommit
<1>3. /\ DOMAIN ring \subseteq 1..MaxTip
      /\ \A s \in DOMAIN ring : ring[s] \in [hash: Hashes, prev: Hashes]
  BY DEF IInv, TypeOK
<1>4. \A s \in DOMAIN ring : s <= n
  <2>1. CASE cursor = <<>>
    BY <2>1 DEF IInv, CursorAgrees
  <2>2. CASE cursor # <<>>
    BY <1>2, <1>3, <2>2, AtCommit DEF IInv, CursorAgrees
  <2> QED BY <2>1, <2>2
<1> HIDE DEF row
<1>5. DOMAIN kept = DOMAIN ring \cup {n}
  OBVIOUS
<1>6. \A s \in DOMAIN kept : kept[s] = IF s \in DOMAIN ring THEN ring[s] ELSE row
  OBVIOUS
<1> HIDE DEF kept
<1>7. n \in DOMAIN ring' /\ ring'[n] = kept[n]
  BY <1>1, <1>2, <1>5
<1>8. \A s \in DOMAIN ring' : s \in DOMAIN kept /\ ring'[s] = kept[s]
  BY <1>1
<1>9. \A s \in DOMAIN ring' : s <= n /\ s \in 1..MaxTip /\ ring'[s] \in [hash: Hashes, prev: Hashes]
  BY <1>2, <1>3, <1>4, <1>5, <1>6, <1>8
<1>10. ring'[n].hash = IF n \in DOMAIN ring THEN ring[n].hash ELSE loop.got.hash
  BY <1>5, <1>6, <1>7 DEF row
<1> QED BY <1>7, <1>9, <1>10

\* Rows, cursor and ring move together.
LEMMA CommitAgrees ==
    ASSUME IInv, loop.pc = "commit", CommitLedger
    PROVE  CursorAgrees'
<1>1. cursor' # <<>> /\ cursor'[1].seq = loop.next
  BY CursorAfter
<1>2. loop.next \in ingested'
  BY DEF CommitLedger
<1>3. cursor'[1].hash = ring'[loop.next].hash
  <2>1. CASE cursor # <<>> /\ cursor[1].seq = loop.next
    <3>1. cursor' = cursor /\ loop.next \in DOMAIN ring
      BY <2>1, CursorAfter DEF IInv, CursorAgrees
    <3>2. ring'[loop.next].hash = ring[loop.next].hash
      BY <3>1, RingAfter
    <3>3. cursor[1].hash = ring[loop.next].hash
      BY <2>1 DEF IInv, CursorAgrees
    <3> QED BY <3>1, <3>2, <3>3
  <2>2. CASE ~(cursor # <<>> /\ cursor[1].seq = loop.next)
    <3>1. loop.next \notin DOMAIN ring
      <4>1. CASE cursor = <<>>
        BY <4>1 DEF IInv, CursorAgrees
      <4>2. CASE cursor # <<>>
        BY <2>2, <4>2, AtCommit DEF IInv, CursorAgrees
      <4> QED BY <4>1, <4>2
    <3>2. cursor'[1].hash = loop.got.hash
      BY <2>2, CursorAfter
    <3> QED BY <3>1, <3>2, RingAfter
  <2> QED BY <2>1, <2>2
<1> QED BY <1>1, <1>2, <1>3, RingAfter DEF CursorAgrees

LEMMA CommitTyped ==
    ASSUME IInv, loop.pc = "commit", CommitLedger, PoolTypeOK', loop' \in Loop, ready' \in BOOLEAN,
           budget' \in [crash: 0..MaxCrashes, outage: 0..MaxOutages, ack: 0..MaxLostAcks]
    PROVE  TypeOK'
<1>1. \E s \in 1..MaxTip, h \in Hashes : cursor' = <<[seq |-> s, hash |-> h]>>
  BY CursorAfter, AtCommit
<1>2. ingested' \subseteq 1..MaxTip
  BY AtCommit DEF CommitLedger, IInv, TypeOK
<1> QED BY <1>1, <1>2, RingAfter DEF TypeOK

LEMMA CommitKeepsIInv == IInv /\ Commit => IInv'
<1> SUFFICES ASSUME IInv, Commit PROVE IInv'
  OBVIOUS
<1>1. /\ loop.pc = "commit" /\ CommitLedger /\ UNCHANGED <<poolVars, ready, budget>>
      /\ loop' = [loop EXCEPT !.pc = "fetch", !.next = @ + 1, !.expectedPrev = loop.got.hash,
                              !.got = NoLedger]
  BY DEF Commit, Advanced
<1>2. loop.next \in 1..MaxTip /\ loop.next + 1 \in 0..(MaxTip + 1) /\ loop.got.hash \in Hashes
  BY <1>1, AtCommit
<1>3. loop' \in Loop /\ loop'.pc = "fetch" /\ loop'.next = loop.next + 1
  BY <1>1, <1>2, IInvTypes, ConstantsTyped DEF Types, Loop
<1>4. TypeOK'
  BY <1>1, <1>3, IInvTypes, CallTyped, CommitTyped DEF Types
<1>5. Position' /\ Committing'
  BY <1>1, <1>2, <1>3, CursorAfter DEF Position, Committing
<1> QED BY <1>1, <1>4, <1>5, CommitAgrees DEF IInv

LEMMA LostAckKeepsIInv == IInv /\ CommitLosesAck => IInv'
<1> SUFFICES ASSUME IInv, CommitLosesAck PROVE IInv'
  OBVIOUS
<1>1. /\ loop.pc = "commit" /\ CommitLedger /\ UNCHANGED <<poolVars, ready>> /\ Goto("fetch")
      /\ budget.ack > 0 /\ budget' = [budget EXCEPT !.ack = @ - 1]
  BY DEF CommitLosesAck
<1>2. loop' \in Loop /\ loop'.pc = "fetch" /\ loop'.next = loop.next
  BY <1>1, GotoTyped
<1>3. budget' \in [crash: 0..MaxCrashes, outage: 0..MaxOutages, ack: 0..MaxLostAcks]
  BY <1>1, IInvTypes, LoopAssumption DEF Types
<1>4. TypeOK'
  BY <1>1, <1>2, <1>3, IInvTypes, CallTyped, CommitTyped DEF Types
<1>5. Position' /\ Committing'
  BY <1>1, <1>2, AtCommit, CursorAfter DEF Position, Committing
<1> QED BY <1>1, <1>4, <1>5, CommitAgrees DEF IInv

LEMMA NextIInv == IInv /\ [Next]_vars => IInv'
BY BootKeepsIInv, FreshKeepsIInv, CursorKeepsIInv, GetLedgerKeepsIInv, EmptyPageKeepsIInv,
   WindowErrorKeepsIInv, ClassifyKeepsIInv, TipKeepsIInv, CommitKeepsIInv,
   CommitFailsKeepsIInv, LostAckKeepsIInv, FaultsKeepIInv
   DEF Next, Work

LEMMA Invariant == Spec => []IInv
BY InitIInv, NextIInv, PTL DEF Spec

\* The loop's locals, the cursor row and the ring stay in range, whatever fails.
THEOREM LoopTyped == Spec => []TypeOK
<1>1. IInv => TypeOK
  BY DEF IInv
<1> QED BY Invariant, <1>1, PTL

\* A restart arms continuity with the hash that was recorded: the cursor and the
\* ring agree on the newest ledger across crashes, failed commits, lost
\* acknowledgements, failovers and network resets.
THEOREM CursorAnchored == Spec => []CursorInRing
<1>1. IInv => CursorInRing
  BY DEF IInv, CursorAgrees, CursorInRing
<1> QED BY Invariant, <1>1, PTL

-----------------------------------------------------------------------------
(* The loop implements the feed.                                           *)

\* A step that writes nothing is a stutter of the feed.
LEMMA QuietStep ==
    ASSUME UNCHANGED dbVars
    PROVE  UNCHANGED Feed!vars
BY DEF dbVars, Feed!vars

\* A commit delivers the first ledger, the next one, or nothing new.
LEMMA CommitStep ==
    ASSUME IInv, loop.pc = "commit", CommitLedger
    PROVE  [Feed!Next]_(Feed!vars)
<1>1. /\ cursor' # <<>> /\ cursor'[1].seq = loop.next /\ loop.next \in 1..MaxTip
      /\ ingested' = ingested \cup {loop.next} /\ MaxTip \in Nat
  BY CursorAfter, AtCommit DEF CommitLedger
<1>2. CASE cursor = <<>>
  <2>1. ingested' = {loop.next}
    BY <1>1, <1>2 DEF IInv, CursorAgrees
  <2> QED BY <1>1, <1>2, <2>1 DEF Feed!Next, Feed!First
<1>3. CASE cursor # <<>> /\ loop.next = cursor[1].seq
  <2>1. ingested' = ingested
    BY <1>1, <1>3 DEF IInv, CursorAgrees
  <2> QED BY <1>1, <1>3, <2>1 DEF Feed!vars
<1>4. CASE cursor # <<>> /\ loop.next = cursor[1].seq + 1
  <2>1. cursor[1].seq \in 1..MaxTip
    BY <1>4, AtCommit
  <2> QED BY <1>1, <1>4, <2>1 DEF Feed!Next, Feed!Following
<1> QED BY <1>2, <1>3, <1>4, AtCommit

LEMMA StepsFeed == IInv /\ [Next]_vars => [Feed!Next]_(Feed!vars)
<1> SUFFICES ASSUME IInv, [Next]_vars PROVE [Feed!Next]_(Feed!vars)
  OBVIOUS
<1>1. CASE Commit \/ CommitLosesAck
  BY <1>1, CommitStep DEF Commit, CommitLosesAck
<1>2. CASE ~(Commit \/ CommitLosesAck)
  <2>1. UNCHANGED dbVars
    BY <1>2 DEF Next, Work, VerifyNetwork, VerifyNetworkFails, LoadCursorFails, resumeFresh,
       resumeCursor, GetLedger, EmptyPage, WindowError, classifyOutOfRange, markTipReached,
       CommitFails, Restart, Crash, Closes, Outage, Recovery, NetworkReset, loopVars, vars
  <2> QED BY <2>1, QuietStep
<1> QED BY <1>1, <1>2

\* Seen from outside the live loop is a feed: it starts somewhere and then
\* delivers the next ledger and nothing else, for every pool, every pattern of
\* forks, resets, outages and crashes, and however many commits fail or lose
\* their acknowledgement.
THEOREM LoopIsFeed == Spec => ImplementsFeed
<1>1. Init => Feed!Init
  BY DEF Init, Feed!Init
<1>2. IInv /\ [Next]_vars => [Feed!Next]_(Feed!vars)
  BY StepsFeed
<1> QED BY Invariant, <1>1, <1>2, PTL DEF Spec, ImplementsFeed, Feed!Spec

-----------------------------------------------------------------------------
(* The recorded chain.                                                     *)

\* What a step that commits nothing may do with the position.
LetsItGo == loop'.pc \notin Under

KeepsIt ==
    /\ loop.pc \in Under /\ loop'.pc \in Under \ {"commit"}
    /\ loop'.next = loop.next /\ loop'.expectedPrev = loop.expectedPrev

TakesIt ==
    /\ loop.pc = "resume" /\ loop'.pc = "fetch"
    /\ \/ cursor = <<>> /\ loop'.expectedPrev = loop.expectedPrev
       \/ /\ cursor # <<>> /\ loop'.next = cursor[1].seq + 1
          /\ loop'.expectedPrev = cursor[1].hash

GetsIt ==
    /\ loop.pc = "fetch" /\ loop'.pc = "commit" /\ Reached
    /\ loop'.next = loop.next /\ loop'.expectedPrev = loop.expectedPrev
    /\ loop'.got.hash = Hash(Answering, loop.next)
    /\ loop'.got.prev = Hash(Answering, loop.next - 1)
    /\ Extends(loop'.got.prev, loop.expectedPrev)

\* Goto and Stop leave the rest of the locals.
LEMMA GotoKeeps ==
    ASSUME IInv, NEW pc, Goto(pc)
    PROVE  /\ loop'.pc = pc /\ loop'.next = loop.next /\ loop'.why = loop.why
           /\ loop'.expectedPrev = loop.expectedPrev
  BY IInvTypes DEF Types, Loop, Goto

LEMMA StopKeeps ==
    ASSUME IInv, NEW why, Stop(why)
    PROVE  /\ loop'.pc = "stopped" /\ loop'.why = why /\ loop'.next = loop.next
           /\ loop'.expectedPrev = loop.expectedPrev
  BY IInvTypes DEF Types, Loop, Stop

\* The steps of the loop that write nothing, by what becomes of the position.
LEMMA LoopMoves ==
    ASSUME IInv, [Next]_vars, ~Commit, ~CommitLosesAck
    PROVE  /\ UNCHANGED dbVars /\ budget'.ack = budget.ack
           /\ UNCHANGED loop \/ LetsItGo \/ KeepsIt \/ TakesIt \/ GetsIt
<1>1. UNCHANGED dbVars
  BY DEF Next, Work, VerifyNetwork, VerifyNetworkFails, LoadCursorFails, resumeFresh,
     resumeCursor, GetLedger, EmptyPage, WindowError, classifyOutOfRange, markTipReached,
     CommitFails, Restart, Crash, Closes, Outage, Recovery, NetworkReset, loopVars, vars
<1>2. budget'.ack = budget.ack
  <2>1. \/ budget' = budget
        \/ budget' = [budget EXCEPT !.crash = @ - 1]
        \/ budget' = [budget EXCEPT !.outage = @ - 1]
    BY DEF Next, Work, VerifyNetwork, VerifyNetworkFails, LoadCursorFails, resumeFresh,
       resumeCursor, GetLedger, EmptyPage, WindowError, classifyOutOfRange, markTipReached,
       CommitFails, Restart, Crash, Closes, Outage, Recovery, NetworkReset, loopVars, vars
  <2> QED BY <2>1, IInvTypes DEF Types
<1> SUFFICES UNCHANGED loop \/ LetsItGo \/ KeepsIt \/ TakesIt \/ GetsIt
  BY <1>1, <1>2
<1>3. CASE VerifyNetwork \/ VerifyNetworkFails \/ LoadCursorFails
  BY <1>3, GotoKeeps, StopKeeps DEF VerifyNetwork, VerifyNetworkFails, LoadCursorFails,
     LetsItGo, Under
<1>4. CASE resumeFresh
  <2>1. CASE Reached
    BY <1>4, <2>1, IInvTypes DEF resumeFresh, TakesIt, Types, Loop
  <2>2. CASE ~Reached
    BY <1>4, <2>2, StopKeeps DEF resumeFresh, LetsItGo, Under
  <2> QED BY <2>1, <2>2
<1>5. CASE resumeCursor
  <2>1. CASE Reached /\ cursor[1].seq > tip[Answering] + resetSlack
    BY <1>5, <2>1, StopKeeps DEF resumeCursor, LetsItGo, Under
  <2>2. CASE ~(Reached /\ cursor[1].seq > tip[Answering] + resetSlack)
    BY <1>5, <2>2, IInvTypes DEF resumeCursor, resumeNext, TakesIt, Types, Loop
  <2> QED BY <2>1, <2>2
<1>6. CASE GetLedger
  <2>1. CASE Extends(Hash(Answering, loop.next - 1), loop.expectedPrev)
    <3> DEFINE got == [hash |-> Hash(Answering, loop.next),
                       prev |-> Hash(Answering, loop.next - 1), latest |-> tip[Answering]]
    <3>1. loop' = [loop EXCEPT !.pc = "commit", !.got = got] /\ loop.pc = "fetch" /\ Reached
      BY <1>6, <2>1 DEF GetLedger
    <3>2. got.hash = Hash(Answering, loop.next) /\ got.prev = Hash(Answering, loop.next - 1)
      OBVIOUS
    <3> HIDE DEF got
    <3>3. /\ loop'.pc = "commit" /\ loop'.next = loop.next /\ loop'.got = got
          /\ loop'.expectedPrev = loop.expectedPrev
      BY <3>1, IInvTypes DEF Types, Loop
    <3> QED BY <2>1, <3>1, <3>2, <3>3 DEF GetsIt
  <2>2. CASE ~Extends(Hash(Answering, loop.next - 1), loop.expectedPrev)
    BY <1>6, <2>2, StopKeeps DEF GetLedger, LetsItGo, Under
  <2> QED BY <2>1, <2>2
<1>7. CASE EmptyPage \/ classifyOutOfRange \/ markTipReached \/ CommitFails
  <2>1. \/ loop.pc \in Under /\ (Goto("tip") \/ Goto("fetch"))
        \/ Stop("retention")
    BY <1>7 DEF EmptyPage, OutOfRange, classifyOutOfRange, markTipReached, CommitFails, Under
  <2> QED BY <2>1, GotoKeeps, StopKeeps DEF KeepsIt, LetsItGo, Under
<1>8. CASE WindowError
  BY <1>8, IInvTypes DEF WindowError, OutOfRange, KeepsIt, Under, Types, Loop
<1>9. CASE Restart \/ Crash
  BY <1>9 DEF Restart, Crash, Booting, LetsItGo, Under
<1>10. CASE Closes \/ Outage \/ Recovery \/ NetworkReset \/ UNCHANGED vars
  BY <1>10 DEF Closes, Outage, Recovery, NetworkReset, loopVars, vars
<1> QED BY <1>3, <1>4, <1>5, <1>6, <1>7, <1>8, <1>9, <1>10 DEF Next, Work

\* As long as no acknowledgement was lost the loop is right after its cursor
\* and armed with the hash it recorded there.
Armed ==
    /\ loop.pc \in Under /\ cursor # <<>> =>
          loop.next = cursor[1].seq + 1 /\ loop.expectedPrev = cursor[1].hash
    /\ loop.pc = "commit" => Extends(loop.got.prev, loop.expectedPrev)

ChainInv == budget.ack = MaxLostAcks => OneChain /\ Armed

\* The ring after a commit, ledger by ledger.
LEMMA RingKeeps ==
    ASSUME IInv, loop.pc = "commit", CommitLedger, loop.next \notin DOMAIN ring
    PROVE  /\ ring'[loop.next].prev = loop.got.prev
           /\ \A s \in DOMAIN ring' : s # loop.next => s \in DOMAIN ring /\ ring'[s] = ring[s]
<1> DEFINE n == loop.next
           row == [hash |-> loop.got.hash, prev |-> loop.got.prev]
           kept == [s \in DOMAIN ring \cup {n} |-> IF s = n THEN row ELSE ring[s]]
<1>1. ring' = [s \in {t \in DOMAIN kept : t >= n - hashRingSize} |-> kept[s]]
  BY DEF CommitLedger, RingInsert
<1>2. n \in DOMAIN ring' /\ kept[n] = row
  BY RingAfter
<1>3. \A s \in DOMAIN ring \cup {n} : s # n => kept[s] = ring[s]
  OBVIOUS
<1>4. DOMAIN kept = DOMAIN ring \cup {n}
  OBVIOUS
<1>5. row.prev = loop.got.prev
  OBVIOUS
<1> HIDE DEF kept, row
<1> QED BY <1>1, <1>2, <1>3, <1>4, <1>5

LEMMA ChainNext == IInv /\ IInv' /\ ChainInv /\ [Next]_vars => ChainInv'
<1> SUFFICES ASSUME IInv, ChainInv, [Next]_vars, budget'.ack = MaxLostAcks
             PROVE  OneChain' /\ Armed'
  BY DEF ChainInv
<1>1. CASE ~Commit /\ ~CommitLosesAck
  <2>1. /\ cursor' = cursor /\ ring' = ring /\ budget'.ack = budget.ack
        /\ UNCHANGED loop \/ LetsItGo \/ KeepsIt \/ TakesIt \/ GetsIt
    BY <1>1, LoopMoves DEF dbVars
  <2>2. OneChain /\ Armed
    BY <2>1 DEF ChainInv
  <2>3. OneChain'
    BY <2>1, <2>2 DEF OneChain
  <2>4. Armed'
    BY <2>1, <2>2 DEF Armed, LetsItGo, KeepsIt, TakesIt, GetsIt, Under, Extends
  <2> QED BY <2>3, <2>4
<1>2. CASE CommitLosesAck
  <2>1. budget'.ack = budget.ack - 1 /\ budget.ack \in 0..MaxLostAcks /\ MaxLostAcks \in Nat
    BY <1>2, IInvTypes, LoopAssumption DEF CommitLosesAck, Types
  <2> QED BY <2>1
<1>3. CASE Commit
  <2>1. /\ loop.pc = "commit" /\ CommitLedger /\ OneChain /\ Armed
        /\ loop'.pc = "fetch" /\ loop'.next = loop.next + 1 /\ loop'.expectedPrev = loop.got.hash
    BY <1>3, IInvTypes DEF Commit, Advanced, ChainInv, Types, Loop
  <2>2. /\ cursor # <<>> => loop.next = cursor[1].seq + 1 /\ loop.expectedPrev = cursor[1].hash
        /\ Extends(loop.got.prev, loop.expectedPrev) /\ loop.next \in 1..MaxTip
        /\ cursor # <<>> => cursor[1].seq \in 1..MaxTip
    BY <2>1, AtCommit DEF Armed, Under
  <2>3. loop.next \notin DOMAIN ring /\ DOMAIN ring \subseteq Int
    BY <2>2 DEF IInv, CursorAgrees, TypeOK
  <2>4. Armed'
    BY <2>1, <2>2, CursorAfter DEF Armed
  <2>5. ASSUME NEW s \in DOMAIN ring', s + 1 \in DOMAIN ring'
        PROVE  ring'[s + 1].prev = ring'[s].hash
    <3>1. s \in Int /\ s <= loop.next /\ s + 1 <= loop.next
      BY <2>1, <2>5, RingAfter
    <3>2. s \in DOMAIN ring /\ ring'[s] = ring[s]
      BY <2>1, <2>2, <2>3, <3>1, RingKeeps
    <3>3. CASE s + 1 # loop.next
      BY <2>1, <2>3, <2>5, <3>2, <3>3, RingKeeps DEF OneChain
    <3>4. CASE s + 1 = loop.next
      <4>1. cursor # <<>>
        BY <3>2 DEF IInv, CursorAgrees
      <4>2. s = cursor[1].seq /\ loop.expectedPrev = cursor[1].hash
        BY <2>2, <3>1, <3>4, <4>1
      <4>3. ring[s].hash = cursor[1].hash /\ cursor[1].hash \in Hashes
        BY <4>1, <4>2, CursorShape DEF IInv, CursorAgrees
      <4>4. NoHash \notin Hashes
        BY DEF NoHash, Hashes
      <4>5. loop.got.prev = cursor[1].hash
        BY <2>2, <4>2, <4>3, <4>4 DEF Extends
      <4> QED BY <2>1, <2>3, <3>2, <3>4, <4>3, <4>5, RingKeeps
    <3> QED BY <3>3, <3>4
  <2> QED BY <2>4, <2>5 DEF OneChain
<1> QED BY <1>1, <1>2, <1>3

\* The hashes the loop records form one chain, across failovers between
\* endpoints that disagree, network resets, crashes and failed commits, as
\* long as no acknowledgement of a commit is lost.
THEOREM ChainIsLinked == Spec => []ChainLinked
<1>1. Init => ChainInv
  BY DEF Init, ChainInv, OneChain, Armed, Booting, Under
<1>2. ChainInv => ChainLinked
  BY DEF ChainInv, ChainLinked
<1> QED BY <1>1, <1>2, ChainNext, Invariant, PTL DEF Spec

-----------------------------------------------------------------------------
(* Why the loop stops.                                                     *)

\* A reason is there only once the loop has stopped.
WhyStopped == loop.why # "none" => loop.pc = "stopped"

\* No endpoint is further ahead of another than the skew.
Skewed == \A e, f \in Endpoints : tip[e] <= tip[f] + MaxSkew

\* The position really is below the window of an endpoint.
BelowWindow == \E e \in Endpoints : loop.next < oldest(e)

\* A window error that is being classified comes from below a window, or from
\* above a tip no answer can be far ahead of.
Probing ==
    loop.pc = "probe" =>
       \/ BelowWindow
       \/ loop.next > loop.asked /\ \A e \in Endpoints : tip[e] <= loop.asked + MaxSkew

Known(hash, seq) == \E f \in Endpoints : hash = Hash(f, seq)

\* Every hash the loop holds is one that some endpoint serves.
OnChain ==
    /\ loop.pc \in {"boot", "resume"} => loop.expectedPrev = NoHash
    /\ cursor # <<>> => Known(cursor[1].hash, cursor[1].seq)
    /\ loop.pc \in Under /\ loop.expectedPrev # NoHash => Known(loop.expectedPrev, loop.next - 1)
    /\ loop.pc = "commit" => Known(loop.got.hash, loop.next)

RealStop ==
    /\ loop.why = "retention" => BelowWindow
    /\ loop.why = "divergence" =>
          \E e, f \in Endpoints : Hash(e, loop.next - 1) # Hash(f, loop.next - 1)

StopInv == WhyStopped /\ Skewed /\ (epoch = 0 => Probing /\ OnChain /\ RealStop)

\* What a step does to the pool.
LEMMA PoolMoves ==
    ASSUME IInv, [Next]_vars
    PROVE  \/ UNCHANGED <<tip, epoch>>
           \/ /\ UNCHANGED <<epoch, dbVars, loop>>
              /\ \E e \in Endpoints :
                    Close(e) /\ (loop.pc = "probe" => tip[e] + 1 <= loop.asked + MaxSkew)
           \/ NetworkReset /\ epoch' > 0 /\ UNCHANGED <<dbVars, loop>>
<1>1. epoch \in Nat
  BY IInvTypes, PoolAssumption DEF Types, PoolTypeOK
<1>2. CASE NetworkReset
  BY <1>1, <1>2 DEF NetworkReset, Reset, loopVars
<1>3. CASE Closes
  BY <1>3 DEF Closes, Close, loopVars
<1>4. CASE ~NetworkReset /\ ~Closes
  BY <1>4 DEF Next, Work, VerifyNetwork, VerifyNetworkFails, LoadCursorFails, resumeFresh,
     resumeCursor, GetLedger, EmptyPage, WindowError, classifyOutOfRange, markTipReached,
     Commit, CommitLosesAck, CommitFails, Restart, Crash, Outage, Recovery, Fails, Recovers,
     Prefer, poolVars, vars
<1> QED BY <1>2, <1>3, <1>4

\* A closing ledger moves one tip by one, and windows only move up with it.
LEMMA TipsRise ==
    ASSUME IInv, IInv', UNCHANGED tip \/ \E e \in Endpoints : Close(e)
    PROVE  \A e \in Endpoints : /\ tip[e] \in Int /\ tip'[e] \in Int /\ tip[e] <= tip'[e]
                                /\ oldest(e) \in Int /\ oldest(e)' \in Int
                                /\ oldest(e) <= oldest(e)'
<1> SUFFICES ASSUME NEW e \in Endpoints
             PROVE  /\ tip[e] \in Int /\ tip'[e] \in Int /\ tip[e] <= tip'[e]
                    /\ oldest(e) \in Int /\ oldest(e)' \in Int /\ oldest(e) <= oldest(e)'
  OBVIOUS
<1>1. tip \in [Endpoints -> 1..MaxTip] /\ tip' \in [Endpoints -> 1..MaxTip] /\ Window \in Int
  BY IInvTypes, PoolAssumption DEF IInv, TypeOK, PoolTypeOK
<1>2. tip[e] \in Int /\ tip'[e] \in Int /\ tip[e] <= tip'[e]
  BY <1>1 DEF Close
<1>3. \A a \in Int : Max({1, a}) = IF a >= 1 THEN a ELSE 1
  BY MaxOfOneAnd
<1>4. oldest(e) = Max({1, tip[e] - Window + 1}) /\ oldest(e)' = Max({1, tip'[e] - Window + 1})
  BY DEF oldest
<1>5. tip[e] - Window + 1 \in Int /\ tip'[e] - Window + 1 \in Int
  BY <1>1, <1>2
<1> QED BY <1>1, <1>2, <1>3, <1>4, <1>5

LEMMA SkewNext == IInv /\ IInv' /\ Skewed /\ [Next]_vars => Skewed'
<1> SUFFICES ASSUME IInv, IInv', Skewed, [Next]_vars PROVE Skewed'
  OBVIOUS
<1>1. /\ tip \in [Endpoints -> 1..MaxTip] /\ MaxSkew \in Nat /\ MaxTip \in Nat
      /\ 1 \in Endpoints
  BY IInvTypes, PoolAssumption DEF Types, PoolTypeOK, Endpoints
<1>2. CASE UNCHANGED tip
  BY <1>2 DEF Skewed
<1>3. ASSUME NEW e \in Endpoints, Close(e)
      PROVE  Skewed'
  <2> DEFINE T == {tip[f] : f \in Endpoints}
  <2>1. T \in SUBSET Nat /\ T # {}
    BY <1>1
  <2>2. \A f \in Endpoints : tip[f] \in T
    OBVIOUS
  <2>3. Slowest = Min(T)
    BY DEF Slowest
  <2> HIDE DEF T
  <2>4. PICK x \in T : \A y \in T : x <= y
    BY <2>1, LeastTurn
  <2>5. Min(T) \in T /\ \A y \in T : Min(T) <= y
    BY <2>4 DEF Min
  <2>6. \A f \in Endpoints : Slowest \in Int /\ Slowest <= tip[f]
    <3>1. Slowest \in T /\ \A y \in T : Slowest <= y
      BY <2>3, <2>5, Zenon
    <3>2. \A y \in T : y \in Int
      BY <2>1
    <3> QED BY <2>2, <3>1, <3>2, Zenon
  <2>7. tip[e] + 1 <= Slowest + MaxSkew /\ tip' = [tip EXCEPT ![e] = @ + 1]
    BY <1>3 DEF Close
  <2>8. \A f \in Endpoints : /\ tip'[f] = (IF f = e THEN tip[f] + 1 ELSE tip[f])
                             /\ tip[f] \in Int /\ tip[e] + 1 <= tip[f] + MaxSkew
    BY <1>1, <2>6, <2>7
  <2> QED BY <1>1, <2>8 DEF Skewed
<1>4. CASE NetworkReset
  BY <1>1, <1>4 DEF NetworkReset, Reset, Skewed
<1> QED BY <1>2, <1>3, <1>4, PoolMoves

\* A pool without a reset names a ledger the same way in two states.
LEMMA SameHashes ==
    ASSUME UNCHANGED epoch
    PROVE  /\ \A e, s : Hash(e, s)' = Hash(e, s)
           /\ \A h, s : Known(h, s)' <=> Known(h, s)
  BY DEF Hash, Known

LEMMA OnChainNext ==
    ASSUME IInv, OnChain, [Next]_vars, UNCHANGED epoch
    PROVE  OnChain'
<1>1. CASE ~Commit /\ ~CommitLosesAck
  <2>1. /\ cursor' = cursor
        /\ UNCHANGED loop \/ LetsItGo \/ KeepsIt \/ TakesIt \/ GetsIt
    BY <1>1, LoopMoves DEF dbVars
  <2>2. cursor # <<>> => Known(cursor[1].hash, cursor[1].seq)
    BY DEF OnChain
  <2>3. (loop'.pc \in {"boot", "resume"} => loop'.expectedPrev = NoHash)
    <3>1. CASE VerifyNetwork
      BY <3>1, GotoKeeps DEF VerifyNetwork, OnChain
    <3>2. CASE Restart \/ Crash
      BY <3>2 DEF Restart, Crash, Booting
    <3>3. CASE UNCHANGED loop
      BY <3>3 DEF OnChain
    <3>4. CASE KeepsIt \/ TakesIt \/ GetsIt
      BY <3>4 DEF KeepsIt, TakesIt, GetsIt, Under
    <3>5. ASSUME NEW why, Stop(why)
          PROVE  loop'.pc \notin {"boot", "resume"}
      BY <3>5, StopKeeps
    <3>6. LetsItGo => \/ UNCHANGED loop \/ VerifyNetwork \/ Restart \/ Crash
                      \/ \E why : Stop(why)
      <4>1. ASSUME LetsItGo, NEW pc \in {"fetch", "tip"}, Goto(pc)
            PROVE  FALSE
        BY <4>1, GotoKeeps DEF LetsItGo, Under
      <4>2. ASSUME LetsItGo, loop'.pc \in {"fetch", "probe", "commit"}
            PROVE  FALSE
        BY <4>2 DEF LetsItGo, Under
      <4>3. /\ resumeFresh /\ Reached => loop'.pc = "fetch"
            /\ WindowError => loop'.pc = "probe"
        BY IInvTypes DEF resumeFresh, WindowError, Types, Loop
      <4>4. resumeCursor => loop'.pc = "fetch" \/ Stop("reset")
        BY IInvTypes DEF resumeCursor, Types, Loop
      <4>5. GetLedger => loop'.pc = "commit" \/ Stop("divergence")
        BY IInvTypes DEF GetLedger, Types, Loop
      <4> QED
        BY <1>1, <4>1, <4>2, <4>3, <4>4, <4>5 DEF Next, Work, VerifyNetworkFails,
           LoadCursorFails, resumeFresh, EmptyPage, classifyOutOfRange, markTipReached,
           CommitFails, Closes, Outage, Recovery, NetworkReset, loopVars, vars
    <3> QED BY <2>1, <3>1, <3>2, <3>3, <3>4, <3>5, <3>6
  <2>4. loop'.pc \in Under /\ loop'.expectedPrev # NoHash
           => Known(loop'.expectedPrev, loop'.next - 1)
    <3>1. CASE UNCHANGED loop \/ KeepsIt \/ GetsIt
      BY <3>1, SameHashes DEF OnChain, KeepsIt, GetsIt, Under
    <3>2. CASE TakesIt
      <4>1. CASE cursor = <<>>
        BY <3>2, <4>1 DEF TakesIt, OnChain
      <4>2. CASE cursor # <<>>
        <5>1. loop'.next - 1 = cursor[1].seq /\ loop'.expectedPrev = cursor[1].hash
          BY <3>2, <4>2, CursorShape DEF TakesIt, IInv
        <5> QED BY <2>2, <4>2, <5>1
      <4> QED BY <4>1, <4>2
    <3> QED BY <2>1, <3>1, <3>2 DEF LetsItGo
  <2>5. loop'.pc = "commit" => Known(loop'.got.hash, loop'.next)
    <3>1. CASE UNCHANGED loop
      BY <3>1, SameHashes DEF OnChain
    <3>2. CASE GetsIt
      <4>1. Answering \in Endpoints
        BY <3>2, AnsweringIsUp, IInvTypes DEF GetsIt, Types
      <4>2. Known(loop'.got.hash, loop'.next)
        BY <3>2, <4>1 DEF GetsIt, Known
      <4> QED BY <4>2
    <3> QED BY <2>1, <3>1, <3>2 DEF LetsItGo, KeepsIt, TakesIt, Under
  <2> QED BY <2>1, <2>2, <2>3, <2>4, <2>5 DEF OnChain, Known, Hash, Under
<1>2. CASE Commit \/ CommitLosesAck
  <2>1. loop.pc = "commit" /\ CommitLedger /\ loop'.pc = "fetch"
    BY <1>2, GotoKeeps, IInvTypes DEF Commit, CommitLosesAck, Advanced, Types, Loop
  <2>2. Known(loop.got.hash, loop.next) /\ loop.next \in Int
    BY <2>1, AtCommit DEF OnChain
  <2>3. cursor' # <<>> /\ Known(cursor'[1].hash, cursor'[1].seq)
    BY <2>1, <2>2, CursorAfter DEF OnChain
  <2>4. loop'.expectedPrev # NoHash => Known(loop'.expectedPrev, loop'.next - 1)
    <3>1. CASE Commit
      <4>1. loop'.expectedPrev = loop.got.hash /\ loop'.next - 1 = loop.next
        BY <2>2, <3>1, IInvTypes DEF Commit, Advanced, Types, Loop
      <4> QED BY <2>2, <4>1
    <3>2. CASE CommitLosesAck
      BY <2>1, <3>2, GotoKeeps DEF CommitLosesAck, OnChain, Under
    <3> QED BY <1>2, <3>1, <3>2
  <2> QED BY <2>1, <2>3, <2>4, SameHashes DEF OnChain, Known
<1> QED BY <1>1, <1>2

\* A step that is neither a window error nor a stop for one of the two reasons
\* leaves the locals alone or has no reason that could be wrong.
Harmless == loop'.pc # "probe" /\ loop'.why \notin {"retention", "divergence"}

LEMMA Reasons ==
    ASSUME IInv, WhyStopped, [Next]_vars
    PROVE  /\ WhyStopped'
           /\ \/ UNCHANGED loop \/ Harmless \/ WindowError
              \/ EmptyPage /\ Stop("retention") /\ ~(loop.next > tip[Answering])
              \/ classifyOutOfRange /\ Reached /\ Stop("retention")
                 /\ ~BeyondTip(loop.next, tip[Answering])
              \/ GetLedger /\ Stop("divergence")
                 /\ ~Extends(Hash(Answering, loop.next - 1), loop.expectedPrev)
<1> DEFINE Goal == /\ WhyStopped'
                   /\ \/ UNCHANGED loop \/ Harmless \/ WindowError
                      \/ EmptyPage /\ Stop("retention") /\ ~(loop.next > tip[Answering])
                      \/ classifyOutOfRange /\ Reached /\ Stop("retention")
                         /\ ~BeyondTip(loop.next, tip[Answering])
                      \/ GetLedger /\ Stop("divergence")
                         /\ ~Extends(Hash(Answering, loop.next - 1), loop.expectedPrev)
<1>1. \A why : Stop(why) => loop'.pc = "stopped" /\ loop'.why = why
  BY StopKeeps
<1>2. \A pc : Goto(pc) => loop'.pc = pc /\ loop'.why = loop.why
  BY GotoKeeps
<1>3. loop.pc # "stopped" => loop.why = "none"
  BY DEF WhyStopped
<1>4. CASE UNCHANGED loop
  BY <1>4 DEF WhyStopped
<1>5. CASE VerifyNetwork \/ VerifyNetworkFails \/ LoadCursorFails \/ markTipReached \/ CommitFails
           \/ CommitLosesAck
  BY <1>1, <1>2, <1>3, <1>5 DEF VerifyNetwork, VerifyNetworkFails, LoadCursorFails,
     markTipReached, CommitFails, CommitLosesAck, WhyStopped, Harmless
<1>6. CASE Restart \/ Crash
  BY <1>6 DEF Restart, Crash, Booting, WhyStopped, Harmless
<1>7. CASE resumeFresh \/ resumeCursor
  <2>1. \/ loop'.pc = "fetch" /\ loop'.why = loop.why
        \/ Stop("unreachable") \/ Stop("reset")
    BY <1>7, IInvTypes DEF resumeFresh, resumeCursor, Types, Loop
  <2>2. loop.why = "none"
    BY <1>3, <1>7 DEF resumeFresh, resumeCursor
  <2> QED BY <1>1, <2>1, <2>2 DEF WhyStopped, Harmless
<1>8. CASE Commit
  <2>1. loop'.pc = "fetch" /\ loop'.why = loop.why /\ loop.pc = "commit"
    BY <1>8, IInvTypes DEF Commit, Advanced, Types, Loop
  <2> QED BY <1>3, <2>1 DEF WhyStopped, Harmless
<1>9. CASE GetLedger
  <2>1. \/ loop'.pc = "commit" /\ loop'.why = loop.why
        \/ Stop("divergence") /\ ~Extends(Hash(Answering, loop.next - 1), loop.expectedPrev)
    BY <1>9, IInvTypes DEF GetLedger, Types, Loop
  <2>2. loop.why = "none"
    BY <1>3, <1>9 DEF GetLedger
  <2> QED BY <1>1, <1>9, <2>1, <2>2 DEF WhyStopped, Harmless
<1>10. CASE EmptyPage
  <2>1. Goto("tip") \/ (Stop("retention") /\ ~(loop.next > tip[Answering]))
    BY <1>10 DEF EmptyPage
  <2>2. loop.why = "none"
    BY <1>3, <1>10 DEF EmptyPage, OutOfRange
  <2> QED BY <1>1, <1>2, <1>10, <2>1, <2>2 DEF WhyStopped, Harmless
<1>11. CASE WindowError
  <2>1. loop.why = "none" /\ loop'.why = loop.why
    BY <1>3, <1>11, IInvTypes DEF WindowError, OutOfRange, Types, Loop
  <2> QED BY <1>11, <2>1 DEF WhyStopped
<1>12. CASE classifyOutOfRange
  <2>1. \/ Goto("tip") \/ Goto("fetch")
        \/ Reached /\ Stop("retention") /\ ~BeyondTip(loop.next, tip[Answering])
    BY <1>12 DEF classifyOutOfRange
  <2>2. loop.why = "none"
    BY <1>3, <1>12 DEF classifyOutOfRange
  <2> QED BY <1>1, <1>2, <1>12, <2>1, <2>2 DEF WhyStopped, Harmless
<1> HIDE DEF Goal
<1> QED
  BY <1>4, <1>5, <1>6, <1>7, <1>8, <1>9, <1>10, <1>11, <1>12 DEF Goal, Next, Work, Closes,
     Outage, Recovery, NetworkReset, loopVars, vars

\* The windows a step of the pool leaves behind.
LEMMA WindowsRise ==
    ASSUME IInv, IInv', UNCHANGED tip \/ \E e \in Endpoints : Close(e),
           loop'.next = loop.next, BelowWindow
    PROVE  BelowWindow'
<1>1. PICK e \in Endpoints : loop.next < oldest(e)
  BY DEF BelowWindow
<1>2. loop.next \in Int
  BY IInvTypes, PoolAssumption DEF Types, Loop
<1>3. loop'.next < oldest(e)'
  BY <1>1, <1>2, TipsRise
<1> QED BY <1>3 DEF BelowWindow

\* The inductive step.  The slack must make up for the skew: with a larger skew
\* a probe answered by an endpoint far ahead would be taken for retention.
LEMMA StopNext ==
    ASSUME MaxSkew <= tipAmbiguitySlack + 1, IInv, IInv', StopInv, [Next]_vars
    PROVE  StopInv'
<1>1. WhyStopped' /\ Skewed'
  BY Reasons, SkewNext DEF StopInv
<1> SUFFICES ASSUME epoch' = 0
             PROVE  Probing' /\ OnChain' /\ RealStop'
  BY <1>1 DEF StopInv
<1>2. /\ epoch = 0 /\ epoch' = epoch
      /\ UNCHANGED tip \/ \E e \in Endpoints : Close(e)
  BY PoolMoves
<1>3. WhyStopped /\ Skewed /\ Probing /\ OnChain /\ RealStop
  BY <1>2 DEF StopInv
<1>4. OnChain'
  BY <1>2, <1>3, OnChainNext
<1> SUFFICES Probing' /\ RealStop'
  BY <1>4
<1>5. /\ loop.next \in Int /\ loop.asked \in Int /\ MaxSkew \in Int /\ tipAmbiguitySlack \in Int
      /\ up \subseteq Endpoints
      /\ tip \in [Endpoints -> Int]
  BY IInvTypes, PoolAssumption DEF Types, Loop, PoolTypeOK
<1>6. CASE UNCHANGED loop
  <2>1. Probing'
    <3> SUFFICES ASSUME loop.pc = "probe"
                 PROVE  \/ BelowWindow'
                        \/ /\ loop.next > loop.asked
                           /\ \A e \in Endpoints : tip'[e] <= loop.asked + MaxSkew
      BY <1>6 DEF Probing
    <3>1. CASE BelowWindow
      BY <1>2, <1>6, <3>1, WindowsRise
    <3>2. CASE loop.next > loop.asked /\ \A e \in Endpoints : tip[e] <= loop.asked + MaxSkew
      <4>1. \/ UNCHANGED tip
            \/ \E e \in Endpoints : Close(e) /\ tip[e] + 1 <= loop.asked + MaxSkew
        BY <1>2, PoolMoves
      <4> QED BY <1>5, <3>2, <4>1 DEF Close
    <3> QED BY <1>3, <3>1, <3>2 DEF Probing
  <2>2. loop'.why = "retention" => BelowWindow'
    BY <1>2, <1>3, <1>6, WindowsRise DEF RealStop
  <2>3. loop'.why = "divergence" =>
           \E e, f \in Endpoints : Hash(e, loop.next - 1) # Hash(f, loop.next - 1)
    BY <1>3, <1>6 DEF RealStop
  <2> QED BY <1>2, <1>6, <2>1, <2>2, <2>3 DEF RealStop, Hash
<1>7. CASE Harmless
  BY <1>7 DEF Harmless, Probing, RealStop
<1>8. CASE WindowError
  <2>1. /\ loop'.pc = "probe" /\ loop'.next = loop.next /\ loop'.asked = tip[Answering]
        /\ loop'.why = loop.why /\ loop.pc = "fetch" /\ Reached /\ UNCHANGED tip
        /\ loop.next < oldest(Answering) \/ loop.next > tip[Answering]
    BY <1>8, IInvTypes DEF WindowError, OutOfRange, poolVars, Types, Loop
  <2>2. Answering \in Endpoints
    BY <1>5, <2>1, AnsweringIsUp, IInvTypes DEF Types
  <2>3. CASE loop.next < oldest(Answering)
    <3>1. BelowWindow'
      BY <1>2, <2>1, <2>2, <2>3, WindowsRise DEF BelowWindow
    <3> QED BY <1>3, <2>1, <3>1 DEF Probing, RealStop, WhyStopped
  <2>4. CASE loop.next > tip[Answering]
    BY <1>3, <2>1, <2>2, <2>4 DEF Probing, RealStop, WhyStopped, Skewed
  <2> QED BY <2>1, <2>3, <2>4
<1>9. CASE /\ EmptyPage /\ Stop("retention") /\ ~(loop.next > tip[Answering])
  <2>1. Reached /\ loop.next < oldest(Answering)
    BY <1>9 DEF EmptyPage, OutOfRange
  <2>2. Answering \in Endpoints
    BY <1>5, <2>1, AnsweringIsUp, IInvTypes DEF Types
  <2>3. loop'.pc = "stopped" /\ loop'.why = "retention" /\ loop'.next = loop.next
    BY <1>9, StopKeeps
  <2>4. BelowWindow'
    BY <1>2, <2>1, <2>2, <2>3, WindowsRise DEF BelowWindow
  <2> QED BY <2>3, <2>4 DEF Probing, RealStop
<1>10. CASE /\ classifyOutOfRange /\ Reached /\ Stop("retention")
            /\ ~BeyondTip(loop.next, tip[Answering])
  <2>1. Answering \in Endpoints
    BY <1>5, <1>10, AnsweringIsUp, IInvTypes DEF Types
  <2>2. loop'.pc = "stopped" /\ loop'.why = "retention" /\ loop'.next = loop.next
    BY <1>10, StopKeeps
  <2>3. tip[Answering] \in Int /\ loop.next + tipAmbiguitySlack < tip[Answering]
    BY <1>5, <1>10, <2>1 DEF BeyondTip
  <2>4. ~(loop.next > loop.asked /\ tip[Answering] <= loop.asked + MaxSkew)
    BY <1>5, <2>3
  <2>5. BelowWindow
    BY <1>3, <1>10, <2>1, <2>4 DEF Probing, classifyOutOfRange
  <2>6. BelowWindow'
    BY <1>2, <2>2, <2>5, WindowsRise
  <2> QED BY <2>2, <2>6 DEF Probing, RealStop
<1>11. CASE /\ GetLedger /\ Stop("divergence")
            /\ ~Extends(Hash(Answering, loop.next - 1), loop.expectedPrev)
  <2>1. loop.pc = "fetch" /\ Reached
    BY <1>11 DEF GetLedger
  <2>2. Answering \in Endpoints
    BY <1>5, <2>1, AnsweringIsUp, IInvTypes DEF Types
  <2>3. loop'.pc = "stopped" /\ loop'.why = "divergence" /\ loop'.next = loop.next
    BY <1>11, StopKeeps
  <2>4. PICK f \in Endpoints : loop.expectedPrev = Hash(f, loop.next - 1)
    BY <1>3, <1>11, <2>1 DEF OnChain, Known, Extends, Under
  <2>5. Hash(Answering, loop.next - 1) # Hash(f, loop.next - 1)
    BY <1>11, <2>4 DEF Extends
  <2>6. \E e, g \in Endpoints : Hash(e, loop.next - 1) # Hash(g, loop.next - 1)
    BY <2>2, <2>5
  <2> QED BY <1>2, <2>3, <2>6 DEF Probing, RealStop, Hash
<1> QED BY <1>3, <1>6, <1>7, <1>8, <1>9, <1>10, <1>11, Reasons

\* A fatal stop is never a hiccup: a ledger given up for retention is below an
\* endpoint's window and a divergence is a real disagreement, whatever the
\* failovers and however the tips move, provided the slack of the
\* classification is no smaller than the skew between two endpoints, less one.
THEOREM StopsReal ==
    ASSUME MaxSkew <= tipAmbiguitySlack + 1
    PROVE  Spec => []StopsAreReal
<1>1. Init => StopInv
  <2> SUFFICES ASSUME Init PROVE StopInv
    OBVIOUS
  <2>1. \A e, f \in Endpoints : tip[e] <= tip[f] + MaxSkew
    BY PoolAssumption DEF Init, PoolInit
  <2> QED BY <2>1 DEF Init, Booting, StopInv, WhyStopped, Skewed, Probing, OnChain, RealStop, Under
<1>2. IInv /\ StopInv => StopsAreReal
  <2> SUFFICES ASSUME IInv, StopInv, ~(epoch > 0)
               PROVE  RealStop
    BY DEF StopsAreReal, RealStop, BelowWindow
  <2>1. epoch = 0
    BY IInvTypes, PoolAssumption DEF Types, PoolTypeOK
  <2> QED BY <2>1 DEF StopInv
<1>3. IInv /\ IInv' /\ StopInv /\ [Next]_vars => StopInv'
  BY StopNext
<1> QED BY <1>1, <1>2, <1>3, Invariant, PTL DEF Spec

=============================================================================
