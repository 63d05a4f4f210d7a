--------------------------- MODULE RadioQueueProofs ---------------------------
(***************************************************************************)
(* Proofs about RadioQueue, for every number of entries, every number of   *)
(* packets and every size of the driver's command pool.                    *)
(***************************************************************************)
EXTENDS RadioQueue, Sequences, TLAPS

-----------------------------------------------------------------------------
(***************************************************************************)
(* The ring: NextEntry stays in it, and Rank numbers its entries from any  *)
(* starting point.                                                         *)
(***************************************************************************)
LEMMA NextEntryType == \A e \in Entries : NextEntry(e) \in Entries
  BY RadioQueueAssumption DEF Entries, NextEntry

LEMMA FirstEntry == 0 \in Entries
  BY RadioQueueAssumption DEF Entries

LEMMA RankType == \A h, e \in Entries : Rank(h, e) \in 0 .. NumDE - 1
  BY RadioQueueAssumption DEF Entries, Rank

LEMMA RankZero == \A h, e \in Entries : Rank(h, e) = 0 <=> e = h
  BY RadioQueueAssumption DEF Entries, Rank

LEMMA RankInjective ==
  \A h, e, f \in Entries : Rank(h, e) = Rank(h, f) => e = f
  BY RadioQueueAssumption DEF Entries, Rank

\* Moving the start on by one entry brings every other entry nearer and makes
\* the old start the last one.
LEMMA RankOfNextStart ==
  \A h, e \in Entries :
    Rank(NextEntry(h), e) = IF e = h THEN NumDE - 1 ELSE Rank(h, e) - 1
  BY RadioQueueAssumption DEF Entries, Rank, NextEntry

\* The entry after e is one further from the start, unless it is the start.
LEMMA RankOfNextEntry ==
  \A h, e \in Entries :
    IF NextEntry(e) = h THEN Rank(h, e) = NumDE - 1
                        ELSE Rank(h, NextEntry(e)) = Rank(h, e) + 1
  BY RadioQueueAssumption DEF Entries, Rank, NextEntry

-----------------------------------------------------------------------------
LEMMA InitQueueInv == Init => QueueInv
<1> SUFFICES ASSUME Init PROVE QueueInv
  OBVIOUS
<1> USE RadioQueueAssumption DEF Init
<1>1. TypeOK
  BY DEF TypeOK, Entries, Events
<1>2. Front = 0 /\ Occupancy = 0
  BY DEF Front, Occupancy, Entries
<1>3. UnreadIsWindow
  BY <1>2, FirstEntry, RankType DEF UnreadIsWindow
<1>4. ActiveInv /\ WritingInv /\ BoundInv /\ OrderInv /\ TakeInv /\ ResetInv /\ NeverDeaf
  BY DEF ActiveInv, WritingInv, BoundInv, OrderInv, TakeInv, ResetInv,
         NeverDeaf, InTake, Settled
<1> QED
  BY <1>1, <1>3, <1>4 DEF QueueInv

(***************************************************************************)
(* Type correctness is inductive by itself.                                *)
(***************************************************************************)
LEMMA TypeInductive == TypeOK /\ [Next]_vars => TypeOK'
<1> SUFFICES ASSUME TypeOK, [Next]_vars PROVE TypeOK'
  OBVIOUS
<1> USE RadioQueueAssumption, NextEntryType, FirstEntry
        DEF TypeOK, rfVars, driverVars, cbVars, taskVars
<1>1. CASE RF_Begin
  BY <1>1 DEF RF_Begin, Packets
<1>2. CASE RF_Finish
  BY <1>2 DEF RF_Finish
<1>3. CASE RF_FlushCrc
  BY <1>3 DEF RF_FlushCrc
<1>4. CASE RF_BufFull
  <2>1. events' \in SUBSET Events
    BY <1>4 DEF RF_BufFull, Events
  <2>2. posted' \in 0 .. MaxPosted /\ nextPacket' \in 1 .. MaxPacket + 1
    BY <1>4 DEF RF_BufFull, Packets
  <2> QED  BY <1>4, <2>1, <2>2 DEF RF_BufFull
<1>5. CASE Radio_callback
  BY <1>5 DEF Radio_callback
<1>6. CASE RadioQueue_reset_curr
  BY <1>6 DEF RadioQueue_reset_curr
<1>7. CASE RadioQueue_reset_read
  BY <1>7 DEF RadioQueue_reset_read
<1>8. CASE RadioQueue_reset_clear
  BY <1>8 DEF RadioQueue_reset_clear
<1>9. CASE Radio_beginRX
  BY <1>9 DEF Radio_beginRX
<1>10. CASE RadioQueue_hasPacket
  BY <1>10 DEF RadioQueue_hasPacket
<1>11. CASE RadioQueue_copyLo
  BY <1>11 DEF RadioQueue_copyLo, ReadEntryLoads
<1>12. CASE RadioQueue_copyHi
  BY <1>12 DEF RadioQueue_copyHi
<1>13. CASE RadioQueue_nextEntry_release
  BY <1>13 DEF RadioQueue_nextEntry_release, ReadEntryLoads
<1>14. CASE RadioQueue_nextEntry_advance
  BY <1>14 DEF RadioQueue_nextEntry_advance, ReadEntryLoads
<1>15. CASE Ethernet_forward
  BY <1>15 DEF Ethernet_forward
<1>16. CASE UNCHANGED vars
  BY <1>16 DEF vars
<1> QED
  BY <1>1, <1>2, <1>3, <1>4, <1>5, <1>6, <1>7, <1>8, <1>9, <1>10, <1>11,
     <1>12, <1>13, <1>14, <1>15, <1>16 DEF Next, RFcore, Callback, Task

(***************************************************************************)
(* Every variable keeps its type.                                          *)
(***************************************************************************)
THEOREM TypeCorrect == Spec => []TypeOK
<1>1. Init => TypeOK
  BY InitQueueInv DEF QueueInv
<1> QED
  BY <1>1, TypeInductive, PTL DEF Spec

-----------------------------------------------------------------------------
(***************************************************************************)
(* What a step that takes no packet out of the ring and puts none in keeps.*)
(***************************************************************************)
LEMMA WindowFrame ==
  ASSUME UnreadIsWindow, Settled, curr \in Entries,
         Front' = Front, curr' = curr,
         \A e \in Entries : status'[e] = "FINISHED" <=> status[e] = "FINISHED"
  PROVE  UnreadIsWindow'
<1>1. Occupancy' = Occupancy
  BY DEF Occupancy, Rank
<1> QED
  BY <1>1 DEF UnreadIsWindow, Rank

LEMMA OrderFrame ==
  ASSUME OrderInv, Settled,
         Front' = Front, taken' = taken,
         \A e \in Entries : status'[e] = "FINISHED" <=> status[e] = "FINISHED",
         \A e \in Entries : status[e] = "FINISHED" =>
           /\ lo'[e] = lo[e]
           /\ hi'[e] = hi[e]
           /\ rf' = "writing" => lo[e] < lo'[wr']
  PROVE  OrderInv'
<1>1. \A e \in Entries : status'[e] = "FINISHED" =>
        lo'[e] = hi'[e] /\ taken' < lo'[e] /\ (rf' = "writing" => lo'[e] < lo'[wr'])
  BY DEF OrderInv
<1>2. \A e, f \in Entries :
        status'[e] = "FINISHED" /\ status'[f] = "FINISHED"
        /\ Rank(Front', e) < Rank(Front', f) => lo'[e] < lo'[f]
  BY DEF OrderInv
<1> QED
  BY <1>1, <1>2 DEF OrderInv, Rank

-----------------------------------------------------------------------------
(***************************************************************************)
(* The RF core keeps the invariant.                                        *)
(***************************************************************************)
LEMMA BeginKeepsInv == ASSUME QueueInv, TypeOK', RF_Begin PROVE QueueInv'
<1> USE DEF RF_Begin, QueueInv, TypeOK, rfVars, driverVars, cbVars, taskVars
<1>1. \A e \in Entries : status'[e] = "FINISHED" <=> status[e] = "FINISHED"
  OBVIOUS
<1>2. Front' = Front
  BY DEF Front, NextEntry
<1>3. Settled' => Settled
  BY DEF Settled
<1>4. ActiveInv'
  BY DEF ActiveInv
<1>5. WritingInv'
  BY DEF WritingInv, BoundInv
<1>6. BoundInv'
  BY DEF BoundInv
<1>7. UnreadIsWindow'
  <2>1. CASE Settled
    BY <1>1, <1>2, <2>1, WindowFrame
  <2>2. CASE ~Settled
    BY <1>3, <2>2 DEF UnreadIsWindow
  <2> QED  BY <2>1, <2>2
<1>8. OrderInv'
  <2>1. CASE Settled
    <3>1. \A e \in Entries : status[e] = "FINISHED" =>
            lo'[e] = lo[e] /\ hi'[e] = hi[e] /\ lo[e] < lo'[wr']
      BY DEF BoundInv
    <3> QED  BY <1>1, <1>2, <2>1, <3>1, OrderFrame
  <2>2. CASE ~Settled
    BY <1>3, <2>2 DEF OrderInv
  <2> QED  BY <2>1, <2>2
<1>9. TakeInv'
  BY DEF TakeInv, InTake
<1>10. ResetInv' /\ NeverDeaf'
  BY DEF ResetInv, NeverDeaf
<1> QED
  BY <1>4, <1>5, <1>6, <1>7, <1>8, <1>9, <1>10

\* A finished packet goes to the end of the unread packets and makes them one more.
LEMMA FinishOccupancy ==
  ASSUME QueueInv, Settled, RF_Finish
  PROVE  /\ wr = curr /\ status[curr] = "ACTIVE" /\ lo[curr] = nextPacket - 1
         /\ Occupancy = Rank(Front, curr)
         /\ Occupancy' = Occupancy + 1
<1> USE DEF RF_Finish, QueueInv, TypeOK, rfVars, driverVars, cbVars, taskVars
<1>1. Front' = Front
  BY DEF Front, NextEntry
<1>2. wr = curr /\ status[curr] = "ACTIVE" /\ lo[curr] = nextPacket - 1
  BY DEF WritingInv
<1>3. Front \in Entries
  BY NextEntryType DEF Front
<1>4. Occupancy = Rank(Front, curr)
  BY <1>2, <1>3, RankZero DEF Occupancy
<1>5. CASE NextEntry(curr) = Front
  <2>1. Occupancy = NumDE - 1
    BY <1>3, <1>4, <1>5, RankOfNextEntry
  <2>2. Front = curr \/ status[Front] = "FINISHED"
    BY <1>3, <1>4, RankZero, RankType DEF UnreadIsWindow
  <2>3. curr' = Front' /\ status'[curr'] = "FINISHED"
    BY <1>1, <1>2, <1>3, <1>5, <2>2
  <2>4. Occupancy' = NumDE
    BY <2>3 DEF Occupancy
  <2> QED  BY <1>2, <1>4, <2>1, <2>4, RadioQueueAssumption
<1>6. CASE NextEntry(curr) # Front
  <2>1. Rank(Front, NextEntry(curr)) = Rank(Front, curr) + 1
    BY <1>3, <1>6, RankOfNextEntry
  <2>2. Occupancy' = Rank(Front, NextEntry(curr))
    BY <1>1, <1>2, <1>6 DEF Occupancy, Rank
  <2> QED  BY <1>2, <1>4, <2>1, <2>2
<1> QED
  BY <1>5, <1>6

LEMMA FinishKeepsInv == ASSUME QueueInv, TypeOK', RF_Finish PROVE QueueInv'
<1> USE DEF RF_Finish, QueueInv, TypeOK, rfVars, driverVars, cbVars, taskVars
<1>1. Front' = Front
  BY DEF Front, NextEntry
<1>2. ActiveInv'
  BY DEF ActiveInv
<1>3. WritingInv'
  BY DEF WritingInv
<1>4. BoundInv'
  BY DEF BoundInv
<1>5. ResetInv' /\ NeverDeaf'
  BY DEF ResetInv, NeverDeaf
<1>6. TakeInv'
  BY DEF TakeInv, InTake, WritingInv, Settled
<1>7. UnreadIsWindow' /\ OrderInv'
  <2>1. CASE ~Settled
    BY <2>1 DEF UnreadIsWindow, OrderInv, Settled
  <2>2. CASE Settled
    <3>1. wr = curr /\ status[curr] = "ACTIVE" /\ lo[curr] = nextPacket - 1
      BY <2>2, FinishOccupancy
    <3>2. Front \in Entries
      BY NextEntryType DEF Front
    <3>3. Occupancy = Rank(Front, curr)
      BY <2>2, FinishOccupancy
    <3>4. Occupancy' = Occupancy + 1
      BY <2>2, FinishOccupancy
    <3>5. \A e \in Entries : status'[e] = "FINISHED"
                               <=> status[e] = "FINISHED" \/ e = curr
      BY <3>1
    <3>6. \A e \in Entries : status[e] = "FINISHED" => Rank(Front, e) < Rank(Front, curr)
      BY <2>2, <3>3 DEF UnreadIsWindow
    <3>7. UnreadIsWindow'
      <4> SUFFICES ASSUME NEW e \in Entries
                   PROVE  status'[e] = "FINISHED" <=> Rank(Front, e) < Occupancy'
        BY <1>1 DEF UnreadIsWindow, Rank
      <4>1. status[e] = "FINISHED" <=> Rank(Front, e) < Rank(Front, curr)
        BY <2>2, <3>3 DEF UnreadIsWindow
      <4>2. e = curr <=> Rank(Front, e) = Rank(Front, curr)
        BY <3>2, RankInjective
      <4>3. Rank(Front, e) \in Int /\ Rank(Front, curr) \in Int
        BY <3>2, RankType
      <4> QED  BY <3>3, <3>4, <3>5, <4>1, <4>2, <4>3
    <3>8. OrderInv'
      <4>1. \A e \in Entries : status[e] = "FINISHED" => e # curr /\ lo[e] < lo[curr]
        BY <2>2, <3>1 DEF OrderInv
      <4>2. taken < lo[curr]
        BY <2>2, <3>1 DEF WritingInv
      <4>3. \A e \in Entries : status'[e] = "FINISHED" =>
              lo'[e] = hi'[e] /\ taken' < lo'[e]
        BY <2>2, <3>1, <3>5, <4>2 DEF OrderInv
      <4>4. ASSUME NEW e \in Entries, NEW f \in Entries,
                   status'[e] = "FINISHED", status'[f] = "FINISHED",
                   Rank(Front, e) < Rank(Front, f)
            PROVE  lo[e] < lo[f]
        <5>1. e # curr
          BY <3>2, <3>5, <3>6, <4>4, RankType
        <5>2. status[e] = "FINISHED" /\ (f = curr \/ status[f] = "FINISHED")
          BY <3>5, <4>4, <5>1
        <5> QED  BY <2>2, <4>1, <4>4, <5>2 DEF OrderInv
      <4>5. \A e, f \in Entries :
              status'[e] = "FINISHED" /\ status'[f] = "FINISHED"
              /\ Rank(Front', e) < Rank(Front', f) => lo'[e] < lo'[f]
        BY <1>1, <4>4
      <4> QED  BY <4>3, <4>5 DEF OrderInv, Rank
    <3> QED  BY <3>7, <3>8
  <2> QED  BY <2>1, <2>2
<1> QED
  BY <1>2, <1>3, <1>4, <1>5, <1>6, <1>7

LEMMA FlushCrcKeepsInv == ASSUME QueueInv, TypeOK', RF_FlushCrc PROVE QueueInv'
<1> USE DEF RF_FlushCrc, QueueInv, TypeOK, rfVars, driverVars, cbVars, taskVars
<1>1. Front' = Front /\ (Settled' <=> Settled)
  BY DEF Front, NextEntry, Settled
<1>2. ActiveInv' /\ WritingInv' /\ BoundInv' /\ ResetInv' /\ NeverDeaf'
  BY DEF ActiveInv, WritingInv, BoundInv, ResetInv, NeverDeaf, InTake
<1>3. TakeInv'
  BY DEF TakeInv, InTake, WritingInv, Settled
<1>4. UnreadIsWindow' /\ OrderInv'
  <2>1. CASE ~Settled
    BY <1>1, <2>1 DEF UnreadIsWindow, OrderInv
  <2>2. CASE Settled
    <3>1. \A e \in Entries : status'[e] = "FINISHED" <=> status[e] = "FINISHED"
      BY <2>2 DEF WritingInv
    <3> QED  BY <1>1, <2>2, <3>1, WindowFrame, OrderFrame
  <2> QED  BY <2>1, <2>2
<1> QED
  BY <1>2, <1>3, <1>4

LEMMA BufFullKeepsInv == ASSUME QueueInv, TypeOK', RF_BufFull PROVE QueueInv'
<1> USE DEF RF_BufFull, QueueInv, TypeOK, rfVars, driverVars, cbVars, taskVars
<1>1. Front' = Front /\ (Settled' <=> Settled)
  BY DEF Front, NextEntry, Settled
<1>2. ActiveInv' /\ WritingInv' /\ BoundInv' /\ TakeInv' /\ ResetInv'
  BY DEF ActiveInv, WritingInv, BoundInv, TakeInv, ResetInv, InTake
<1>3. NeverDeaf'
  BY DEF NeverDeaf
<1>4. UnreadIsWindow' /\ OrderInv'
  <2>1. CASE ~Settled
    BY <1>1, <2>1 DEF UnreadIsWindow, OrderInv
  <2>2. CASE Settled
    BY <1>1, <2>2, WindowFrame, OrderFrame
  <2> QED  BY <2>1, <2>2
<1> QED
  BY <1>2, <1>3, <1>4

-----------------------------------------------------------------------------
(***************************************************************************)
(* Radio_callback keeps the invariant.  While it runs the ring is not      *)
(* settled; when it ends without having met anything the ring is empty.    *)
(***************************************************************************)
LEMMA CallbackKeepsInv ==
  ASSUME QueueInv, TypeOK',
         \/ Radio_callback \/ RadioQueue_reset_curr \/ RadioQueue_reset_read
         \/ RadioQueue_reset_clear
  PROVE  QueueInv'
<1> USE RadioQueueAssumption
        DEF QueueInv, TypeOK, rfVars, driverVars, cbVars, taskVars
<1>1. ~Settled'
  BY DEF Settled, Radio_callback, RadioQueue_reset_curr, RadioQueue_reset_read,
         RadioQueue_reset_clear
<1>2. WritingInv' /\ UnreadIsWindow' /\ OrderInv'
  BY <1>1 DEF WritingInv, UnreadIsWindow, OrderInv
<1>3. CASE Radio_callback
  BY <1>2, <1>3 DEF Radio_callback, ActiveInv, BoundInv, TakeInv, ResetInv,
                    NeverDeaf, InTake
<1>4. CASE RadioQueue_reset_curr
  BY <1>2, <1>4 DEF RadioQueue_reset_curr, ActiveInv, BoundInv, TakeInv, ResetInv,
                    NeverDeaf, InTake
<1>5. CASE RadioQueue_reset_read
  BY <1>2, <1>5 DEF RadioQueue_reset_read, ActiveInv, BoundInv, TakeInv, ResetInv,
                    NeverDeaf, InTake, Entries
<1>6. CASE RadioQueue_reset_clear
  <2> USE <1>6 DEF RadioQueue_reset_clear
  <2>1. ActiveInv' /\ BoundInv' /\ TakeInv' /\ NeverDeaf'
    BY DEF ActiveInv, BoundInv, TakeInv, NeverDeaf, InTake, ResetInv
  <2>2. ResetInv'
    <3>1. \A e \in Entries : e < k => status'[e] = status[e]
      BY DEF Entries
    <3>2. status'[k] = "PENDING"
      OBVIOUS
    <3>3. CASE k = NumDE - 1
      BY <3>1, <3>2, <3>3 DEF ResetInv, InTake, Entries
    <3>4. CASE k # NumDE - 1
      BY <3>1, <3>2, <3>4 DEF ResetInv, InTake, Entries, NextEntry
    <3> QED  BY <3>3, <3>4
  <2> QED  BY <1>2, <2>1, <2>2
<1> QED
  BY <1>3, <1>4, <1>5, <1>6

LEMMA BeginRXKeepsInv == ASSUME QueueInv, TypeOK', Radio_beginRX PROVE QueueInv'
<1> USE DEF Radio_beginRX, QueueInv, TypeOK, rfVars, driverVars, cbVars, taskVars
<1>1. ActiveInv' /\ BoundInv' /\ ResetInv'
  BY DEF ActiveInv, BoundInv, ResetInv
<1>2. NeverDeaf'
  BY RadioQueueAssumption DEF NeverDeaf
<1>3. ASSUME clean
      PROVE  /\ ~InTake /\ rf = "idle" /\ curr = 0 /\ read = 0
             /\ \A e \in Entries : status[e] = "PENDING"
  BY <1>3 DEF ResetInv
<1>4. WritingInv' /\ TakeInv' /\ OrderInv'
  BY <1>3 DEF WritingInv, TakeInv, OrderInv, Settled, InTake
<1>5. UnreadIsWindow'
  <2> SUFFICES ASSUME clean PROVE UnreadIsWindow'
    BY DEF UnreadIsWindow, Settled
  <2>1. Front' = 0
    BY <1>3 DEF Front, InTake
  <2>2. Occupancy' = 0
    BY <1>3, <2>1 DEF Occupancy
  <2>3. \A e \in Entries : Rank(0, e) \in Nat
    BY FirstEntry, RankType
  <2>4. \A e \in Entries : ~(Rank(0, e) < 0)
    BY <2>3
  <2> QED  BY <1>3, <2>1, <2>2, <2>4 DEF UnreadIsWindow, Rank
<1> QED
  BY <1>1, <1>2, <1>4, <1>5

-----------------------------------------------------------------------------
(***************************************************************************)
(* The Ethernet task keeps the invariant.  Only releasing an entry and     *)
(* moving on touch the ring.                                               *)
(***************************************************************************)
LEMMA CopyKeepsInv ==
  ASSUME QueueInv, TypeOK',
         \/ RadioQueue_hasPacket \/ RadioQueue_copyLo \/ RadioQueue_copyHi
         \/ Ethernet_forward
  PROVE  QueueInv'
<1> USE DEF QueueInv, TypeOK, rfVars, driverVars, cbVars, taskVars,
            RadioQueue_hasPacket, RadioQueue_copyLo, RadioQueue_copyHi,
            Ethernet_forward, ReadEntryLoads
<1>1. Front' = Front /\ (Settled' <=> Settled)
  BY DEF Front, NextEntry, Settled
<1>2. UNCHANGED <<status, lo, hi, curr, read, rfVars, driverVars, cbVars, taken, clean>>
  OBVIOUS
<1>3. ActiveInv' /\ WritingInv' /\ ResetInv' /\ NeverDeaf'
  BY <1>1, <1>2 DEF ActiveInv, WritingInv, ResetInv, NeverDeaf, InTake
<1>4. BoundInv'
  BY DEF BoundInv
<1>5. TakeInv'
  BY DEF TakeInv, InTake
<1>6. UnreadIsWindow' /\ OrderInv'
  <2>1. CASE ~Settled
    BY <1>1, <2>1 DEF UnreadIsWindow, OrderInv
  <2>2. CASE Settled
    <3>1. UnreadIsWindow'
      BY <1>1, <1>2, <2>2, WindowFrame
    <3>2. \A e \in Entries : status[e] = "FINISHED" =>
            lo'[e] = lo[e] /\ hi'[e] = hi[e] /\ (rf' = "writing" => lo[e] < lo'[wr'])
      BY <1>2, <2>2 DEF OrderInv
    <3>3. OrderInv'
      BY <1>1, <1>2, <2>2, <3>2, OrderFrame
    <3> QED  BY <3>1, <3>3
  <2> QED  BY <2>1, <2>2
<1> QED
  BY <1>3, <1>4, <1>5, <1>6

\* Releasing an entry takes the first of the unread packets away.
LEMMA ReleaseOccupancy ==
  ASSUME QueueInv, clean, RadioQueue_nextEntry_release
  PROVE  /\ Settled /\ held = read /\ status[read] = "FINISHED" /\ bufLo = lo[read]
         /\ status' = [status EXCEPT ![read] = "PENDING"]
         /\ Front = read /\ Front' = NextEntry(read)
         /\ Occupancy \in 1 .. NumDE
         /\ Occupancy' = Occupancy - 1
<1> USE DEF RadioQueue_nextEntry_release, ReadEntryLoads, QueueInv, TypeOK, rfVars,
            driverVars, cbVars, taskVars
<1>1. Settled /\ held = read /\ status[read] = "FINISHED" /\ bufLo = lo[read]
  BY DEF TakeInv, InTake, Settled
<1>2. status' = [status EXCEPT ![read] = "PENDING"]
  BY <1>1
<1>3. Front = read /\ Front' = NextEntry(read)
  BY DEF Front, NextEntry
<1>4. \A e \in Entries : status'[e] = "FINISHED" <=> status[e] = "FINISHED" /\ e # read
  BY <1>2
<1>5. Occupancy \in 1 .. NumDE
  BY <1>1, <1>3, RankType, RankZero, RadioQueueAssumption DEF Occupancy
<1>6. CASE NextEntry(read) = curr
  <2>1. status'[curr] # "FINISHED"
    <3>1. CASE curr = read  BY <1>4, <3>1
    <3>2. CASE curr # read
      <4>1. Occupancy = Rank(read, curr)
        BY <1>3, <3>2 DEF Occupancy
      <4> QED  BY <1>1, <1>3, <1>4, <4>1, RankType DEF UnreadIsWindow
    <3> QED  BY <3>1, <3>2
  <2>2. Occupancy' = 0
    BY <1>3, <1>6, <2>1 DEF Occupancy
  <2>3. Occupancy = 1
    <3>1. CASE curr = read
      BY <1>1, <1>3, <1>6, <3>1, RadioQueueAssumption DEF Occupancy, NextEntry, Entries
    <3>2. CASE curr # read
      BY <1>3, <1>6, <3>2, RankOfNextEntry, RankZero DEF Occupancy
    <3> QED  BY <3>1, <3>2
  <2>4. Occupancy' = Occupancy - 1
    BY <2>2, <2>3
  <2> QED  BY <1>1, <1>2, <1>3, <1>5, <2>4
<1>7. CASE NextEntry(read) # curr
  <2>1. Occupancy' = Rank(NextEntry(read), curr)
    BY <1>3, <1>7 DEF Occupancy, Rank
  <2>2. CASE curr = read
    BY <1>1, <1>2, <1>3, <1>5, <2>1, <2>2, RankOfNextStart DEF Occupancy
  <2>3. CASE curr # read
    BY <1>1, <1>2, <1>3, <1>5, <2>1, <2>3, RankOfNextStart DEF Occupancy
  <2> QED  BY <2>2, <2>3
<1> QED
  BY <1>6, <1>7

LEMMA ReleaseKeepsInv ==
  ASSUME QueueInv, TypeOK', RadioQueue_nextEntry_release PROVE QueueInv'
<1> USE DEF RadioQueue_nextEntry_release, ReadEntryLoads, QueueInv, TypeOK, rfVars,
            driverVars, cbVars, taskVars
<1>1. ActiveInv' /\ BoundInv' /\ ResetInv' /\ NeverDeaf'
  BY DEF ActiveInv, BoundInv, ResetInv, NeverDeaf
<1>2. TakeInv'
  BY DEF TakeInv, InTake
<1>3. CASE ~clean
  BY <1>1, <1>2, <1>3 DEF WritingInv, UnreadIsWindow, OrderInv, Settled
<1>4. CASE clean
  <2>1. Settled /\ held = read /\ status[read] = "FINISHED" /\ bufLo = lo[read]
    BY <1>4 DEF TakeInv, InTake, Settled
  <2>2. status' = [status EXCEPT ![read] = "PENDING"]
    BY <2>1
  <2>3. Front = read /\ Front' = NextEntry(read)
    BY DEF Front, NextEntry
  <2>4. \A e \in Entries : status'[e] = "FINISHED"
                             <=> status[e] = "FINISHED" /\ e # read
    BY <2>2
  <2>5. WritingInv'
    BY <2>1, <2>2 DEF WritingInv, OrderInv, Settled
  <2>6. Occupancy \in 1 .. NumDE
    BY <1>4, ReleaseOccupancy
  <2>7. Occupancy' = Occupancy - 1
    BY <1>4, ReleaseOccupancy
  <2>8. UnreadIsWindow'
    <3> SUFFICES ASSUME NEW e \in Entries
                 PROVE  status'[e] = "FINISHED"
                          <=> Rank(NextEntry(read), e) < Occupancy'
      BY <2>3 DEF UnreadIsWindow, Rank
    <3>1. status[e] = "FINISHED" <=> Rank(read, e) < Occupancy
      BY <2>1, <2>3 DEF UnreadIsWindow
    <3>2. Rank(read, e) \in Int
      BY RankType
    <3>3. CASE e = read
      BY <2>4, <2>6, <2>7, <3>3, RankOfNextStart, RadioQueueAssumption
    <3>4. CASE e # read
      <4>1. Rank(NextEntry(read), e) = Rank(read, e) - 1
        BY <3>4, RankOfNextStart
      <4>2. Occupancy \in Int
        BY <2>6, RadioQueueAssumption
      <4> QED  BY <2>4, <2>7, <3>1, <3>2, <3>4, <4>1, <4>2
    <3> QED  BY <3>3, <3>4
  <2>9. OrderInv'
    <3>1. \A e \in Entries : status'[e] = "FINISHED" => lo[read] < lo[e]
      <4> SUFFICES ASSUME NEW e \in Entries, status[e] = "FINISHED", e # read
                   PROVE  lo[read] < lo[e]
        BY <2>4
      <4>1. Rank(read, read) < Rank(read, e)
        BY RankType, RankZero
      <4> QED  BY <2>1, <2>3, <4>1 DEF OrderInv
    <3>2. \A e \in Entries : status'[e] = "FINISHED" =>
            lo'[e] = hi'[e] /\ taken' < lo'[e] /\ (rf' = "writing" => lo'[e] < lo'[wr'])
      BY <2>1, <2>4, <3>1 DEF OrderInv
    <3>3. ASSUME NEW e \in Entries, NEW f \in Entries,
                 status'[e] = "FINISHED", status'[f] = "FINISHED",
                 Rank(NextEntry(read), e) < Rank(NextEntry(read), f)
          PROVE  lo[e] < lo[f]
      <4>1. Rank(read, e) < Rank(read, f)
        BY <2>4, <3>3, RankOfNextStart, RankType
      <4> QED  BY <2>1, <2>3, <2>4, <3>3, <4>1 DEF OrderInv
    <3>4. \A e, f \in Entries :
            status'[e] = "FINISHED" /\ status'[f] = "FINISHED"
            /\ Rank(Front', e) < Rank(Front', f) => lo'[e] < lo'[f]
      BY <2>3, <3>3
    <3> QED  BY <3>2, <3>4 DEF OrderInv, Rank
  <2> QED  BY <1>1, <1>2, <2>5, <2>8, <2>9
<1> QED
  BY <1>3, <1>4

LEMMA AdvanceKeepsInv ==
  ASSUME QueueInv, TypeOK', RadioQueue_nextEntry_advance PROVE QueueInv'
<1> USE DEF RadioQueue_nextEntry_advance, ReadEntryLoads, QueueInv, TypeOK, rfVars,
            driverVars, cbVars, taskVars
<1>1. ActiveInv' /\ WritingInv' /\ BoundInv' /\ ResetInv' /\ NeverDeaf' /\ TakeInv'
  BY DEF ActiveInv, WritingInv, BoundInv, ResetInv, NeverDeaf, TakeInv, InTake, Settled
<1>2. CASE ~clean
  BY <1>1, <1>2 DEF UnreadIsWindow, OrderInv, Settled
<1>3. CASE clean
  <2>1. Settled /\ Front' = Front
    BY <1>3 DEF TakeInv, InTake, Settled, Front, NextEntry
  <2>2. UnreadIsWindow'
    BY <2>1, WindowFrame
  <2>3. \A e \in Entries : status[e] = "FINISHED" =>
          lo'[e] = lo[e] /\ hi'[e] = hi[e] /\ (rf' = "writing" => lo[e] < lo'[wr'])
    BY <2>1 DEF OrderInv
  <2>4. OrderInv'
    BY <2>1, <2>3, OrderFrame
  <2> QED  BY <1>1, <2>2, <2>4
<1> QED
  BY <1>2, <1>3

-----------------------------------------------------------------------------
LEMMA StutterKeepsInv == ASSUME QueueInv, UNCHANGED vars PROVE QueueInv'
  BY DEF QueueInv, TypeOK, ActiveInv, WritingInv, BoundInv, UnreadIsWindow, OrderInv,
         TakeInv, ResetInv, NeverDeaf, InTake, Settled, Front, Occupancy, Rank,
         NextEntry, vars, rfVars, driverVars, cbVars, taskVars

LEMMA QueueInvInductive == QueueInv /\ [Next]_vars => QueueInv'
<1> SUFFICES ASSUME QueueInv, [Next]_vars PROVE QueueInv'
  OBVIOUS
<1>1. TypeOK'
  BY TypeInductive DEF QueueInv
<1>2. CASE RFcore
  BY <1>1, <1>2, BeginKeepsInv, FinishKeepsInv, FlushCrcKeepsInv, BufFullKeepsInv
     DEF RFcore
<1>3. CASE Callback
  BY <1>1, <1>3, CallbackKeepsInv, BeginRXKeepsInv DEF Callback
<1>4. CASE Task
  BY <1>1, <1>4, CopyKeepsInv, ReleaseKeepsInv, AdvanceKeepsInv DEF Task
<1>5. CASE UNCHANGED vars
  BY <1>5, StutterKeepsInv
<1> QED
  BY <1>2, <1>3, <1>4, <1>5 DEF Next

(***************************************************************************)
(* The inductive invariant of the receive queue holds in every state.      *)
(***************************************************************************)
THEOREM QueueInvariant == Spec => []QueueInv
  BY InitQueueInv, QueueInvInductive, PTL DEF Spec

(***************************************************************************)
(* The entries that hold an unread packet are exactly those between the    *)
(* task's pointer and the RF core's, unless a reset has met a take or a    *)
(* reception.                                                              *)
(***************************************************************************)
THEOREM UnreadIsWindowAlways == Spec => []UnreadIsWindow
<1>1. QueueInv => UnreadIsWindow
  BY DEF QueueInv
<1> QED
  BY <1>1, QueueInvariant, PTL

(***************************************************************************)
(* Packets are taken whole, once and in the order they were received.      *)
(***************************************************************************)
THEOREM TakesWholeInOrderAlways == Spec => []TakesWholeInOrder
<1>1. QueueInv => TakesWholeInOrder
  BY DEF QueueInv, TakesWholeInOrder, TakeInv, OrderInv, TypeOK, InTake, Settled
<1> QED
  BY <1>1, QueueInvariant, PTL

(***************************************************************************)
(* There is always an RX command posted, or an event or a running callback *)
(* that will post one.                                                     *)
(***************************************************************************)
THEOREM NeverDeafAlways == Spec => []NeverDeaf
<1>1. QueueInv => NeverDeaf
  BY DEF QueueInv
<1> QED
  BY <1>1, QueueInvariant, PTL

(***************************************************************************)
(* No step of a settled ring frees an entry whose packet is not in the     *)
(* task's buffer.                                                          *)
(***************************************************************************)
THEOREM FreesOnlyCopiedAlways == Spec => FreesOnlyCopied
<1> DEFINE Freed == \A e \in Entries :
             Settled /\ status[e] = "FINISHED" /\ status'[e] # "FINISHED"
               => bufLo = lo[e] /\ bufHi = hi[e]
<1>1. QueueInv /\ [Next]_vars => [Freed]_vars
  <2> SUFFICES ASSUME QueueInv, Next, NEW e \in Entries,
                      Settled, status[e] = "FINISHED", status'[e] # "FINISHED"
               PROVE  bufLo = lo[e] /\ bufHi = hi[e]
    OBVIOUS
  <2> USE DEF QueueInv, TypeOK, Settled
  <2>1. CASE RFcore
    BY <2>1 DEF RFcore, RF_Begin, RF_Finish, RF_FlushCrc, RF_BufFull, WritingInv
  <2>2. CASE Callback
    BY <2>2 DEF Callback, Radio_callback, RadioQueue_reset_curr,
                RadioQueue_reset_read, RadioQueue_reset_clear, Radio_beginRX
  <2>3. CASE Task
    BY <2>3 DEF Task, RadioQueue_hasPacket, RadioQueue_copyLo, RadioQueue_copyHi,
                RadioQueue_nextEntry_release, RadioQueue_nextEntry_advance,
                Ethernet_forward, ReadEntryLoads, TakeInv, InTake
  <2> QED
    BY <2>1, <2>2, <2>3 DEF Next
<1> QED
  BY <1>1, QueueInvariant, PTL DEF Spec, FreesOnlyCopied

-----------------------------------------------------------------------------
(***************************************************************************)
(* RadioQueue implements FrameBuffer: seen from the Ethernet task the ring *)
(* of data entries is a FIFO of whole packets, for every number of entries *)
(* and packets.  Each step maps to a step of the FIFO or to none:          *)
(*   RF_Finish                     Receive                                 *)
(*   RadioQueue_nextEntry_release  Take, or TakeUnspecified when not clean *)
(*   Radio_callback                Reset                                   *)
(*   RF_Begin inside a reset       Reset, to a buffer that is not intact   *)
(***************************************************************************)

(***************************************************************************)
(* EntryAt is the inverse of Rank.                                         *)
(***************************************************************************)
LEMMA EntryAtType ==
  \A h \in Entries, i \in 0 .. NumDE - 1 :
    EntryAt(h, i) \in Entries /\ Rank(h, EntryAt(h, i)) = i
  BY RadioQueueAssumption DEF Entries, EntryAt, Rank

LEMMA EntryAtRank ==
  \A h, e \in Entries : EntryAt(h, Rank(h, e)) = e
  BY RadioQueueAssumption DEF Entries, EntryAt, Rank

\* The start moves on by one entry.
LEMMA EntryAtNextStart ==
  \A h \in Entries, i \in 0 .. NumDE - 2 :
    EntryAt(NextEntry(h), i) = EntryAt(h, i + 1)
  BY RadioQueueAssumption DEF Entries, EntryAt, NextEntry

\* The pointers and the number of unread packets are in range.
LEMMA FrontAndOccupancy ==
  ASSUME TypeOK
  PROVE  Front \in Entries /\ Occupancy \in 0 .. NumDE
<1>1. Front \in Entries
  BY NextEntryType DEF Front, TypeOK
<1> QED
  BY <1>1, RankType, RadioQueueAssumption DEF Occupancy, TypeOK

-----------------------------------------------------------------------------
(***************************************************************************)
(* What the FIFO does not see.                                             *)
(***************************************************************************)
LEMMA UnreadFrame ==
  ASSUME QueueInv,
         Settled' <=> Settled,
         UNCHANGED <<hi, curr, taken, clean>>,
         Settled => /\ Front' = Front
                    /\ \A e \in Entries : status'[e] = "FINISHED" <=> status[e] = "FINISHED"
  PROVE  UNCHANGED FB!fbVars
<1>1. CASE ~Settled
  BY <1>1 DEF Unread, FB!fbVars
<1>2. CASE Settled
  <2>1. curr \in Entries
    BY DEF QueueInv, TypeOK
  <2>2. Occupancy' = Occupancy
    BY <1>2, <2>1 DEF Occupancy, Rank
  <2>3. Unread' = Unread
    BY <1>2, <2>2 DEF Unread, EntryAt
  <2> QED  BY <2>3 DEF FB!fbVars
<1> QED
  BY <1>1, <1>2

-----------------------------------------------------------------------------
LEMMA BeginImplements ==
  ASSUME QueueInv, RF_Begin
  PROVE  [FB!FBNext]_FB!fbVars
<1> USE DEF RF_Begin, rfVars, driverVars, cbVars, taskVars
<1>1. CASE cb # "idle"
  <2>1. Unread' = <<>> /\ clean' = FALSE /\ taken' = taken
    BY <1>1 DEF Unread, Settled
  <2> QED  BY <2>1 DEF FB!FBNext, FB!Reset
<1>2. CASE cb = "idle"
  <2>1. Settled' <=> Settled
    BY <1>2 DEF Settled
  <2>2. clean' = clean
    BY <1>2 DEF QueueInv, TypeOK
  <2>3. \A e \in Entries : status'[e] = "FINISHED" <=> status[e] = "FINISHED"
    BY DEF QueueInv, TypeOK
  <2>4. Front' = Front
    BY DEF Front, NextEntry
  <2> QED  BY <2>1, <2>2, <2>3, <2>4, UnreadFrame
<1> QED
  BY <1>1, <1>2

\* The packet that has come in is newer than everything before it and goes to the end.
LEMMA FinishImplements ==
  ASSUME QueueInv, RF_Finish
  PROVE  [FB!FBNext]_FB!fbVars
<1> USE DEF RF_Finish, rfVars, driverVars, cbVars, taskVars
<1>1. CASE ~Settled
  <2>1. Settled' <=> Settled
    BY DEF Settled
  <2>2. Unread' = Unread /\ taken' = taken /\ clean' = clean
    BY <1>1, <2>1 DEF Unread
  <2> QED  BY <2>2 DEF FB!fbVars
<1>2. CASE Settled
  <2> DEFINE p == lo[curr]
             n == Occupancy
  <2>1. /\ wr = curr /\ status[curr] = "ACTIVE" /\ p = nextPacket - 1
        /\ n = Rank(Front, curr) /\ Occupancy' = n + 1
    BY <1>2, FinishOccupancy
  <2>2. /\ Settled' /\ Front' = Front /\ Front \in Entries /\ curr \in Entries
        /\ n \in 0 .. NumDE - 1 /\ clean /\ clean' = clean /\ taken' = taken
    BY <1>2, <2>1, FrontAndOccupancy, RankType
       DEF Settled, Front, NextEntry, QueueInv, TypeOK
  <2>3. hi' = [hi EXCEPT ![curr] = p] /\ hi \in [Entries -> Nat]
    BY <2>1 DEF QueueInv, TypeOK
  <2>4. p \in Packets /\ p > taken
    <3>1. taken < p /\ taken \in Nat /\ nextPacket \in 1 .. MaxPacket + 1
      BY <1>2, <2>1 DEF QueueInv, WritingInv, TypeOK
    <3> QED  BY <2>1, <3>1, RadioQueueAssumption DEF Packets
  <2> DEFINE at(i) == EntryAt(Front, i - 1)
  <2>5. ASSUME NEW i \in 1 .. n
        PROVE  /\ at(i) \in Entries /\ at(i) # curr
               /\ hi[at(i)] < p /\ hi'[at(i)] = hi[at(i)]
    <3>1. i - 1 \in 0 .. NumDE - 1 /\ i - 1 < n
      BY <2>2, RadioQueueAssumption
    <3>2. at(i) \in Entries /\ Rank(Front, at(i)) = i - 1
      BY <2>2, <3>1, EntryAtType
    <3>3. status[at(i)] = "FINISHED"
      BY <1>2, <3>1, <3>2 DEF QueueInv, UnreadIsWindow
    <3>4. at(i) # curr
      BY <2>1, <3>3
    <3>5. lo[at(i)] = hi[at(i)] /\ lo[at(i)] < p
      BY <1>2, <2>1, <3>2, <3>3 DEF QueueInv, OrderInv
    <3> HIDE DEF at
    <3> QED  BY <2>3, <3>2, <3>4, <3>5
  <2>6. EntryAt(Front, n) = curr
    BY <2>1, <2>2, EntryAtRank
  <2>7. Unread = [i \in 1 .. n |-> hi[at(i)]]
    BY <1>2 DEF Unread
  <2>8. Unread' = [i \in 1 .. n + 1 |-> hi'[at(i)]]
    BY <2>1, <2>2 DEF Unread, EntryAt
  <2>9. hi'[at(n + 1)] = p
    <3>1. at(n + 1) = curr
      BY <2>2, <2>6
    <3> HIDE DEF at
    <3> QED  BY <2>2, <2>3, <3>1
  <2> HIDE DEF p, n, at
  <2>10. ASSUME NEW i \in 1 .. n PROVE hi[at(i)] \in Nat
    BY <2>3, <2>5
  <2>11. Unread \in Seq(Nat) /\ Len(Unread) = n
    BY <2>2, <2>7, <2>10
  <2>12. Unread' = Append(Unread, p)
    BY <2>2, <2>5, <2>7, <2>8, <2>9, <2>11
  <2>13. Len(Unread) < NumDE /\ \A i \in 1 .. Len(Unread) : p > Unread[i]
    <3>1. n < NumDE
      BY <2>2, RadioQueueAssumption
    <3>2. \A i \in 1 .. n : Unread[i] = hi[at(i)]
      BY <2>7
    <3>3. p \in Nat
      BY <2>4 DEF Packets
    <3>4. \A i \in 1 .. n : p > Unread[i]
      BY <2>5, <2>10, <3>2, <3>3
    <3> QED  BY <2>11, <3>1, <3>4
  <2>14. FB!Receive
    BY <2>2, <2>4, <2>12, <2>13 DEF FB!Receive
  <2> QED  BY <2>14 DEF FB!FBNext
<1> QED
  BY <1>1, <1>2

LEMMA LostImplements ==
  ASSUME QueueInv, RF_FlushCrc \/ RF_BufFull
  PROVE  [FB!FBNext]_FB!fbVars
<1> USE DEF RF_FlushCrc, RF_BufFull, rfVars, driverVars, cbVars, taskVars
<1>1. /\ Settled' <=> Settled
      /\ UNCHANGED <<hi, curr, taken, clean>> /\ Front' = Front
  BY DEF Settled, Front, NextEntry
<1>2. Settled => \A e \in Entries : status'[e] = "FINISHED" <=> status[e] = "FINISHED"
  BY DEF QueueInv, TypeOK, WritingInv
<1> QED
  BY <1>1, <1>2, UnreadFrame

-----------------------------------------------------------------------------
\* The buffer is reset when the callback starts; the rest of it is not seen.
LEMMA CallbackImplements ==
  ASSUME QueueInv, TypeOK', Callback
  PROVE  [FB!FBNext]_FB!fbVars
<1> USE DEF rfVars, driverVars, cbVars, taskVars
<1>1. CASE Radio_callback
  <2>1. Unread' = <<>> /\ clean' \in BOOLEAN /\ taken' = taken
    BY <1>1 DEF Radio_callback, Unread, Settled, TypeOK
  <2> QED  BY <2>1 DEF FB!FBNext, FB!Reset
<1>2. CASE RadioQueue_reset_curr \/ RadioQueue_reset_read \/ RadioQueue_reset_clear
  <2>1. /\ cb # "idle" /\ cb' # "idle" /\ UNCHANGED <<taken, clean>>
    BY <1>2 DEF RadioQueue_reset_curr, RadioQueue_reset_read, RadioQueue_reset_clear
  <2> QED  BY <2>1 DEF Unread, Settled, FB!fbVars
<1>3. CASE Radio_beginRX
  <2> USE <1>3 DEF Radio_beginRX
  <2>1. Unread = <<>> /\ UNCHANGED <<taken, clean>>
    BY DEF Unread, Settled
  <2>2. Unread' = <<>>
    <3>1. CASE ~clean
      BY <3>1 DEF Unread, Settled
    <3>2. CASE clean
      <4>1. /\ ~InTake /\ curr = 0 /\ read = 0 /\ status[0] = "PENDING"
        BY <3>2, FirstEntry DEF QueueInv, ResetInv
      <4>2. Front' = 0 /\ curr' = 0 /\ status'[0] = "PENDING"
        BY <4>1 DEF Front, InTake
      <4>3. Occupancy' = 0
        BY <4>2 DEF Occupancy
      <4> QED  BY <4>3 DEF Unread
    <3> QED  BY <3>1, <3>2
  <2> QED  BY <2>1, <2>2 DEF FB!fbVars
<1> QED
  BY <1>1, <1>2, <1>3 DEF Callback

-----------------------------------------------------------------------------
\* Releasing the entry is what takes the packet.
LEMMA ReleaseImplements ==
  ASSUME QueueInv, RadioQueue_nextEntry_release
  PROVE  [FB!FBNext]_FB!fbVars
<1> USE DEF RadioQueue_nextEntry_release, rfVars, driverVars, cbVars, taskVars
<1>1. CASE ~clean
  <2>1. Unread = <<>> /\ Unread' = <<>> /\ clean' = clean /\ taken' = bufLo
    BY <1>1 DEF Unread, Settled
  <2>2. bufLo \in Packets \cup {0}
    BY RadioQueueAssumption DEF QueueInv, BoundInv, TypeOK, Packets
  <2> QED  BY <1>1, <2>1, <2>2 DEF FB!FBNext, FB!TakeUnspecified
<1>2. CASE clean
  <2> DEFINE n == Occupancy
             at(i) == EntryAt(read, i - 1)
  <2>1. /\ Settled /\ held = read /\ status[read] = "FINISHED" /\ bufLo = lo[read]
        /\ Front = read /\ Front' = NextEntry(read)
        /\ n \in 1 .. NumDE /\ Occupancy' = n - 1
    BY <1>2, ReleaseOccupancy
  <2>2. Settled' /\ hi' = hi /\ clean' = clean /\ taken' = bufLo /\ read \in Entries
    BY <2>1 DEF Settled, QueueInv, TypeOK
  <2>3. Unread = [i \in 1 .. n |-> hi[at(i)]]
    BY <2>1 DEF Unread
  <2>4. Unread' = [i \in 1 .. n - 1 |-> hi[EntryAt(NextEntry(read), i - 1)]]
    BY <2>1, <2>2 DEF Unread, EntryAt
  <2>5. ASSUME NEW i \in 1 .. n - 1
        PROVE  EntryAt(NextEntry(read), i - 1) = at(i + 1)
    <3>1. i - 1 \in 0 .. NumDE - 2 /\ (i - 1) + 1 = (i + 1) - 1
      BY <2>1, RadioQueueAssumption
    <3> QED  BY <2>2, <3>1, EntryAtNextStart
  <2>6. at(1) = read
    <3>1. EntryAt(read, 0) = read
      BY <2>2, EntryAtRank, RankZero
    <3> QED  BY <3>1
  <2>7. ASSUME NEW i \in 1 .. n PROVE hi[at(i)] \in Nat
    <3>1. i - 1 \in 0 .. NumDE - 1
      BY <2>1, RadioQueueAssumption
    <3> QED  BY <2>2, <3>1, EntryAtType DEF QueueInv, TypeOK
  <2>8. hi[read] = bufLo
    BY <2>1, <2>2 DEF QueueInv, OrderInv
  <2> HIDE DEF n, at
  <2>9. Unread \in Seq(Nat) /\ Len(Unread) = n
    BY <2>1, <2>3, <2>7
  <2>10. Unread # <<>> /\ Head(Unread) = bufLo
    BY <2>1, <2>3, <2>6, <2>8, <2>9
  <2>11. Unread' = [i \in 1 .. n - 1 |-> hi[at(i + 1)]]
    BY <2>4, <2>5
  <2>12. Unread' = Tail(Unread)
    BY <2>1, <2>3, <2>9, <2>11
  <2>13. FB!Take
    BY <1>2, <2>2, <2>10, <2>12 DEF FB!Take
  <2> QED  BY <2>13 DEF FB!FBNext
<1> QED
  BY <1>1, <1>2

LEMMA TaskImplements ==
  ASSUME QueueInv, Task, ~RadioQueue_nextEntry_release
  PROVE  [FB!FBNext]_FB!fbVars
<1> USE DEF rfVars, driverVars, cbVars, taskVars, ReadEntryLoads
<1>1. CASE RadioQueue_nextEntry_advance
  <2>1. /\ Settled' <=> Settled
        /\ UNCHANGED <<hi, curr, taken, clean, status>>
    BY <1>1 DEF RadioQueue_nextEntry_advance, Settled
  <2>2. Settled => Front' = Front
    BY <1>1 DEF RadioQueue_nextEntry_advance, QueueInv, TakeInv, InTake, Settled,
                Front, NextEntry
  <2> QED  BY <2>1, <2>2, UnreadFrame
<1>2. CASE RadioQueue_hasPacket \/ RadioQueue_copyLo \/ RadioQueue_copyHi
           \/ Ethernet_forward
  <2>1. /\ Settled' <=> Settled
        /\ UNCHANGED <<hi, curr, taken, clean, status, read>>
        /\ (pc' = "advance" <=> pc = "advance")
    BY <1>2 DEF RadioQueue_hasPacket, RadioQueue_copyLo, RadioQueue_copyHi,
                Ethernet_forward, Settled
  <2>2. Front' = Front
    BY <2>1 DEF Front, NextEntry
  <2> QED  BY <2>1, <2>2, UnreadFrame
<1> QED
  BY <1>1, <1>2 DEF Task

-----------------------------------------------------------------------------
(***************************************************************************)
(* The queue starts as the empty buffer.                                   *)
(***************************************************************************)
LEMMA InitImplements == Init => FB!FBInit
<1> SUFFICES ASSUME Init PROVE FB!FBInit
  OBVIOUS
<1>1. Occupancy = 0
  BY FirstEntry DEF Init, Occupancy, Front
<1>2. Unread = <<>>
  BY <1>1 DEF Unread
<1> QED
  BY <1>2 DEF Init, FB!FBInit

(***************************************************************************)
(* Every step of the queue is a step of the buffer or leaves it alone.     *)
(***************************************************************************)
LEMMA StepImplements == QueueInv /\ [Next]_vars => [FB!FBNext]_FB!fbVars
<1> SUFFICES ASSUME QueueInv, [Next]_vars PROVE [FB!FBNext]_FB!fbVars
  OBVIOUS
<1>1. TypeOK'
  BY TypeInductive DEF QueueInv
<1>2. CASE RFcore
  BY <1>2, BeginImplements, FinishImplements, LostImplements DEF RFcore
<1>3. CASE Callback
  BY <1>1, <1>3, CallbackImplements
<1>4. CASE Task
  BY <1>4, ReleaseImplements, TaskImplements
<1>5. CASE UNCHANGED vars
  <2>1. /\ Settled' <=> Settled
        /\ UNCHANGED <<hi, curr, taken, clean, status, read, pc>>
    BY <1>5 DEF vars, taskVars, cbVars, Settled
  <2>2. Front' = Front
    BY <2>1 DEF Front, NextEntry
  <2> QED  BY <2>1, <2>2, UnreadFrame
<1> QED
  BY <1>2, <1>3, <1>4, <1>5 DEF Next

(***************************************************************************)
(* The ring of data entries, filled by the RF core, emptied by the         *)
(* Ethernet task and reset by Radio_callback, is a FIFO of whole packets.  *)
(***************************************************************************)
THEOREM QueueIsFIFO == Spec => FB!FBSpec
  BY InitImplements, StepImplements, QueueInvariant, PTL DEF Spec, FB!FBSpec
=============================================================================
