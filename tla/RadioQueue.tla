------------------------------ MODULE RadioQueue ------------------------------
(***************************************************************************)
(* The receive queue between the RF core and the Ethernet task             *)
(* (radio_queue.c, Radio_callback of radio_task.c).                        *)
(*                                                                         *)
(* Three actors share a ring of data entries without a lock:               *)
(*   - the RF core, a CPU of its own, fills the entry pCurrEntry points to *)
(*     and moves pCurrEntry on;                                            *)
(*   - the Ethernet task polls RadioQueue_takePacket, which reads the      *)
(*     entry RadioQueue_ReadEntry points to, releases it and moves on;     *)
(*   - Radio_callback, run by the RF driver above every task, resets the   *)
(*     whole ring when the RF core reports that it found no free entry.    *)
(* The callback preempts the task between any two of its memory accesses,  *)
(* the task never runs while the callback does, and the RF core runs       *)
(* beside both.                                                            *)
(***************************************************************************)
EXTENDS Integers

CONSTANTS
  NumDE,      \* number of data entries in the ring (NUM_DE)
  MaxPacket,  \* bound: packets that arrive over the air, numbered from 1
  MaxPosted,  \* RX commands the RF driver can hold (its command pool)
  CountModulus \* values of the uint16_t counter nRxBufFull (65536)

ASSUME RadioQueueAssumption ==
  /\ NumDE \in Nat \ {0}
  /\ MaxPacket \in Nat
  /\ MaxPosted \in Nat \ {0}
  /\ CountModulus \in Nat \ {0}

Entries == 0 .. NumDE - 1

\* Mutant: the last entry is not chained back to the first.
NextEntry_NotClosed(e) == e + 1

(***************************************************************************)
(* pNextEntry: RadioQueue_create chains the entries into a circle.         *)
(***************************************************************************)
NextEntry(e) == IF e = NumDE - 1 THEN 0 ELSE e + 1

Packets == 1 .. MaxPacket

VARIABLES
  \* the ring, written by all three actors
  status,     \* status[e]: "PENDING" | "ACTIVE" | "FINISHED"
  lo, hi,     \* the packet whose bytes are in the first, second half of e
  curr,       \* RadioQueue_object.pCurrEntry
  read,       \* RadioQueue_ReadEntry
  \* the RF core and the RF driver
  rf,         \* "idle" | "writing" a packet into entry wr
  wr,
  nextPacket, \* the number of the next packet on the air
  posted,     \* RX commands posted and not yet ended; RX is on iff posted > 0
  events,     \* events raised and not yet handed to Radio_callback
  \* Radio_callback
  cb,         \* "idle" | "curr" | "read" | "clear" | "begin": next access
  k,          \* loop counter of RadioQueue_reset
  nRxBufFull,
  \* the Ethernet task inside RadioQueue_takePacket
  pc,         \* "idle" | "copyLo" | "copyHi" | "release" | "advance" | "forward"
  held,       \* the value of RadioQueue_ReadEntry the task holds in a register
  bufLo, bufHi, \* the packet in the first, second half of the caller's buffer
  \* history
  taken,      \* the last packet released out of the ring
  clean       \* the last reset met no take and no reception in progress

rfVars == <<rf, wr, nextPacket>>
driverVars == <<posted, events>>
cbVars == <<cb, k, nRxBufFull>>
taskVars == <<pc, held, bufLo, bufHi, taken>>
vars == <<status, lo, hi, curr, read, rfVars, driverVars, cbVars, taskVars,
          clean>>

Events == {"RxBufFull", "LastCmdDone"}

(***************************************************************************)
(* Radio_mainTask has run RadioQueue_init, RadioQueue_reset and            *)
(* Radio_beginRX before the semaphore lets the Ethernet task start.        *)
(***************************************************************************)
Init ==
  /\ status = [e \in Entries |-> "PENDING"]
  /\ lo = [e \in Entries |-> 0]
  /\ hi = [e \in Entries |-> 0]
  /\ curr = 0
  /\ read = 0
  /\ rf = "idle"
  /\ wr = 0
  /\ nextPacket = 1
  /\ posted = 1
  /\ events = {}
  /\ cb = "idle"
  /\ k = 0
  /\ nRxBufFull = 0
  /\ pc = "idle"
  /\ held = 0
  /\ bufLo = 0
  /\ bufHi = 0
  /\ taken = 0
  /\ clean = TRUE

-----------------------------------------------------------------------------
(***************************************************************************)
(* The RF core.  With auto-flush of CRC errors on (Radio_initObjects) a    *)
(* packet with a bad CRC gives its entry back and does not move pCurrEntry.*)
(***************************************************************************)
RF_Begin ==
  /\ posted > 0
  /\ rf = "idle"
  /\ nextPacket \in Packets
  /\ status[curr] = "PENDING"
  /\ rf' = "writing"
  /\ wr' = curr
  /\ status' = [status EXCEPT ![curr] = "ACTIVE"]
  /\ lo' = [lo EXCEPT ![curr] = nextPacket]
  /\ nextPacket' = nextPacket + 1
  /\ clean' = (clean /\ cb = "idle")
  /\ UNCHANGED <<hi, curr, read, driverVars, cbVars, taskVars>>

RF_Finish ==
  /\ rf = "writing"
  /\ rf' = "idle"
  /\ hi' = [hi EXCEPT ![wr] = lo[wr]]
  /\ status' = [status EXCEPT ![wr] = "FINISHED"]
  /\ curr' = NextEntry(wr)
  /\ UNCHANGED <<lo, read, wr, nextPacket, driverVars, cbVars, taskVars, clean>>

RF_FlushCrc ==
  /\ rf = "writing"
  /\ rf' = "idle"
  /\ status' = [status EXCEPT ![wr] = "PENDING"]
  /\ UNCHANGED <<lo, hi, curr, read, wr, nextPacket, driverVars, cbVars,
                 taskVars, clean>>

(***************************************************************************)
(* A packet finds no free entry: it is lost, RxBufFull is raised, and the  *)
(* RX command may end (the BLE command does, the IEEE one goes on).  The   *)
(* driver reports the end of a command to the same callback.               *)
(***************************************************************************)
RF_BufFull ==
  /\ posted > 0
  /\ rf = "idle"
  /\ nextPacket \in Packets
  /\ status[curr] # "PENDING"
  /\ nextPacket' = nextPacket + 1
  /\ \/ /\ events' = events \cup {"RxBufFull"}
        /\ UNCHANGED posted
     \/ /\ events' = events \cup {"RxBufFull", "LastCmdDone"}
        /\ posted' = posted - 1
  /\ UNCHANGED <<status, lo, hi, curr, read, rf, wr, cbVars, taskVars, clean>>

-----------------------------------------------------------------------------
(***************************************************************************)
(* Radio_callback(h, ch, e): nRxBufFull++, RadioQueue_reset, Radio_beginRX,*)
(* whatever e holds.  The driver may hand over several events in one call. *)
(***************************************************************************)
Radio_callback ==
  /\ cb = "idle"
  /\ \E e \in SUBSET events \ {{}} : events' = events \ e
  /\ nRxBufFull' = (nRxBufFull + 1) % CountModulus
  /\ cb' = "curr"
  /\ clean' = (pc \in {"idle", "forward"} /\ rf = "idle")
  /\ UNCHANGED <<status, lo, hi, curr, read, rfVars, posted, k, taskVars>>

\* Mutant: the reset leaves pCurrEntry where it was.
RadioQueue_reset_curr_NotReset ==
  /\ cb = "curr"
  /\ cb' = "read"
  /\ UNCHANGED <<status, lo, hi, curr, read, rfVars, driverVars, k, nRxBufFull,
                 taskVars, clean>>

RadioQueue_reset_curr ==
  /\ cb = "curr"
  /\ curr' = 0
  /\ cb' = "read"
  /\ UNCHANGED <<status, lo, hi, read, rfVars, driverVars, k, nRxBufFull,
                 taskVars, clean>>

\* Mutant: the reset leaves RadioQueue_ReadEntry where it was.
RadioQueue_reset_read_NotReset ==
  /\ cb = "read"
  /\ k' = 0
  /\ cb' = "clear"
  /\ UNCHANGED <<status, lo, hi, curr, read, rfVars, driverVars, nRxBufFull,
                 taskVars, clean>>

RadioQueue_reset_read ==
  /\ cb = "read"
  /\ read' = 0
  /\ k' = 0
  /\ cb' = "clear"
  /\ UNCHANGED <<status, lo, hi, curr, rfVars, driverVars, nRxBufFull,
                 taskVars, clean>>

RadioQueue_reset_clear ==
  /\ cb = "clear"
  /\ status' = [status EXCEPT ![k] = "PENDING"]
  /\ k' = NextEntry(k)
  /\ cb' = IF k = NumDE - 1 THEN "begin" ELSE "clear"
  /\ UNCHANGED <<lo, hi, curr, read, rfVars, driverVars, nRxBufFull, taskVars,
                 clean>>

\* Mutant: the callback posts no new RX command.
Radio_beginRX_NotPosted ==
  /\ cb = "begin"
  /\ cb' = "idle"
  /\ UNCHANGED <<status, lo, hi, curr, read, rfVars, driverVars, k, nRxBufFull,
                 taskVars, clean>>

Radio_beginRX ==
  /\ cb = "begin"
  /\ posted' = IF posted < MaxPosted THEN posted + 1 ELSE posted
  /\ cb' = "idle"
  /\ UNCHANGED <<status, lo, hi, curr, read, rfVars, events, k, nRxBufFull,
                 taskVars, clean>>

-----------------------------------------------------------------------------
(***************************************************************************)
(* RadioQueue_takePacket in the Ethernet task.  RadioQueue_ReadEntry is a  *)
(* plain static: at each later use the compiled code works with the value  *)
(* it holds or loads the pointer again, and after a reset the two differ.  *)
(***************************************************************************)
ReadEntryLoads == {held, read}

\* Mutant: an entry the RF core is still filling counts as a packet.
RadioQueue_hasPacket_Unfinished ==
  /\ cb = "idle"
  /\ pc = "idle"
  /\ status[read] # "PENDING"
  /\ held' = read
  /\ pc' = "copyLo"
  /\ UNCHANGED <<status, lo, hi, curr, read, rfVars, driverVars, cbVars, bufLo,
                 bufHi, taken, clean>>

RadioQueue_hasPacket ==
  /\ cb = "idle"
  /\ pc = "idle"
  /\ status[read] = "FINISHED"
  /\ held' = read
  /\ pc' = "copyLo"
  /\ UNCHANGED <<status, lo, hi, curr, read, rfVars, driverVars, cbVars, bufLo,
                 bufHi, taken, clean>>

RadioQueue_copyLo ==
  /\ cb = "idle"
  /\ pc = "copyLo"
  /\ \E e \in ReadEntryLoads :
       /\ held' = e
       /\ bufLo' = lo[e]
  /\ pc' = "copyHi"
  /\ UNCHANGED <<status, lo, hi, curr, read, rfVars, driverVars, cbVars, bufHi,
                 taken, clean>>

RadioQueue_copyHi ==
  /\ cb = "idle"
  /\ pc = "copyHi"
  /\ bufHi' = hi[held]
  /\ pc' = "release"
  /\ UNCHANGED <<status, lo, hi, curr, read, rfVars, driverVars, cbVars, held,
                 bufLo, taken, clean>>

\* Mutant: the entry after the one read is released.
RadioQueue_nextEntry_release_Next ==
  /\ cb = "idle"
  /\ pc = "release"
  /\ \E e \in ReadEntryLoads :
       /\ held' = e
       /\ status' = [status EXCEPT ![NextEntry(e)] = "PENDING"]
  /\ taken' = bufLo
  /\ pc' = "advance"
  /\ UNCHANGED <<lo, hi, curr, read, rfVars, driverVars, cbVars, bufLo, bufHi,
                 clean>>

RadioQueue_nextEntry_release ==
  /\ cb = "idle"
  /\ pc = "release"
  /\ \E e \in ReadEntryLoads :
       /\ held' = e
       /\ status' = [status EXCEPT ![e] = "PENDING"]
  /\ taken' = bufLo
  /\ pc' = "advance"
  /\ UNCHANGED <<lo, hi, curr, read, rfVars, driverVars, cbVars, bufLo, bufHi,
                 clean>>

\* Mutant: the read pointer stays at the released entry.
RadioQueue_nextEntry_advance_Stays ==
  /\ cb = "idle"
  /\ pc = "advance"
  /\ \E e \in ReadEntryLoads : read' = e
  /\ pc' = "forward"
  /\ UNCHANGED <<status, lo, hi, curr, rfVars, driverVars, cbVars, held, bufLo,
                 bufHi, taken, clean>>

RadioQueue_nextEntry_advance ==
  /\ cb = "idle"
  /\ pc = "advance"
  /\ \E e \in ReadEntryLoads : read' = NextEntry(e)
  /\ pc' = "forward"
  /\ UNCHANGED <<status, lo, hi, curr, rfVars, driverVars, cbVars, held, bufLo,
                 bufHi, taken, clean>>

(***************************************************************************)
(* RadioQueue_takePacket has returned: Ethernet_handleRFpacket turns the   *)
(* buffer into a datagram, and the task sleeps and polls again.            *)
(***************************************************************************)
Ethernet_forward ==
  /\ cb = "idle"
  /\ pc = "forward"
  /\ pc' = "idle"
  /\ UNCHANGED <<status, lo, hi, curr, read, rfVars, driverVars, cbVars, held,
                 bufLo, bufHi, taken, clean>>

-----------------------------------------------------------------------------
RFcore == RF_Begin \/ RF_Finish \/ RF_FlushCrc \/ RF_BufFull

Callback ==
  \/ Radio_callback
  \/ RadioQueue_reset_curr
  \/ RadioQueue_reset_read
  \/ RadioQueue_reset_clear
  \/ Radio_beginRX

Task ==
  \/ RadioQueue_hasPacket
  \/ RadioQueue_copyLo
  \/ RadioQueue_copyHi
  \/ RadioQueue_nextEntry_release
  \/ RadioQueue_nextEntry_advance
  \/ Ethernet_forward

Next == RFcore \/ Callback \/ Task

Spec == Init /\ [][Next]_vars

(***************************************************************************)
(* The RF core ends every reception it has begun, the driver delivers the  *)
(* events and runs the callback to its end, and the task, which sleeps one *)
(* tick between polls, is scheduled again and again.                       *)
(***************************************************************************)
Fairness ==
  /\ WF_vars(RF_Finish \/ RF_FlushCrc)
  /\ WF_vars(Callback)
  /\ WF_vars(Task)

FairSpec == Spec /\ Fairness

-----------------------------------------------------------------------------
TypeOK ==
  /\ status \in [Entries -> {"PENDING", "ACTIVE", "FINISHED"}]
  /\ lo \in [Entries -> Nat]
  /\ hi \in [Entries -> Nat]
  /\ curr \in Entries
  /\ read \in Entries
  /\ rf \in {"idle", "writing"}
  /\ wr \in Entries
  /\ nextPacket \in 1 .. MaxPacket + 1
  /\ posted \in 0 .. MaxPosted
  /\ events \in SUBSET Events
  /\ cb \in {"idle", "curr", "read", "clear", "begin"}
  /\ k \in Entries
  /\ nRxBufFull \in 0 .. CountModulus - 1
  /\ pc \in {"idle", "copyLo", "copyHi", "release", "advance", "forward"}
  /\ held \in Entries
  /\ bufLo \in Nat
  /\ bufHi \in Nat
  /\ taken \in Nat
  /\ clean \in BOOLEAN

(***************************************************************************)
(* The entry the task takes next, the distance from h to e along the ring, *)
(* and how many entries hold a packet, as the two pointers tell it.        *)
(***************************************************************************)
Front == IF pc = "advance" THEN NextEntry(read) ELSE read

Rank(h, e) == IF e >= h THEN e - h ELSE e - h + NumDE

Occupancy ==
  IF Front = curr
  THEN IF status[curr] = "FINISHED" THEN NumDE ELSE 0
  ELSE Rank(Front, curr)

Settled == clean /\ cb = "idle"

(***************************************************************************)
(* The pointers tell the truth: the entries that hold an unread packet are *)
(* exactly those from the task's next entry up to the RF core's.  A packet *)
(* outside that stretch would be overtaken, a free entry inside it would   *)
(* stop the task for ever.                                                 *)
(***************************************************************************)
UnreadIsWindow ==
  Settled => \A e \in Entries :
               status[e] = "FINISHED" <=> Rank(Front, e) < Occupancy

(***************************************************************************)
(* The packet RadioQueue_takePacket is about to release is whole (both     *)
(* halves of the copy are of one packet) and newer than every packet       *)
(* released before it: no duplicate, no reordering.                        *)
(***************************************************************************)
TakesWholeInOrder ==
  pc = "release" /\ clean => bufLo = bufHi /\ taken < bufLo

(***************************************************************************)
(* The task frees no entry whose packet it has not copied.                 *)
(***************************************************************************)
FreesOnlyCopied ==
  [][\A e \in Entries :
       Settled /\ status[e] = "FINISHED" /\ status'[e] # "FINISHED"
         => bufLo = lo[e] /\ bufHi = hi[e]]_vars

(***************************************************************************)
(* The sniffer never goes deaf: when the last RX command has ended, an     *)
(* event that makes Radio_callback post a new one is on its way.           *)
(***************************************************************************)
NeverDeaf == posted = 0 => events # {} \/ cb # "idle"

-----------------------------------------------------------------------------
(***************************************************************************)
(* The inductive invariant behind the properties above, part by part.      *)
(***************************************************************************)
InTake == pc \in {"copyLo", "copyHi", "release", "advance"}

\* An ACTIVE entry is the one the RF core is writing.
ActiveInv ==
  \A e \in Entries : status[e] = "ACTIVE" => rf = "writing" /\ e = wr

\* In a settled ring the RF core writes where pCurrEntry points, and what it
\* writes is the newest packet.
WritingInv ==
  Settled /\ rf = "writing" =>
    /\ wr = curr
    /\ status[wr] = "ACTIVE"
    /\ lo[wr] = nextPacket - 1
    /\ taken < lo[wr]

\* Nothing in the ring is newer than the packet that is still to come.
BoundInv ==
  /\ taken < nextPacket
  /\ bufLo < nextPacket
  /\ \A e \in Entries : lo[e] < nextPacket

\* The unread packets of a settled ring are whole, not yet taken, older than
\* the packet being received, and in ring order.
OrderInv ==
  Settled =>
    /\ \A e \in Entries : status[e] = "FINISHED" =>
         /\ lo[e] = hi[e]
         /\ taken < lo[e]
         /\ rf = "writing" => lo[e] < lo[wr]
    /\ \A e, f \in Entries :
         /\ status[e] = "FINISHED" /\ status[f] = "FINISHED"
         /\ Rank(Front, e) < Rank(Front, f)
         => lo[e] < lo[f]

\* A take that no reset has met holds the entry ReadEntry points to, and has
\* copied what is in it.
TakeInv ==
  clean /\ InTake =>
    /\ cb = "idle"
    /\ held = read
    /\ pc # "advance" => status[read] = "FINISHED"
    /\ pc \in {"copyHi", "release"} => bufLo = lo[read]
    /\ pc = "release" => bufHi = hi[read]

\* A reset that met nothing goes on undisturbed and leaves an empty ring.
ResetInv ==
  clean /\ cb # "idle" =>
    /\ ~InTake
    /\ rf = "idle"
    /\ cb \in {"read", "clear", "begin"} => curr = 0
    /\ cb \in {"clear", "begin"} => read = 0
    /\ cb = "clear" => \A e \in Entries : e < k => status[e] = "PENDING"
    /\ cb = "begin" => \A e \in Entries : status[e] = "PENDING"

QueueInv ==
  /\ TypeOK
  /\ ActiveInv
  /\ WritingInv
  /\ BoundInv
  /\ UnreadIsWindow
  /\ OrderInv
  /\ TakeInv
  /\ ResetInv
  /\ NeverDeaf

-----------------------------------------------------------------------------
(***************************************************************************)
(* The queue implements a FIFO of whole packets.  A callback in progress   *)
(* counts as already reset; a packet leaves when its entry is released.    *)
(***************************************************************************)
EntryAt(h, i) == IF h + i < NumDE THEN h + i ELSE h + i - NumDE

Unread ==
  IF Settled THEN [i \in 1 .. Occupancy |-> hi[EntryAt(Front, i - 1)]] ELSE <<>>

FB == INSTANCE FrameBuffer WITH
        Capacity <- NumDE, Packet <- Packets,
        frames <- Unread, last <- taken, intact <- clean

(***************************************************************************)
(* Every step of the queue is a step of the FIFO or none, and a packet     *)
(* that is not reset away is taken.                                        *)
(***************************************************************************)
ImplementsFrameBuffer == FB!FBFairSpec

=============================================================================
