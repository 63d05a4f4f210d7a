----------------------------- MODULE FrameBuffer ------------------------------
(***************************************************************************)
(* What the sniffer's receive queue promises to the task that forwards     *)
(* captured packets: a bounded FIFO of whole packets, in the order they    *)
(* were received, which loses packets only when it is reset.  A reset that *)
(* meets a take or a reception in progress leaves it not intact: it        *)
(* promises nothing until a later reset has met neither.                   *)
(***************************************************************************)
EXTENDS Integers, Sequences

CONSTANTS Capacity,   \* packets the buffer holds
          Packet      \* packets, numbered in the order they are on the air

VARIABLES frames,  \* the packets in the buffer, oldest first
          last,    \* the packet taken last
          intact

fbVars == <<frames, last, intact>>

FBInit == frames = <<>> /\ last = 0 /\ intact = TRUE

Receive ==
  /\ intact
  /\ Len(frames) < Capacity
  /\ \E p \in Packet :
       /\ p > last
       /\ \A i \in 1 .. Len(frames) : p > frames[i]
       /\ frames' = Append(frames, p)
  /\ UNCHANGED <<last, intact>>

Take ==
  /\ intact
  /\ frames # <<>>
  /\ last' = Head(frames)
  /\ frames' = Tail(frames)
  /\ UNCHANGED intact

Reset ==
  /\ frames' = <<>>
  /\ intact' \in BOOLEAN
  /\ UNCHANGED last

TakeUnspecified ==
  /\ ~intact
  /\ last' \in Packet \cup {0}
  /\ UNCHANGED <<frames, intact>>

FBNext == Receive \/ Take \/ Reset \/ TakeUnspecified

FBSpec == FBInit /\ [][FBNext]_fbVars

(***************************************************************************)
(* A packet does not stay in the buffer for ever.                          *)
(***************************************************************************)
FBFairSpec == FBSpec /\ WF_fbVars(Take)

=============================================================================
