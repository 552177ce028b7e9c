---------------------------- MODULE FifoChannel ----------------------------
(***************************************************************************)
(* What the message pipes of Worker threads promise to JavaScript: a set   *)
(* of independent FIFO channels.  The n-th message that postMessage()      *)
(* accepts on a channel is the number n.  The channel's onmessage handler  *)
(* sees the numbers in order, each at most once; one is skipped only when  *)
(* the receiving runtime fails to rebuild it, which it reports.            *)
(***************************************************************************)
EXTENDS Naturals

CONSTANT Chans

VARIABLES
  sent,       \* sent[c]: messages accepted so far
  received,   \* received[c]: messages that left the channel so far
  last        \* last[c]: the message most recently given to the handler

chanVars == <<sent, received, last>>

ChanInit ==
  /\ sent = [c \in Chans |-> 0]
  /\ received = [c \in Chans |-> 0]
  /\ last = [c \in Chans |-> 0]

Send(c) ==
  /\ sent' = [sent EXCEPT ![c] = @ + 1]
  /\ UNCHANGED <<received, last>>

Take(c) ==
  /\ received[c] < sent[c]
  /\ received' = [received EXCEPT ![c] = @ + 1]
  /\ UNCHANGED sent

Receive(c) == Take(c) /\ last' = [last EXCEPT ![c] = received[c] + 1]

Lose(c) == Take(c) /\ UNCHANGED last

ChanNext == \E c \in Chans : Send(c) \/ Receive(c) \/ Lose(c)

Spec == ChanInit /\ [][ChanNext]_chanVars
=============================================================================
