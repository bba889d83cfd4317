------------------------------ MODULE ToolIpc ------------------------------
(***************************************************************************)
(* The message rings between the stack and its tools (ff_sysctl, ff_top,   *)
(* ...).  A tool takes a message from a pool in shared memory, fills it    *)
(* in, puts a pointer to it on the ring ff_msg_ring_in_ and waits about a  *)
(* second for the pointer to come back on the ring of its type; the loop   *)
(* of the program handles one message per turn.  Tools are run one after   *)
(* the other (tools/README.md), so one process makes all the calls here.   *)
(*                                                                         *)
(* Nobody tells the stack that a tool has given up: a late answer stays    *)
(* on its ring until the next call of that type frees it.                  *)
(***************************************************************************)
EXTENDS Integers, Sequences, SequencesExt

CONSTANTS Msgs,           \* the messages of ff_msg_pool
          Requests,       \* the calls the tools make
          Supported,      \* types for which the stack is built with a handler
          Unsupported,    \* types it answers with ENOTSUP
          BufLen,         \* bytes of a message behind its header
          MSG_RING_SIZE,  \* a ring holds one pointer less
          MaxTimeouts,    \* no call is made after so many have timed out
          MaxOff,         \* bound on how far buf_addr is moved
          NULL

Types == Supported \cup Unsupported

ASSUME IpcAssumption ==
  /\ Supported \cap Unsupported = {} /\ NULL \notin Msgs
  /\ BufLen \in Nat /\ MSG_RING_SIZE \in Nat \ {0, 1} /\ MaxTimeouts \in Nat /\ MaxOff \in Nat
  /\ \A r \in Requests : r.type \in Types /\ r.moves \in Nat

VARIABLES
  pool,      \* how often a message is in the pool
  ring_in,   \* the ring to the stack
  ring_out,  \* the rings from the stack, one for each type
  pc,        \* where the tool is: "idle", "send" or "recv"
  msg,       \* the message of the call that is made
  req,       \* and the request it carries
  type,      \* msg_type of a message
  off,       \* how far its buf_addr has moved from where ff_msg_init() set it
  args,      \* the buffer its arguments point to: "own", "extra" or "freed"
  answer,    \* what its result says: "none" until the request is handled
  serving,   \* the message the stack is handling
  torn,      \* whether it was filled in anew meanwhile
  timeouts   \* calls that have timed out

vars == <<pool, ring_in, ring_out, pc, msg, req, type, off, args, answer, serving, torn, timeouts>>
stack == <<serving, torn>>
contents == <<type, off, args, answer>>

-----------------------------------------------------------------------------
(* The requests: what a call compares with buf_len before and after moving *)
(* buf_addr, by how much it moves it, and whether it allocates a larger    *)
(* buffer.                                                                 *)

sizeof_ipfw_args == 32
sizeof_socklen_t == 4

sysctl(namelen, oldlen, newlen) ==
  [type |-> "FF_SYSCTL", early |-> namelen + oldlen + newlen, late |-> 0, moves |-> 0,
   extra |-> TRUE]

ioctl_va(size, clen) ==
  [type |-> "FF_IOCTL", early |-> size, late |-> size + clen, moves |-> size, extra |-> FALSE]

rtioctl(len) ==
  [type |-> "FF_ROUTE", early |-> len, late |-> 0, moves |-> len, extra |-> FALSE]

\* The commands of ff_ngctl differ in the length they compare.
ngctl(len) ==
  [type |-> "FF_NGCTL", early |-> len, late |-> 0, moves |-> 0, extra |-> FALSE]

ipfw_ctl(optlen) ==
  [type |-> "FF_IPFW_CTL", early |-> sizeof_ipfw_args + optlen + sizeof_socklen_t, late |-> 0,
   moves |-> 0, extra |-> FALSE]

cpu_status ==
  [type |-> "FF_TOP", early |-> 0, late |-> 0, moves |-> 0, extra |-> FALSE]

traffic_status ==
  [type |-> "FF_TRAFFIC", early |-> 0, late |-> 0, moves |-> 0, extra |-> FALSE]

-----------------------------------------------------------------------------
Capacity == MSG_RING_SIZE - 1

NoRequest == cpu_status

Init ==
  /\ pool = [m \in Msgs |-> 1]
  /\ ring_in = <<>> /\ ring_out = [t \in Types |-> <<>>]
  /\ pc = "idle" /\ msg = NULL /\ req = NoRequest
  /\ type = [m \in Msgs |-> "FF_UNKNOWN"]
  /\ off = [m \in Msgs |-> 0]
  /\ args = [m \in Msgs |-> "own"]
  /\ answer = [m \in Msgs |-> "none"]
  /\ serving = NULL /\ torn = FALSE
  /\ timeouts = 0

-----------------------------------------------------------------------------
(* A call of a tool.  One that cannot get a message or does not fit in one *)
(* returns at once and leaves everything as it was.                        *)

ff_ipc_msg_free(m) == pool' = [pool EXCEPT ![m] = @ + 1]

\* The tool writes request r into message m, which the stack may be handling.
Fill(m, r) ==
  /\ type' = [type EXCEPT ![m] = r.type]
  /\ off[m] + r.moves <= MaxOff
  /\ off' = [off EXCEPT ![m] = @ + r.moves]
  /\ args' = [args EXCEPT ![m] = IF r.early > BufLen THEN "extra" ELSE "own"]
  /\ answer' = [answer EXCEPT ![m] = "none"]
  /\ torn' = (torn \/ serving = m)

\* ff_ipc_msg_alloc() and the filling in of the message.
request(m, r) ==
  /\ pc = "idle" /\ timeouts < MaxTimeouts
  /\ pool[m] > 0
  /\ r.extra \/ r.early <= BufLen
  /\ r.late <= BufLen
  /\ pool' = [pool EXCEPT ![m] = @ - 1]
  /\ msg' = m /\ req' = r /\ pc' = "send"
  /\ Fill(m, r)
  /\ UNCHANGED <<ring_in, ring_out, serving, timeouts>>

\* The second check of ioctl_va() fails: the message goes back to the pool.
request_too_long(m, r) ==
  /\ pc = "idle" /\ timeouts < MaxTimeouts
  /\ pool[m] > 0
  /\ r.early <= BufLen /\ r.late > BufLen
  /\ Fill(m, r)
  /\ UNCHANGED <<pool, ring_in, ring_out, pc, msg, req, serving, timeouts>>

\* The call returns: it frees the message, and its larger buffer if it has one.
Return ==
  /\ ff_ipc_msg_free(msg)
  /\ args' = [args EXCEPT ![msg] = IF @ = "extra" THEN "freed" ELSE @]
  /\ pc' = "idle" /\ msg' = NULL /\ req' = NoRequest

ff_ipc_send ==
  /\ pc = "send"
  /\ Len(ring_in) < Capacity
  /\ ring_in' = Append(ring_in, msg)
  /\ pc' = "recv"
  /\ UNCHANGED <<pool, ring_out, msg, req, contents, stack, timeouts>>

\* Slip: the message is not freed.
SlipNotFreed ==
  /\ pc = "send"
  /\ Len(ring_in) = Capacity
  /\ pc' = "idle" /\ msg' = NULL /\ req' = NoRequest
  /\ UNCHANGED <<pool, ring_in, ring_out, contents, stack, timeouts>>

ff_ipc_send_fails ==
  /\ pc = "send"
  /\ Len(ring_in) = Capacity
  /\ Return
  /\ UNCHANGED <<ring_in, ring_out, type, off, answer, stack, timeouts>>

Answers == ring_out[type[msg]]

\* Slip: the first answer of the type is taken for the answer to the call.
SlipTakesAny ==
  /\ pc = "recv"
  /\ Answers # <<>>
  /\ ring_out' = [ring_out EXCEPT ![type[msg]] = Tail(@)]
  /\ Return
  /\ UNCHANGED <<ring_in, type, off, answer, stack, timeouts>>

\* Slip: the message is freed as the answer, and again as the request.
SlipFreesTwice ==
  /\ pc = "recv"
  /\ Answers # <<>> /\ Head(Answers) = msg
  /\ ring_out' = [ring_out EXCEPT ![type[msg]] = Tail(@)]
  /\ pool' = [pool EXCEPT ![msg] = @ + 2]
  /\ pc' = "idle" /\ msg' = NULL /\ req' = NoRequest
  /\ UNCHANGED <<ring_in, contents, stack, timeouts>>

\* An answer to the call.
ff_ipc_recv ==
  /\ pc = "recv"
  /\ Answers # <<>> /\ Head(Answers) = msg
  /\ ring_out' = [ring_out EXCEPT ![type[msg]] = Tail(@)]
  /\ Return
  /\ UNCHANGED <<ring_in, type, off, answer, stack, timeouts>>

\* An answer to a call that has timed out: it is freed, and the call waits again.
ff_ipc_recv_other ==
  /\ pc = "recv"
  /\ Answers # <<>> /\ Head(Answers) # msg
  /\ ring_out' = [ring_out EXCEPT ![type[msg]] = Tail(@)]
  /\ ff_ipc_msg_free(Head(Answers))
  /\ UNCHANGED <<ring_in, pc, msg, req, contents, stack, timeouts>>

\* A thousand attempts, a millisecond apart, have found the ring empty.
ff_ipc_recv_times_out ==
  /\ pc = "recv"
  /\ Answers = <<>>
  /\ timeouts' = timeouts + 1
  /\ Return
  /\ UNCHANGED <<ring_in, ring_out, type, off, answer, stack>>

-----------------------------------------------------------------------------
(* The stack.                                                              *)

process_msg_ring ==
  /\ serving = NULL /\ ring_in # <<>>
  /\ serving' = Head(ring_in) /\ torn' = FALSE
  /\ ring_in' = Tail(ring_in)
  /\ UNCHANGED <<pool, ring_out, pc, msg, req, contents, timeouts>>

\* Slip: only the types with a handler are answered.
SlipNoDefault ==
  /\ serving # NULL
  /\ answer' = [answer EXCEPT ![serving] = "done"]
  /\ ring_out' = [ring_out EXCEPT ![type[serving]] =
                    IF Len(@) < Capacity /\ type[serving] \in Supported
                    THEN Append(@, serving) ELSE @]
  /\ serving' = NULL /\ torn' = FALSE
  /\ UNCHANGED <<pool, ring_in, pc, msg, req, type, off, args, timeouts>>

\* The end of handle_msg(): the result, and the pointer on the ring of the type
\* the message has now, if there is room.
handle_msg ==
  /\ serving # NULL
  /\ answer' = [answer EXCEPT ![serving] = IF torn THEN "torn"
                                           ELSE IF type[serving] \in Supported THEN "done"
                                           ELSE "ENOTSUP"]
  /\ ring_out' = [ring_out EXCEPT ![type[serving]] =
                    IF Len(@) < Capacity THEN Append(@, serving) ELSE @]
  /\ serving' = NULL /\ torn' = FALSE
  /\ UNCHANGED <<pool, ring_in, pc, msg, req, type, off, args, timeouts>>

-----------------------------------------------------------------------------
Tool ==
  \/ \E m \in Msgs, r \in Requests : request(m, r) \/ request_too_long(m, r)
  \/ ff_ipc_send \/ ff_ipc_send_fails
  \/ ff_ipc_recv \/ ff_ipc_recv_other \/ ff_ipc_recv_times_out

Stack == process_msg_ring \/ handle_msg

Next == Tool \/ Stack

Spec == Init /\ [][Next]_vars

\* The loop of the program calls process_msg_ring() in every turn, and a tool
\* that waits for an answer keeps polling its ring.
FairSpec == Spec /\ WF_vars(Stack) /\ WF_vars(ff_ipc_send) /\ WF_vars(ff_ipc_recv)
                 /\ WF_vars(ff_ipc_recv_other)

-----------------------------------------------------------------------------
(* Properties.                                                             *)

\* Type invariant: the rings hold messages of the pool, and no more of them
\* than an rte_ring of MSG_RING_SIZE entries can.
TypeOK ==
  /\ pool \in [Msgs -> Nat] /\ timeouts \in 0 .. MaxTimeouts
  /\ ring_in \in Seq(Msgs) /\ Len(ring_in) < MSG_RING_SIZE
  /\ ring_out \in [Types -> Seq(Msgs)] /\ \A t \in Types : Len(ring_out[t]) < MSG_RING_SIZE
  /\ pc \in {"idle", "send", "recv"} /\ msg \in Msgs \cup {NULL}
  /\ req \in Requests \cup {NoRequest}
  /\ type \in [Msgs -> Types \cup {"FF_UNKNOWN"}]
  /\ off \in [Msgs -> 0 .. MaxOff]
  /\ args \in [Msgs -> {"own", "extra", "freed"}]
  /\ answer \in [Msgs -> {"none", "done", "ENOTSUP", "torn"}]
  /\ serving \in Msgs \cup {NULL} /\ torn \in BOOLEAN

\* No message is lost, whether a call is answered, times out or cannot be sent,
\* and although the stack drops an answer when its ring is full: a message is
\* in the pool unless the call that is made holds it.
NoneLost == \A m \in Msgs : m # msg => pool[m] > 0

InFlight(m) == Contains(ring_in, m) \/ serving = m \/ \E t \in Types : Contains(ring_out[t], m)

\* Where a copy of the pointer to message m is on its way.
Copies(m) ==
  {<<"in", i>> : i \in {i \in DOMAIN ring_in : ring_in[i] = m}}
    \cup (IF serving = m THEN {<<"serving", 0>>} ELSE {})
    \cup UNION {{<<"out", i, t>> : i \in {i \in DOMAIN ring_out[t] : ring_out[t][i] = m}} : t \in Types}

\* As long as no call times out a message has one owner: the pool, the tool or
\* the stack, whose rings hold the one message of the call that waits; and the
\* stack handles no message whose arguments are in a buffer the tool has freed.
OneOwner ==
  timeouts = 0 =>
    \A m \in Msgs :
      /\ pool[m] = IF m = msg THEN 0 ELSE 1
      /\ InFlight(m) <=> m = msg /\ pc = "recv"
      /\ \A a, b \in Copies(m) : a = b
      /\ serving = m => args[m] # "freed"

Right(m) == answer[m] = IF type[m] \in Supported THEN "done" ELSE "ENOTSUP"

\* A late answer does no harm but to a call that is given its very message: a
\* call that returns what the stack said, with no other copy of its message
\* under way, returns the result of handling its own request.
SoleAnswer ==
  [][pc = "recv" /\ pc' = "idle" /\ timeouts' = timeouts /\ (\A a, b \in Copies(msg) : a = b)
     => Right(msg)]_vars

\* Every call whose message was sent is answered, whatever late answers it finds
\* on the ring of its type, while fewer calls have timed out than a ring holds;
\* after that an answer may be dropped, and only the timeout ends the call.
Answered == pc = "recv" /\ timeouts < Capacity ~> pc = "idle"

\* The comment of struct ff_msg on result, "Result of msg processing": the
\* result a call returns is that of processing its message.
ResultOfProcessing ==
  [][pc = "recv" /\ pc' = "idle" /\ timeouts' = timeouts => Right(msg)]_vars

=============================================================================
