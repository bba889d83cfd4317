--------------------------- MODULE ToolIpcProofs ---------------------------
(***************************************************************************)
(* Proofs of invariants of ToolIpc, for any pool, any rings and any calls. *)
(***************************************************************************)
EXTENDS ToolIpc, SequenceTheorems, TLAPS

\* A tool holds a message exactly while it makes a call; the message has the type
\* of the call, and its arguments are not in a buffer that was freed.
Holds ==
  /\ pc = "idle" <=> msg = NULL
  /\ msg # NULL => type[msg] \in Types /\ timeouts < MaxTimeouts /\ args[msg] # "freed"

\* The inductive invariant.
IInv == TypeOK /\ Holds /\ NoneLost

\* ff_msg_init() puts every message into the pool once.
LEMMA InitIInv == Init => IInv
<1>. SUFFICES ASSUME Init PROVE IInv
  OBVIOUS
<1>1. ring_in \in Seq(Msgs) /\ Len(ring_in) = 0
  BY DEF Init
<1>2. ring_out \in [Types -> Seq(Msgs)] /\ \A t \in Types : Len(ring_out[t]) = 0
  BY DEF Init
<1>3. 0 < MSG_RING_SIZE /\ 0 \in 0 .. MaxTimeouts /\ 0 \in 0 .. MaxOff
  BY IpcAssumption
<1>4. TypeOK
  BY Zenon, <1>1, <1>2, <1>3 DEF Init, TypeOK
<1>. QED  BY <1>4, IpcAssumption DEF IInv, Holds, NoneLost, Init

\* Filling in a message keeps the types.
LEMMA FillType ==
  ASSUME TypeOK, NEW m \in Msgs, NEW r \in Requests, Fill(m, r)
  PROVE  /\ type' \in [Msgs -> Types \cup {"FF_UNKNOWN"}] /\ type'[m] \in Types
         /\ args'[m] # "freed"
         /\ off' \in [Msgs -> 0 .. MaxOff]
         /\ args' \in [Msgs -> {"own", "extra", "freed"}]
         /\ answer' \in [Msgs -> {"none", "done", "ENOTSUP", "torn"}]
         /\ torn' \in BOOLEAN
<1>1. r.type \in Types /\ r.moves \in Nat /\ MaxOff \in Nat
  BY IpcAssumption
<1>2. off[m] + r.moves \in 0 .. MaxOff
  BY <1>1 DEF Fill, TypeOK
<1>. QED  BY SMTT(30), <1>1, <1>2 DEF Fill, TypeOK

\* The return of a call puts its message back.
LEMMA ReturnKeeps ==
  ASSUME IInv, pc # "idle", Return
  PROVE  /\ pool' \in [Msgs -> Nat] /\ args' \in [Msgs -> {"own", "extra", "freed"}]
         /\ pc' = "idle" /\ msg' = NULL /\ req' = NoRequest
         /\ \A m \in Msgs : pool'[m] > 0
<1>1. msg \in Msgs /\ pool \in [Msgs -> Nat]
  BY DEF IInv, Holds, TypeOK
<1>2. pool' = [pool EXCEPT ![msg] = @ + 1]
  BY DEF Return, ff_ipc_msg_free
<1>3. pool' \in [Msgs -> Nat] /\ \A m \in Msgs : pool'[m] > 0
  BY <1>1, <1>2 DEF IInv, NoneLost
<1>. QED  BY Zenon, <1>1, <1>3 DEF Return, IInv, TypeOK

\* What is on the ring of the type of the call.
LEMMA AnswersType ==
  ASSUME IInv, pc = "recv"
  PROVE  /\ msg \in Msgs /\ type[msg] \in Types
         /\ Answers \in Seq(Msgs) /\ Len(Answers) < MSG_RING_SIZE
BY DEF IInv, Holds, TypeOK, Answers

\* Taking an answer off its ring keeps the types of the rings.
LEMMA DequeueType ==
  ASSUME IInv, pc = "recv", Answers # <<>>,
         ring_out' = [ring_out EXCEPT ![type[msg]] = Tail(@)]
  PROVE  /\ Head(Answers) \in Msgs /\ ring_out' \in [Types -> Seq(Msgs)]
         /\ \A t \in Types : Len(ring_out'[t]) < MSG_RING_SIZE
<1>1. /\ type[msg] \in Types /\ Answers \in Seq(Msgs) /\ Len(Answers) < MSG_RING_SIZE
      /\ Answers = ring_out[type[msg]]
  BY AnswersType DEF Answers
<1>2. /\ Head(Answers) \in Msgs /\ Tail(Answers) \in Seq(Msgs)
      /\ Len(Tail(Answers)) = Len(Answers) - 1 /\ Len(Answers) \in Nat
  BY <1>1, HeadTailProperties, LenProperties
<1>3. Len(Tail(Answers)) < MSG_RING_SIZE
  BY <1>1, <1>2, IpcAssumption
<1>. QED  BY <1>1, <1>2, <1>3 DEF IInv, TypeOK

\* Every step of a tool or of the stack keeps the messages accounted for.
LEMMA NextIInv == IInv /\ [Next]_vars => IInv'
<1>. SUFFICES ASSUME IInv, [Next]_vars PROVE IInv'
  OBVIOUS
<1>0. TypeOK /\ Holds /\ NoneLost /\ NULL \notin Msgs
  BY IpcAssumption DEF IInv
<1>1. ASSUME NEW m \in Msgs, NEW r \in Requests, request(m, r)
      PROVE  IInv'
  <2>1. /\ pool' = [pool EXCEPT ![m] = @ - 1] /\ pool[m] > 0 /\ msg = NULL
        /\ msg' = m /\ req' = r /\ pc' = "send" /\ Fill(m, r) /\ timeouts < MaxTimeouts
        /\ UNCHANGED <<ring_in, ring_out, serving, timeouts>>
    BY <1>0, <1>1 DEF request, Holds
  <2>2. /\ pool' \in [Msgs -> Nat] /\ \A n \in Msgs : n # m => pool'[n] = pool[n]
    BY <1>0, <2>1 DEF TypeOK
  <2>3. TypeOK' /\ type'[m] \in Types /\ args'[m] # "freed"
    BY <1>0, <2>1, <2>2, FillType DEF TypeOK
  <2>. QED  BY <1>0, <2>1, <2>2, <2>3 DEF IInv, Holds, NoneLost
<1>2. ASSUME NEW m \in Msgs, NEW r \in Requests, request_too_long(m, r)
      PROVE  IInv'
  <2>1. /\ UNCHANGED <<pool, ring_in, ring_out, pc, msg, req, serving, timeouts>>
        /\ msg = NULL /\ Fill(m, r)
    BY <1>0, <1>2 DEF request_too_long, Holds
  <2>2. TypeOK'
    BY <1>0, <2>1, FillType DEF TypeOK
  <2>. QED  BY <1>0, <2>1, <2>2 DEF IInv, Holds, NoneLost
<1>3. CASE ff_ipc_send
  <2>1. /\ pc = "send" /\ pc' = "recv" /\ msg \in Msgs
        /\ ring_in' = Append(ring_in, msg) /\ Len(ring_in) < MSG_RING_SIZE - 1
        /\ UNCHANGED <<pool, ring_out, msg, req, type, off, args, answer, serving, torn, timeouts>>
    BY <1>0, <1>3 DEF ff_ipc_send, Capacity, Holds, TypeOK, contents, stack
  <2>2. ring_in' \in Seq(Msgs) /\ Len(ring_in') < MSG_RING_SIZE
    BY <1>0, <2>1, IpcAssumption DEF TypeOK
  <2>3. TypeOK'
    BY <1>0, <2>1, <2>2 DEF TypeOK
  <2>. QED  BY <1>0, <2>1, <2>3 DEF IInv, Holds, NoneLost
<1>4. CASE ff_ipc_send_fails \/ ff_ipc_recv_times_out
  <2>1. /\ pc # "idle" /\ Return /\ UNCHANGED <<ring_in, ring_out, type, off, answer, serving, torn>>
        /\ timeouts' \in {timeouts, timeouts + 1}
    BY <1>4 DEF ff_ipc_send_fails, ff_ipc_recv_times_out, stack
  <2>2. timeouts' \in 0 .. MaxTimeouts
    BY <1>0, <2>1, IpcAssumption DEF TypeOK, Holds
  <2>3. TypeOK'
    BY <1>0, <2>1, <2>2, ReturnKeeps DEF TypeOK
  <2>. QED  BY <2>1, <2>3, ReturnKeeps DEF IInv, Holds, NoneLost
<1>5. CASE ff_ipc_recv
  <2>1. /\ pc = "recv" /\ Return /\ Answers # <<>>
        /\ ring_out' = [ring_out EXCEPT ![type[msg]] = Tail(@)]
        /\ UNCHANGED <<ring_in, type, off, answer, serving, torn, timeouts>>
    BY <1>5 DEF ff_ipc_recv, stack
  <2>2. TypeOK'
    BY Zenon, <1>0, <2>1, ReturnKeeps, DequeueType DEF TypeOK
  <2>. QED  BY <2>1, <2>2, ReturnKeeps DEF IInv, Holds, NoneLost
<1>6. CASE ff_ipc_recv_other
  <2>1. /\ pc = "recv" /\ Answers # <<>>
        /\ ring_out' = [ring_out EXCEPT ![type[msg]] = Tail(@)]
        /\ pool' = [pool EXCEPT ![Head(Answers)] = @ + 1]
        /\ UNCHANGED <<ring_in, pc, msg, req, type, off, args, answer, serving, torn, timeouts>>
    BY <1>6 DEF ff_ipc_recv_other, ff_ipc_msg_free, contents, stack
  <2>2. pool' \in [Msgs -> Nat] /\ \A n \in Msgs : pool'[n] >= pool[n]
    <3>1. PICK a \in Msgs : a = Head(Answers)
      BY <2>1, DequeueType
    <3>2. pool' = [pool EXCEPT ![a] = @ + 1] /\ pool \in [Msgs -> Nat]
      BY <1>0, <2>1, <3>1 DEF TypeOK
    <3>. QED  BY <3>2
  <2>3. TypeOK'
    BY Zenon, <1>0, <2>1, <2>2, DequeueType DEF TypeOK
  <2>4. NoneLost'
    BY <1>0, <2>1, <2>2 DEF NoneLost, TypeOK
  <2>. QED  BY <1>0, <2>1, <2>3, <2>4 DEF IInv, Holds
<1>7. CASE process_msg_ring
  <2>1. /\ ring_in # <<>> /\ serving' = Head(ring_in) /\ torn' = FALSE /\ ring_in' = Tail(ring_in)
        /\ UNCHANGED <<pool, ring_out, pc, msg, req, type, off, args, answer, timeouts>>
    BY <1>7 DEF process_msg_ring, contents
  <2>2. /\ Head(ring_in) \in Msgs /\ Tail(ring_in) \in Seq(Msgs)
        /\ Len(Tail(ring_in)) = Len(ring_in) - 1 /\ Len(ring_in) \in Nat
    BY <1>0, <2>1, HeadTailProperties, LenProperties DEF TypeOK
  <2>3. Len(Tail(ring_in)) < MSG_RING_SIZE
    BY <1>0, <2>2, IpcAssumption DEF TypeOK
  <2>4. TypeOK'
    BY Zenon, <1>0, <2>1, <2>2, <2>3 DEF TypeOK
  <2>. QED  BY <1>0, <2>1, <2>4 DEF IInv, Holds, NoneLost
<1>8. CASE handle_msg
  <2>. DEFINE t == type[serving]
  <2>1. /\ serving \in Msgs /\ serving' = NULL /\ torn' = FALSE
        /\ ring_out' = [ring_out EXCEPT ![t] =
                          IF Len(@) < MSG_RING_SIZE - 1 THEN Append(@, serving) ELSE @]
        /\ answer' \in [Msgs -> {"none", "done", "ENOTSUP", "torn"}]
        /\ UNCHANGED <<pool, ring_in, pc, msg, req, type, off, args, timeouts>>
    BY <1>0, <1>8 DEF handle_msg, Capacity, TypeOK
  <2>2. ring_out' \in [Types -> Seq(Msgs)] /\ \A u \in Types : Len(ring_out'[u]) < MSG_RING_SIZE
    <3>. HIDE DEF t
    <3>1. CASE t \in Types
      <4>1. ring_out[t] \in Seq(Msgs) /\ Len(ring_out[t]) \in Nat
        BY <1>0, <3>1 DEF TypeOK
      <4>2. /\ Append(ring_out[t], serving) \in Seq(Msgs)
            /\ Len(Append(ring_out[t], serving)) = Len(ring_out[t]) + 1
        BY <2>1, <4>1, AppendProperties
      <4>. QED  BY <1>0, <2>1, <3>1, <4>1, <4>2, IpcAssumption DEF TypeOK
    <3>2. CASE t \notin Types
      BY Zenon, <1>0, <2>1, <3>2 DEF TypeOK
    <3>. QED  BY <3>1, <3>2
  <2>3. TypeOK'
    BY Zenon, <1>0, <2>1, <2>2 DEF TypeOK
  <2>. QED  BY <1>0, <2>1, <2>3 DEF IInv, Holds, NoneLost
<1>9. CASE UNCHANGED vars
  BY <1>0, <1>9 DEF vars, IInv, TypeOK, Holds, NoneLost
<1>. QED
  BY <1>1, <1>2, <1>3, <1>4, <1>5, <1>6, <1>7, <1>8, <1>9 DEF Next, Tool, Stack

\* No message of the pool is ever lost, however calls end and whatever the stack
\* does with late ones.
THEOREM NoMessageLost == Spec => [](TypeOK /\ NoneLost)
<1>1. IInv => TypeOK /\ NoneLost
  BY DEF IInv
<1>. QED  BY <1>1, InitIInv, NextIInv, PTL DEF Spec

-----------------------------------------------------------------------------
(* As long as no call times out, one pointer at most is under way.         *)

NoAnswers(S) == \A t \in S : ring_out[t] = <<>>

\* Where the message of the call is, and that nothing else is on a ring.
Alone ==
  \/ pc # "recv" /\ ring_in = <<>> /\ serving = NULL /\ NoAnswers(Types)
  \/ pc = "recv" /\ ring_in = <<msg>> /\ serving = NULL /\ NoAnswers(Types)
  \/ pc = "recv" /\ ring_in = <<>> /\ serving = msg /\ NoAnswers(Types)
  \/ /\ pc = "recv" /\ ring_in = <<>> /\ serving = NULL
     /\ \E t \in Types : ring_out[t] = <<msg>> /\ NoAnswers(Types \ {t})

Pooled == \A m \in Msgs : pool[m] = IF m = msg THEN 0 ELSE 1

\* The inductive invariant for OneOwner.
FirstCalls == timeouts = 0 => Pooled /\ Alone

\* A sequence of one element.
LEMMA Singleton ==
  ASSUME NEW S, NEW e \in S
  PROVE  /\ Append(<<>>, e) = <<e>> /\ <<e>> # <<>> /\ Head(<<e>>) = e /\ Tail(<<e>>) = <<>>
         /\ Len(<<e>>) = 1 /\ <<e>>[1] = e /\ DOMAIN <<e>> = {1}
OBVIOUS

\* When nothing else is under way, a message has one owner.
LEMMA AloneIsOneOwner ==
  ASSUME IInv, FirstCalls
  PROVE  OneOwner
<1>. SUFFICES ASSUME timeouts = 0, NEW m \in Msgs
              PROVE  /\ pool[m] = IF m = msg THEN 0 ELSE 1
                     /\ InFlight(m) <=> m = msg /\ pc = "recv"
                     /\ \A a, b \in Copies(m) : a = b
                     /\ serving = m => args[m] # "freed"
  BY DEF OneOwner
<1>0. Pooled /\ Alone /\ TypeOK /\ Holds /\ NULL \notin Msgs
  BY IpcAssumption DEF FirstCalls, IInv
<1>1. pool[m] = IF m = msg THEN 0 ELSE 1
  BY <1>0 DEF Pooled
<1>2. \A q : q = <<>> => Len(q) = 0 /\ DOMAIN q = {}
  OBVIOUS
<1>3. CASE pc # "recv" /\ ring_in = <<>> /\ serving = NULL /\ NoAnswers(Types)
  BY <1>0, <1>1, <1>2, <1>3 DEF InFlight, Copies, Contains, NoAnswers
<1>4. CASE pc = "recv" /\ ring_in = <<msg>> /\ serving = NULL /\ NoAnswers(Types)
  <2>1. msg \in Msgs
    BY <1>0, <1>4 DEF Holds, TypeOK
  <2>2. Len(ring_in) = 1 /\ ring_in[1] = msg /\ DOMAIN ring_in = {1}
    BY <1>4, <2>1, Singleton
  <2>3. InFlight(m) <=> m = msg
    BY <1>0, <1>2, <1>4, <2>2 DEF InFlight, Contains, NoAnswers
  <2>4. \A a \in Copies(m) : a = <<"in", 1>>
    BY <1>0, <1>2, <1>4, <2>2 DEF Copies, NoAnswers
  <2>. QED  BY <1>0, <1>1, <1>4, <2>3, <2>4
<1>5. CASE pc = "recv" /\ ring_in = <<>> /\ serving = msg /\ NoAnswers(Types)
  <2>1. InFlight(m) <=> m = msg
    BY <1>0, <1>2, <1>5 DEF InFlight, Contains, NoAnswers
  <2>2. \A a \in Copies(m) : a = <<"serving", 0>>
    BY <1>0, <1>2, <1>5 DEF Copies, NoAnswers
  <2>. QED  BY <1>0, <1>1, <1>5, <2>1, <2>2 DEF Holds
<1>6. ASSUME pc = "recv", ring_in = <<>>, serving = NULL,
             NEW t \in Types, ring_out[t] = <<msg>>, NoAnswers(Types \ {t})
      PROVE  /\ InFlight(m) <=> m = msg /\ pc = "recv"
             /\ \A a, b \in Copies(m) : a = b
             /\ serving = m => args[m] # "freed"
  <2>1. msg \in Msgs
    BY <1>0, <1>6 DEF Holds, TypeOK
  <2>2. Len(ring_out[t]) = 1 /\ ring_out[t][1] = msg /\ DOMAIN ring_out[t] = {1}
    BY <1>6, <2>1, Singleton
  <2>3. \A u \in Types : u # t => Len(ring_out[u]) = 0 /\ DOMAIN ring_out[u] = {}
    BY <1>2, <1>6 DEF NoAnswers
  <2>4. InFlight(m) <=> m = msg
    BY <1>0, <1>2, <1>6, <2>2, <2>3 DEF InFlight, Contains
  <2>5. \A a \in Copies(m) : a = <<"out", 1, t>>
    BY <1>0, <1>2, <1>6, <2>2, <2>3 DEF Copies
  <2>. QED  BY <1>0, <1>6, <2>4, <2>5
<1>. QED  BY <1>0, <1>1, <1>3, <1>4, <1>5, <1>6 DEF Alone

\* Every step keeps the one pointer where it is, moves it on or takes it back.
LEMMA NextFirstCalls == IInv /\ FirstCalls /\ [Next]_vars => FirstCalls'
<1>. SUFFICES ASSUME IInv, FirstCalls, [Next]_vars, timeouts' = 0
              PROVE  Pooled' /\ Alone'
  BY DEF FirstCalls
<1>0. TypeOK /\ Holds /\ NULL \notin Msgs /\ MSG_RING_SIZE \in Nat \ {0, 1}
  BY IpcAssumption DEF IInv
<1>00. pool \in [Msgs -> Nat] /\ timeouts \in Nat /\ ring_out \in [Types -> Seq(Msgs)]
       /\ serving \in Msgs \cup {NULL} /\ msg \in Msgs \cup {NULL}
  BY <1>0 DEF TypeOK
<1>1. ASSUME NEW m \in Msgs, NEW r \in Requests, request(m, r)
      PROVE  Pooled' /\ Alone'
  <2>1. /\ pool' = [pool EXCEPT ![m] = @ - 1] /\ msg = NULL /\ msg' = m
        /\ pc = "idle" /\ pc' = "send"
        /\ UNCHANGED <<ring_in, ring_out, serving, timeouts>>
    BY <1>0, <1>1 DEF request, Holds
  <2>2. Pooled /\ Alone
    BY <2>1 DEF FirstCalls
  <2>3. Pooled'
    BY <1>0, <1>00, <2>1, <2>2 DEF Pooled
  <2>. QED  BY <2>1, <2>2, <2>3 DEF Alone, NoAnswers
<1>2. ASSUME NEW m \in Msgs, NEW r \in Requests, request_too_long(m, r)
      PROVE  Pooled' /\ Alone'
  BY <1>2 DEF request_too_long, FirstCalls, Pooled, Alone, NoAnswers
<1>3. CASE ff_ipc_send
  <2>1. /\ pc = "send" /\ pc' = "recv" /\ ring_in' = Append(ring_in, msg) /\ msg \in Msgs
        /\ UNCHANGED <<pool, ring_out, msg, serving, timeouts>>
    BY <1>0, <1>00, <1>3 DEF ff_ipc_send, Holds, stack
  <2>2. Pooled /\ Alone
    BY <2>1 DEF FirstCalls
  <2>3. ring_in = <<>> /\ serving = NULL /\ NoAnswers(Types)
    BY <2>1, <2>2 DEF Alone
  <2>4. ring_in' = <<msg>>
    BY <2>1, <2>3, Singleton
  <2>. QED  BY <2>1, <2>2, <2>3, <2>4 DEF Alone, NoAnswers, Pooled
<1>4. CASE ff_ipc_send_fails
  <2>1. /\ pc = "send" /\ pc' = "idle" /\ pool' = [pool EXCEPT ![msg] = @ + 1] /\ msg \in Msgs
        /\ msg' = NULL /\ UNCHANGED <<ring_in, ring_out, serving, timeouts>>
    BY <1>0, <1>00, <1>4 DEF ff_ipc_send_fails, Return, ff_ipc_msg_free, Holds, stack
  <2>2. Pooled /\ Alone
    BY <2>1 DEF FirstCalls
  <2>3. Pooled'
    BY <1>0, <1>00, <2>1, <2>2 DEF Pooled
  <2>. QED  BY <2>1, <2>2, <2>3 DEF Alone, NoAnswers
<1>5. CASE ff_ipc_recv
  <2>1. /\ pc = "recv" /\ pc' = "idle" /\ pool' = [pool EXCEPT ![msg] = @ + 1]
        /\ msg \in Msgs /\ msg' = NULL /\ type[msg] \in Types /\ ring_out[type[msg]] # <<>>
        /\ ring_out' = [ring_out EXCEPT ![type[msg]] = Tail(@)]
        /\ UNCHANGED <<ring_in, serving, timeouts>>
    BY <1>0, <1>00, <1>5 DEF ff_ipc_recv, Answers, Return, ff_ipc_msg_free, Holds, stack
  <2>2. Pooled /\ Alone
    BY <2>1 DEF FirstCalls
  <2>3. /\ ring_in = <<>> /\ serving = NULL
        /\ ring_out[type[msg]] = <<msg>> /\ NoAnswers(Types \ {type[msg]})
    BY <2>1, <2>2 DEF Alone, NoAnswers
  <2>4. NoAnswers(Types)'
    BY <1>00, <2>1, <2>3, Singleton DEF NoAnswers
  <2>5. Pooled'
    BY <1>0, <1>00, <2>1, <2>2 DEF Pooled
  <2>. QED  BY <2>1, <2>3, <2>4, <2>5 DEF Alone
<1>6. CASE ff_ipc_recv_other
  <2>1. /\ pc = "recv" /\ msg \in Msgs /\ type[msg] \in Types /\ UNCHANGED timeouts
        /\ ring_out[type[msg]] # <<>> /\ Head(ring_out[type[msg]]) # msg
    BY <1>0, <1>00, <1>6 DEF ff_ipc_recv_other, Answers, Holds
  <2>2. Alone
    BY <2>1 DEF FirstCalls
  <2>3. ring_out[type[msg]] = <<msg>>
    BY <2>1, <2>2 DEF Alone, NoAnswers
  <2>. QED  BY <2>1, <2>3, Singleton
<1>7. CASE ff_ipc_recv_times_out
  BY <1>00, <1>7 DEF ff_ipc_recv_times_out
<1>8. CASE process_msg_ring
  <2>1. /\ serving = NULL /\ ring_in # <<>> /\ serving' = Head(ring_in) /\ ring_in' = Tail(ring_in)
        /\ UNCHANGED <<pool, ring_out, pc, msg, timeouts>>
    BY <1>8 DEF process_msg_ring
  <2>2. Pooled /\ Alone
    BY <2>1 DEF FirstCalls
  <2>3. pc = "recv" /\ ring_in = <<msg>> /\ NoAnswers(Types) /\ msg \in Msgs
    BY <1>0, <1>00, <2>1, <2>2 DEF Alone, Holds
  <2>4. serving' = msg /\ ring_in' = <<>>
    BY <2>1, <2>3, Singleton
  <2>. QED  BY <2>1, <2>2, <2>3, <2>4 DEF Alone, NoAnswers, Pooled
<1>9. CASE handle_msg
  <2>1. /\ serving \in Msgs /\ serving' = NULL
        /\ ring_out' = [ring_out EXCEPT ![type[serving]] =
                          IF Len(@) < MSG_RING_SIZE - 1 THEN Append(@, serving) ELSE @]
        /\ UNCHANGED <<pool, ring_in, pc, msg, timeouts>>
    BY <1>00, <1>9 DEF handle_msg, Capacity
  <2>2. Pooled /\ Alone
    BY <2>1 DEF FirstCalls
  <2>3. pc = "recv" /\ ring_in = <<>> /\ serving = msg /\ NoAnswers(Types) /\ type[msg] \in Types
    BY <1>0, <2>1, <2>2 DEF Alone, Holds
  <2>4. PICK t \in Types : t = type[msg]
    BY <2>3
  <2>5. ring_out[t] = <<>> /\ Len(ring_out[t]) < MSG_RING_SIZE - 1
    BY <1>0, <2>3 DEF NoAnswers
  <2>6. ring_out' = [ring_out EXCEPT ![t] = <<msg>>]
    BY <2>1, <2>3, <2>4, <2>5, Singleton
  <2>7. ring_out'[t] = <<msg>> /\ NoAnswers(Types \ {t})'
    BY <1>00, <2>3, <2>6 DEF NoAnswers
  <2>. QED  BY <2>1, <2>2, <2>3, <2>7 DEF Alone, Pooled
<1>10. CASE UNCHANGED vars
  BY <1>10 DEF vars, FirstCalls, Pooled, Alone, NoAnswers
<1>. QED
  BY <1>1, <1>2, <1>3, <1>4, <1>5, <1>6, <1>7, <1>8, <1>9, <1>10 DEF Next, Tool, Stack

\* Until a call times out a message is with the pool, the tool or the stack, and
\* the stack handles no message whose arguments the tool has freed.
THEOREM OneOwnerUntilTimeout == Spec => []OneOwner
<1>1. Init => FirstCalls
  <2>. SUFFICES ASSUME Init PROVE Pooled /\ Alone
    BY DEF FirstCalls
  <2>1. Pooled
    BY IpcAssumption DEF Init, Pooled
  <2>2. NoAnswers(Types)
    BY DEF Init, NoAnswers
  <2>. QED  BY <2>1, <2>2 DEF Init, Alone
<1>2. IInv /\ FirstCalls => OneOwner
  BY AloneIsOneOwner
<1>. QED  BY <1>1, <1>2, InitIInv, NextIInv, NextFirstCalls, PTL DEF Spec

-----------------------------------------------------------------------------
(* What late answers cannot do.                                            *)

\* The last copy of the message that was sent is still to be handled, or being
\* handled as it was filled in, or the message holds the answer to the call.
LastHandled ==
  pc = "recv" =>
    \/ Contains(ring_in, msg)
    \/ serving = msg /\ ~torn
    \/ serving # msg /\ Right(msg)

\* A message on a ring is at its head or behind it.
LEMMA ContainsTail ==
  ASSUME NEW S, NEW q \in Seq(S), q # <<>>, NEW e, Contains(q, e), Head(q) # e
  PROVE  Contains(Tail(q), e)
<1>1. PICK i \in 1 .. Len(q) : q[i] = e
  BY DEF Contains
<1>2. /\ Len(Tail(q)) = Len(q) - 1 /\ \A j \in 1 .. Len(Tail(q)) : Tail(q)[j] = q[j + 1]
      /\ Len(q) \in Nat /\ Head(q) = q[1]
  BY HeadTailProperties, LenProperties
<1>3. i - 1 \in 1 .. Len(Tail(q)) /\ Tail(q)[i - 1] = e
  BY <1>1, <1>2
<1>. QED  BY <1>3 DEF Contains

\* The stack takes messages in the order they were sent, so the copy that was sent
\* last is handled last.
LEMMA NextLastHandled == IInv /\ LastHandled /\ [Next]_vars => LastHandled'
<1>. SUFFICES ASSUME IInv, LastHandled, [Next]_vars, pc' = "recv"
              PROVE  (\/ Contains(ring_in, msg)
                      \/ serving = msg /\ ~torn
                      \/ serving # msg /\ Right(msg))'
  BY DEF LastHandled
<1>0. TypeOK /\ Holds /\ NULL \notin Msgs
  BY IpcAssumption DEF IInv
<1>00. ring_in \in Seq(Msgs) /\ msg \in Msgs \cup {NULL} /\ serving \in Msgs \cup {NULL}
       /\ answer \in [Msgs -> {"none", "done", "ENOTSUP", "torn"}]
  BY <1>0 DEF TypeOK
<1>1. ASSUME NEW m \in Msgs, NEW r \in Requests, request(m, r) \/ request_too_long(m, r)
      PROVE  FALSE
  BY <1>1 DEF request, request_too_long
<1>2. CASE ff_ipc_send
  <2>1. ring_in' = Append(ring_in, msg) /\ msg' = msg /\ msg \in Msgs
    BY <1>0, <1>00, <1>2 DEF ff_ipc_send, Holds
  <2>2. Len(ring_in') \in Nat \ {0} /\ ring_in'[Len(ring_in')] = msg
    BY <1>00, <2>1, AppendProperties
  <2>. QED  BY <2>1, <2>2 DEF Contains
<1>3. CASE ff_ipc_send_fails \/ ff_ipc_recv \/ ff_ipc_recv_times_out
  BY <1>3 DEF ff_ipc_send_fails, ff_ipc_recv, ff_ipc_recv_times_out, Return
<1>4. CASE ff_ipc_recv_other
  BY <1>4 DEF ff_ipc_recv_other, contents, stack, LastHandled, Right
<1>5. CASE process_msg_ring
  <2>1. /\ serving = NULL /\ ring_in # <<>> /\ serving' = Head(ring_in) /\ torn' = FALSE
        /\ ring_in' = Tail(ring_in) /\ pc = "recv" /\ UNCHANGED <<msg, type, answer>>
    BY <1>5 DEF process_msg_ring, contents
  <2>2. msg \in Msgs
    BY <1>0, <1>00, <2>1 DEF Holds
  <2>3. Contains(ring_in, msg) \/ Right(msg)
    BY <1>0, <2>1, <2>2 DEF LastHandled
  <2>4. CASE Head(ring_in) = msg
    BY <2>1, <2>4
  <2>5. CASE Head(ring_in) # msg
    BY <1>00, <2>1, <2>3, <2>5, ContainsTail DEF Right
  <2>. QED  BY <2>4, <2>5
<1>6. CASE handle_msg
  <2>1. /\ serving \in Msgs /\ serving' = NULL /\ pc = "recv"
        /\ answer' = [answer EXCEPT ![serving] = IF torn THEN "torn"
                                           ELSE IF type[serving] \in Supported THEN "done"
                                           ELSE "ENOTSUP"]
        /\ UNCHANGED <<ring_in, msg, type>>
    BY <1>00, <1>6 DEF handle_msg
  <2>2. msg \in Msgs
    BY <1>0, <1>00, <2>1 DEF Holds
  <2>3. CASE Contains(ring_in, msg)
    BY <2>1, <2>3
  <2>4. CASE serving = msg /\ ~torn
    BY <1>0, <1>00, <2>1, <2>2, <2>4 DEF Right
  <2>5. CASE serving # msg /\ Right(msg)
    BY <1>0, <1>00, <2>1, <2>2, <2>5 DEF Right
  <2>. QED  BY <2>1, <2>3, <2>4, <2>5 DEF LastHandled
<1>7. CASE UNCHANGED vars
  BY <1>7 DEF vars, LastHandled, Right
<1>. QED
  BY <1>1, <1>2, <1>3, <1>4, <1>5, <1>6, <1>7 DEF Next, Tool, Stack

\* A call that takes its message off the ring when no other copy of it is under
\* way finds the result of its own request in it.
LEMMA SoleIsRight ==
  ASSUME IInv, LastHandled, ff_ipc_recv, \A a, b \in Copies(msg) : a = b
  PROVE  Right(msg)
<1>1. pc = "recv" /\ Answers # <<>> /\ Head(Answers) = msg
  BY DEF ff_ipc_recv
<1>2. type[msg] \in Types /\ Answers \in Seq(Msgs) /\ ring_in \in Seq(Msgs)
  BY <1>1, AnswersType DEF IInv, TypeOK
<1>3. PICK t \in Types : t = type[msg] /\ 1 \in DOMAIN ring_out[t] /\ ring_out[t][1] = msg
  BY <1>1, <1>2, LenProperties, EmptySeq DEF Answers
<1>4. <<"out", 1, t>> \in Copies(msg)
  BY <1>3 DEF Copies
<1>5. serving # msg
  <2>1. serving = msg => <<"serving", 0>> \in Copies(msg)
    BY DEF Copies
  <2>. QED  BY <1>4, <2>1
<1>6. ~Contains(ring_in, msg)
  <2>1. \A i \in 1 .. Len(ring_in) : ring_in[i] = msg => <<"in", i>> \in Copies(msg)
    BY <1>2, LenProperties DEF Copies
  <2>. QED  BY <1>4, <2>1 DEF Contains
<1>. QED  BY <1>1, <1>5, <1>6 DEF LastHandled

\* Late answers do no harm but to a call that is given their very message: a call
\* whose message has no other copy under way returns the result of its request.
THEOREM LateAnswersHarmless == Spec => SoleAnswer
<1>. DEFINE P == /\ pc = "recv" /\ pc' = "idle" /\ timeouts' = timeouts
                 /\ \A a, b \in Copies(msg) : a = b
<1>1. Init => LastHandled
  BY DEF Init, LastHandled
<1>2. ASSUME IInv, LastHandled, [Next]_vars, P
      PROVE  Right(msg)
  <2>1. ff_ipc_recv
    <3>1. ~process_msg_ring /\ ~handle_msg
      BY <1>2 DEF process_msg_ring, handle_msg
    <3>2. ~ff_ipc_send /\ ~ff_ipc_send_fails /\ ~ff_ipc_recv_other
      BY <1>2 DEF ff_ipc_send, ff_ipc_send_fails, ff_ipc_recv_other
    <3>3. ~ff_ipc_recv_times_out
      BY <1>2 DEF ff_ipc_recv_times_out, IInv, TypeOK
    <3>4. \A m \in Msgs, r \in Requests : ~request(m, r) /\ ~request_too_long(m, r)
      BY <1>2 DEF request, request_too_long
    <3>5. ~UNCHANGED vars
      BY <1>2 DEF vars
    <3>. QED  BY <1>2, <3>1, <3>2, <3>3, <3>4, <3>5 DEF Next, Tool, Stack
  <2>. QED  BY <1>2, <2>1, SoleIsRight
<1>3. IInv /\ LastHandled /\ [Next]_vars => [P => Right(msg)]_vars
  BY <1>2
<1>. QED  BY <1>1, <1>3, InitIInv, NextIInv, NextLastHandled, PTL DEF Spec, SoleAnswer

=============================================================================
