---------------------------- MODULE SessionProofs ----------------------------
(***************************************************************************)
(* Session for any number of connections, vaults and documents, and any    *)
(* capacity of channel and queues.                                         *)
(*                                                                         *)
(* The invariant speaks of one connection at a time (ControlOK, StreamOK,  *)
(* ToldOK) but for the log, every entry of which is published, about to be *)
(* or lost with its connection (LogOK).  Log and channel only grow, so a   *)
(* step of one connection leaves what is said of the others true.          *)
(***************************************************************************)
EXTENDS Session, SequenceTheorems, TLAPS

\* Only a blob path has no document and no sender; every change is somewhere.
LogOK ==
    /\ \A n \in Numbers : log[n].doc = NoDoc <=> log[n].by = NoConn
    /\ \A n \in Numbers :
          \/ \E i \in Places : chan[i] = n
          \/ \E s \in Conns : made[s] = n
          \/ n \in lost

\* A connection holds a change, or an answer, only between the two steps
\* that make it and send it, and nothing at all unless it is open.
ControlOK(c) ==
    /\ phase[c] # "open" =>
          /\ pc[c] = "idle" /\ fwd[c] = 0 /\ wq[c] = <<>> /\ ~writer[c]
          /\ got[c] = <<>> /\ synced[c] = {}
    /\ op[c] \in {"write", "start"} => doc[c] \in Docs
    /\ pc[c] \in {"idle", "lock", "work"} \/ op[c] = "big" => made[c] = 0
    /\ pc[c] = "publish" => made[c] # 0
    /\ pc[c] # "reply" \/ op[c] = "big" => answer[c] = {}
    /\ start[c] <= pos[c]

\* What the parts of c's stream have to do with each other.
Meets(c, i) == i \in start[c]..(pos[c] - 1) /\ Meant(c, chan[i])

StreamOK(c) ==
    /\ \A i, j \in 1..Len(got[c]) : i < j => got[c][i] < got[c][j]
    /\ \A i, j \in 1..Len(wq[c]) :
          i < j /\ wq[c][i].event # 0 /\ wq[c][j].event # 0 => wq[c][i].event < wq[c][j].event
    /\ \A i \in 1..Len(got[c]) : \A j \in 1..Len(wq[c]) :
          wq[c][j].event # 0 => got[c][i] < wq[c][j].event
    /\ fwd[c] # 0 => /\ Meets(c, fwd[c])
                     /\ \A i \in 1..Len(got[c]) : got[c][i] < fwd[c]
                     /\ \A j \in 1..Len(wq[c]) : wq[c][j].event < fwd[c]
    /\ \A i \in 1..Len(got[c]) : Meets(c, got[c][i])
    /\ \A j \in 1..Len(wq[c]) : wq[c][j].event # 0 => Meets(c, wq[c][j].event)
    /\ \A p \in Places : Meets(c, p) =>
          \/ \E i \in 1..Len(got[c]) : got[c][i] = p
          \/ \E j \in 1..Len(wq[c]) : wq[c][j].event = p
          \/ fwd[c] = p

\* The client knows what it was sent, a queued event tells its change, and
\* what was published before c subscribed came with the answer to sync_start.
ToldOK(c) ==
    /\ \A i \in 1..Len(got[c]) : chan[got[c][i]] \in knows[c]
    /\ \A j \in 1..Len(wq[c]) : wq[c][j].event # 0 => chan[wq[c][j].event] \in wq[c][j].tells
    /\ \A p \in Places : p < start[c] /\ chan[p] \in Owed(c) =>
          chan[p] \in knows[c] \cup answer[c] \cup Queued(c)

ConnOK(c) == ControlOK(c) /\ (Served(c) => StreamOK(c) /\ ToldOK(c))

IndInv == TypeOK /\ LogOK /\ \A c \in Conns : ConnOK(c)

-----------------------------------------------------------------------------
LEMMA InitIndInv == Init => IndInv
<1> SUFFICES ASSUME Init PROVE IndInv
  OBVIOUS
<1>1. Len(log) = 0 /\ Len(chan) = 0 /\ Numbers = {} /\ Places = {}
  BY DEF Init, Numbers, Places
<1>2. TypeOK
  BY <1>1, SessionAssumption
  DEF Init, TypeOK, Locks!MutexInit, Locks!MutexTypeOK
<1>3. LogOK
  BY <1>1 DEF LogOK
<1>4. ASSUME NEW c \in Conns PROVE ConnOK(c)
  BY DEF Init, ConnOK, ControlOK, Served, Open
<1> QED BY <1>2, <1>3, <1>4 DEF IndInv

-----------------------------------------------------------------------------
(* Steps of one connection.                                                *)

\* The log and the channel only grow.
Grows ==
    /\ Len(log) <= Len(log') /\ \A n \in Numbers : log'[n] = log[n]
    /\ Len(chan) <= Len(chan') /\ \A i \in Places : chan'[i] = chan[i]

\* Nothing of e changes.
Same(e) ==
    /\ phase'[e] = phase[e] /\ pos'[e] = pos[e] /\ pc'[e] = pc[e] /\ op'[e] = op[e]
    /\ doc'[e] = doc[e] /\ made'[e] = made[e] /\ answer'[e] = answer[e]
    /\ fwd'[e] = fwd[e] /\ wq'[e] = wq[e] /\ writer'[e] = writer[e]
    /\ start'[e] = start[e] /\ synced'[e] = synced[e] /\ got'[e] = got[e] /\ knows'[e] = knows[e]

\* What the types say of one connection, for the provers to use.
LEMMA ConnTypes ==
    ASSUME TypeOK, NEW c \in Conns
    PROVE  /\ Len(log) \in Nat /\ Len(chan) \in Nat
           /\ \A i \in Places : chan[i] \in Numbers
           /\ got[c] \in Seq(Places) /\ Len(got[c]) \in Nat
           /\ \A i \in 1..Len(got[c]) : got[c][i] \in Places
           /\ wq[c] \in Seq(Frame) /\ Len(wq[c]) \in Nat
           /\ \A j \in 1..Len(wq[c]) :
                 /\ wq[c][j].event \in Places \cup {0} /\ wq[c][j].tells \in SUBSET Numbers
                 /\ wq[c][j] \in Frame
           /\ fwd[c] \in Places \cup {0} /\ pos[c] \in 1..(Len(chan) + 1)
           /\ start[c] \in 1..(Len(chan) + 1)
           /\ knows[c] \in SUBSET Numbers /\ answer[c] \in SUBSET Numbers
<1>1. Len(log) \in Nat /\ Len(chan) \in Nat
  BY DEF TypeOK
<1>2. \A i \in Places : chan[i] \in Numbers
  BY DEF TypeOK, Places
<1>3. got[c] \in Seq(Places) /\ Len(got[c]) \in Nat /\ \A i \in 1..Len(got[c]) : got[c][i] \in Places
  BY DEF TypeOK
<1>4. wq[c] \in Seq(Frame) /\ Len(wq[c]) \in Nat /\ \A j \in 1..Len(wq[c]) : wq[c][j] \in Frame
  BY DEF TypeOK
<1>5. \A j \in 1..Len(wq[c]) :
          wq[c][j].event \in Places \cup {0} /\ wq[c][j].tells \in SUBSET Numbers
  BY <1>4 DEF Frame
<1>6. /\ fwd[c] \in Places \cup {0} /\ pos[c] \in 1..(Len(chan) + 1)
      /\ start[c] \in 1..(Len(chan) + 1)
      /\ knows[c] \in SUBSET Numbers /\ answer[c] \in SUBSET Numbers
  BY DEF TypeOK
<1> QED BY <1>1, <1>2, <1>3, <1>4, <1>5, <1>6

\* What a client is owed of the old changes does not change with new ones.
LEMMA MeantStays ==
    ASSUME Grows, NEW c \in Conns, NEW n \in Numbers
    PROVE  Meant(c, n)' <=> Meant(c, n)
BY DEF Grows, Meant

\* A step that leaves c's part of the channel, its queue and what it was
\* sent alone leaves its stream as it is; it may tell c more.
LEMMA StreamSame ==
    ASSUME TypeOK, TypeOK', Grows, NEW c \in Conns, ConnOK(c), Served(c)',
           phase'[c] = phase[c], writer'[c] = writer[c], fwd'[c] = fwd[c], wq'[c] = wq[c],
           pos'[c] = pos[c], start'[c] = start[c], got'[c] = got[c]
    PROVE  /\ Served(c) /\ StreamOK(c)'
           /\ knows[c] \subseteq knows'[c] /\ answer[c] \subseteq answer'[c]
                /\ synced'[c] = synced[c] => ToldOK(c)'
<1>1. Served(c) /\ StreamOK(c) /\ ToldOK(c)
  BY DEF Served, Open, ConnOK
<1>2. /\ Len(log) \in Nat /\ Len(chan) \in Nat
      /\ \A i \in Places : chan[i] \in Numbers
      /\ \A i \in 1..Len(got[c]) : got[c][i] \in Places
      /\ \A j \in 1..Len(wq[c]) : wq[c][j].event \in Places \cup {0}
      /\ fwd[c] \in Places \cup {0} /\ pos[c] \in 1..(Len(chan) + 1)
      /\ start[c] \in 1..(Len(chan) + 1)
  BY ConnTypes
<1>3. Numbers \subseteq Numbers' /\ Places \subseteq Places' /\ \A i \in Places : chan'[i] = chan[i]
  <2>1. Len(log') \in Nat /\ Len(chan') \in Nat
    BY DEF TypeOK
  <2> QED BY <1>2, <2>1 DEF Grows, Numbers, Places
<1>4. \A i \in Places : Meets(c, i)' <=> Meets(c, i)
  BY <1>2, <1>3, MeantStays DEF Meets
<1>5. \A i \in Places' : Meets(c, i)' \/ i < start[c] => i \in Places
  BY <1>2 DEF Meets, Places
<1>6. StreamOK(c)'
  BY <1>1, <1>2, <1>4, <1>5 DEF StreamOK
<1>7. ASSUME knows[c] \subseteq knows'[c], answer[c] \subseteq answer'[c], synced'[c] = synced[c]
      PROVE  ToldOK(c)'
  <2>1. \A n \in Numbers : n \in Owed(c)' <=> n \in Owed(c)
    BY <1>3, <1>7, MeantStays DEF Owed, Grows
  <2>2. \A n \in Numbers : n \in Queued(c) => n \in Queued(c)'
    BY <1>3 DEF Queued
  <2> QED BY <1>1, <1>2, <1>3, <1>5, <1>7, <2>1, <2>2 DEF ToldOK
<1> QED BY <1>1, <1>6, <1>7

LEMMA OthersKeep ==
    ASSUME TypeOK, TypeOK', Grows, NEW e \in Conns, Same(e), ConnOK(e)
    PROVE  ConnOK(e)'
<1>1. ControlOK(e)'
  BY DEF ConnOK, ControlOK, Same
<1>2. ASSUME Served(e)' PROVE StreamOK(e)' /\ ToldOK(e)'
  BY <1>2, StreamSame DEF Same
<1> QED BY <1>1, <1>2 DEF ConnOK

\* A step that leaves log and channel alone.
LEMMA QuietGrows ==
    ASSUME TypeOK, UNCHANGED <<log, chan>>
    PROVE  Grows /\ Numbers' = Numbers /\ Places' = Places /\ Frame' = Frame
<1>1. Len(log) \in Nat /\ Len(chan) \in Nat
  BY DEF TypeOK
<1> QED BY <1>1 DEF Grows, Numbers, Places, Frame

\* A step of c that leaves log and channel alone, publishes nothing and loses
\* nothing keeps the invariant, if it keeps what is said of c.
LEMMA QuietStep ==
    ASSUME IndInv, NEW c \in Conns, UNCHANGED <<log, chan, lost>>, made'[c] = made[c],
           \A e \in Conns \ {c} : Same(e),
           TypeOK', ConnOK(c)'
    PROVE  IndInv'
<1>1. TypeOK /\ LogOK /\ \A e \in Conns : ConnOK(e)
  BY DEF IndInv
<1>2. Grows /\ Numbers' = Numbers /\ Places' = Places
  BY <1>1, QuietGrows
<1>3. LogOK'
  BY <1>1, <1>2 DEF LogOK, Same
<1>4. \A e \in Conns \ {c} : ConnOK(e)'
  BY <1>1, <1>2, OthersKeep
<1> QED BY <1>3, <1>4 DEF IndInv

\* A connection that ends takes what it has queued with it; a change it has
\* not published is lost to the others until they sync again.
LEMMA EndIndInv ==
    ASSUME IndInv, NEW c \in Conns, End(c)
    PROVE  IndInv'
<1>1. TypeOK /\ LogOK /\ \A e \in Conns : ConnOK(e)
  BY DEF IndInv
<1>2. UNCHANGED <<log, chan>>
  BY DEF End
<1>3. Grows /\ Numbers' = Numbers /\ Places' = Places /\ Frame' = Frame
  BY <1>1, <1>2, QuietGrows
<1>4. \A e \in Conns \ {c} : Same(e)
  BY <1>1 DEF End, Same, TypeOK
<1>5. /\ phase'[c] = "closed" /\ pc'[c] = "idle" /\ op'[c] = "none" /\ made'[c] = 0
      /\ answer'[c] = {} /\ fwd'[c] = 0 /\ wq'[c] = <<>> /\ writer'[c] = FALSE
      /\ pos'[c] = 1 /\ start'[c] = 1 /\ synced'[c] = {} /\ got'[c] = <<>>
  BY <1>1 DEF End, TypeOK
<1>6. TypeOK'
  <2>1. Locks!MutexTypeOK'
    BY <1>1 DEF End, TypeOK, Locks!MutexTypeOK, Locks!Release, lockVars
  <2>2. lost' \subseteq Numbers
    <3>1. made[c] # 0 => made[c] \in Numbers
      BY <1>1 DEF TypeOK, Numbers
    <3> QED BY <1>1, <3>1 DEF End, TypeOK
  <2>3. /\ wq' \in [Conns -> Seq(Frame)] /\ (\A e \in Conns : Len(wq'[e]) <= QueueCap)
        /\ got' \in [Conns -> Seq(Places)]
    BY <1>1, SessionAssumption DEF End, TypeOK
  <2>4. connections' = {e \in Conns : phase'[e] \in {"greeted", "open"}}
    BY <1>1, <1>4, <1>5 DEF End, TypeOK, Same
  <2>5. 1 \in 1..(Len(chan) + 1)
    BY <1>1 DEF TypeOK
  <2> QED BY <1>1, <1>2, <1>3, <2>1, <2>2, <2>3, <2>4, <2>5 DEF End, TypeOK
<1>7. ConnOK(c)'
  BY <1>5 DEF ConnOK, ControlOK, Served, Open
<1>8. LogOK'
  <2>1. \A n \in Numbers : made[c] = n => n \in lost'
    BY <1>1 DEF End, Numbers, TypeOK
  <2>2. lost \subseteq lost'
    BY DEF End
  <2> QED BY <1>1, <1>2, <1>3, <1>4, <2>1, <2>2 DEF LogOK, Same
<1>9. \A e \in Conns \ {c} : ConnOK(e)'
  BY <1>1, <1>3, <1>4, <1>6, OthersKeep
<1> QED BY <1>6, <1>7, <1>8, <1>9 DEF IndInv

-----------------------------------------------------------------------------
(* Opening a connection.                                                   *)

LEMMA AuthFailsIndInv ==
    ASSUME IndInv, NEW c \in Conns, AuthFails(c)
    PROVE  IndInv'
<1>1. TypeOK /\ ConnOK(c)
  BY DEF IndInv
<1>2. /\ phase[c] = "new" /\ phase' = [phase EXCEPT ![c] = "closed"]
      /\ UNCHANGED <<log, chan, connections, pc, op, doc, made, answer, want, hold, pos, fwd,
                     wq, writer, got, knows, start, synced, lost>>
  BY DEF AuthFails, reqVars, lockVars, fwdVars, outVars, ghosts
<1>3. Numbers' = Numbers /\ Places' = Places /\ Frame' = Frame
  BY <1>1, <1>2, QuietGrows
<1>4. TypeOK'
  BY <1>1, <1>2, <1>3 DEF TypeOK, Locks!MutexTypeOK
<1>5. ConnOK(c)'
  BY <1>1, <1>2 DEF TypeOK, ConnOK, ControlOK, Served, Open
<1>6. \A e \in Conns \ {c} : Same(e)
  BY <1>1, <1>2 DEF TypeOK, Same
<1> QED BY <1>2, <1>4, <1>5, <1>6, QuietStep

LEMMA GreetIndInv ==
    ASSUME IndInv, NEW c \in Conns, Greet(c)
    PROVE  IndInv'
<1>1. TypeOK /\ ConnOK(c)
  BY DEF IndInv
<1>2. /\ phase[c] = "new" /\ phase' = [phase EXCEPT ![c] = "greeted"]
      /\ connections' = connections \cup {c}
      /\ UNCHANGED <<log, chan, pc, op, doc, made, answer, want, hold, pos, fwd,
                     wq, writer, got, knows, start, synced, lost>>
  BY DEF Greet, reqVars, lockVars, fwdVars, outVars, ghosts
<1>3. Numbers' = Numbers /\ Places' = Places /\ Frame' = Frame
  BY <1>1, <1>2, QuietGrows
<1>4. TypeOK'
  BY <1>1, <1>2, <1>3 DEF TypeOK, Locks!MutexTypeOK
<1>5. ConnOK(c)'
  BY <1>1, <1>2 DEF TypeOK, ConnOK, ControlOK, Served, Open
<1>6. \A e \in Conns \ {c} : Same(e)
  BY <1>1, <1>2 DEF TypeOK, Same
<1> QED BY <1>2, <1>4, <1>5, <1>6, QuietStep

\* The stream of a new subscription is empty, and nothing is owed yet.
LEMMA SubscribeIndInv ==
    ASSUME IndInv, NEW c \in Conns, Subscribe(c)
    PROVE  IndInv'
<1>1. TypeOK /\ ConnOK(c)
  BY DEF IndInv
<1>2. /\ phase[c] = "greeted" /\ phase' = [phase EXCEPT ![c] = "open"]
      /\ pos' = [pos EXCEPT ![c] = Len(chan) + 1] /\ start' = [start EXCEPT ![c] = Len(chan) + 1]
      /\ writer' = [writer EXCEPT ![c] = TRUE]
      /\ UNCHANGED <<log, chan, connections, pc, op, doc, made, answer, want, hold, fwd,
                     wq, got, knows, synced, lost>>
  BY DEF Subscribe, reqVars, lockVars
<1>3. Numbers' = Numbers /\ Places' = Places /\ Frame' = Frame
  BY <1>1, <1>2, QuietGrows
<1>4. Len(chan) \in Nat
  BY <1>1 DEF TypeOK
<1>5. TypeOK'
  BY <1>1, <1>2, <1>3, <1>4 DEF TypeOK, Locks!MutexTypeOK
<1>6. /\ fwd'[c] = 0 /\ Len(wq'[c]) = 0 /\ Len(got'[c]) = 0 /\ synced'[c] = {}
      /\ start'[c] = Len(chan) + 1 /\ pos'[c] = Len(chan) + 1
  BY <1>1, <1>2 DEF TypeOK, ConnOK, ControlOK
<1>7. ControlOK(c)'
  BY <1>1, <1>2, <1>4, <1>6 DEF TypeOK, ConnOK, ControlOK
<1>8. StreamOK(c)'
  BY <1>4, <1>6 DEF StreamOK, Meets
<1>9. ToldOK(c)'
  BY <1>6 DEF ToldOK, Owed
<1>10. \A e \in Conns \ {c} : Same(e)
  BY <1>1, <1>2 DEF TypeOK, Same
<1>11. ConnOK(c)'
  BY <1>7, <1>8, <1>9 DEF ConnOK
<1> QED BY <1>2, <1>5, <1>10, <1>11, QuietStep

-----------------------------------------------------------------------------
(* Requests.                                                               *)

LEMMA ReceiveIndInv ==
    ASSUME IndInv, NEW c \in Conns, Receive(c)
    PROVE  IndInv'
<1>1. TypeOK /\ ConnOK(c)
  BY DEF IndInv
<1>2. /\ phase[c] = "open" /\ pc[c] = "idle"
      /\ UNCHANGED <<log, chan, phase, connections, made, answer, pos, fwd,
                     wq, writer, got, knows, start, synced, lost>>
  BY DEF Receive, Open, fwdVars, outVars, ghosts
<1>3. PICK o \in Sends[c], d \in Docs :
          /\ op' = [op EXCEPT ![c] = o]
          /\ doc' = [doc EXCEPT ![c] = IF o \in {"write", "start"} THEN d ELSE NoDoc]
          /\ pc' = [pc EXCEPT ![c] =
                CASE o = "write" -> "lock" [] o = "start" -> "work" [] OTHER -> "reply"]
          /\ IF o = "write" THEN Locks!Request(c, <<VaultOf[c], d>>) ELSE UNCHANGED lockVars
  BY DEF Receive
<1>4. Grows /\ Numbers' = Numbers /\ Places' = Places /\ Frame' = Frame
  BY <1>1, <1>2, QuietGrows
<1>5. o \in {"write", "start", "other", "big"} /\ <<VaultOf[c], d>> \in Vaults \X Docs
  BY SessionAssumption
<1>6. Locks!MutexTypeOK'
  <2>1. Locks!MutexTypeOK
    BY <1>1 DEF TypeOK
  <2>2. CASE o = "write"
    <3>1. Locks!Request(c, <<VaultOf[c], d>>)
      BY <1>3, <2>2
    <3> QED BY <1>5, <2>1, <3>1 DEF Locks!MutexTypeOK, Locks!Request
  <2>3. CASE o # "write"
    BY <1>3, <2>1, <2>3 DEF Locks!MutexTypeOK, lockVars
  <2> QED BY <2>2, <2>3
<1>7. /\ pc' \in [Conns -> {"idle", "lock", "work", "reply", "publish"}]
      /\ pc'[c] \in {"lock", "work", "reply"}
      /\ op' \in [Conns -> {"none", "write", "start", "other", "big"}] /\ op'[c] = o
      /\ doc' \in [Conns -> Docs \cup {NoDoc}] /\ (o \in {"write", "start"} => doc'[c] \in Docs)
  BY <1>1, <1>3, <1>5 DEF TypeOK
<1>8. TypeOK'
  BY <1>1, <1>2, <1>4, <1>6, <1>7 DEF TypeOK
<1>9. ControlOK(c)'
  BY <1>1, <1>2, <1>7 DEF ConnOK, ControlOK
<1>10. Served(c)' => StreamOK(c)' /\ ToldOK(c)'
  BY <1>1, <1>2, <1>4, <1>8, StreamSame
<1>11. ConnOK(c)'
  BY <1>9, <1>10 DEF ConnOK
<1>12. \A e \in Conns \ {c} : Same(e)
  BY <1>1, <1>2, <1>3 DEF TypeOK, Same
<1> QED BY <1>2, <1>8, <1>11, <1>12, QuietStep

LEMMA LockIndInv ==
    ASSUME IndInv, NEW c \in Conns, Lock(c)
    PROVE  IndInv'
<1>1. TypeOK /\ ConnOK(c)
  BY DEF IndInv
<1>2. /\ pc[c] = "lock" /\ pc' = [pc EXCEPT ![c] = "work"] /\ Locks!Acquire(c)
      /\ UNCHANGED <<log, chan, phase, connections, op, doc, made, answer, pos, fwd,
                     wq, writer, got, knows, start, synced, lost>>
  BY DEF Lock, fwdVars, outVars, ghosts
<1>3. Grows /\ Numbers' = Numbers /\ Places' = Places /\ Frame' = Frame
  BY <1>1, <1>2, QuietGrows
<1>4. TypeOK'
  BY <1>1, <1>2, <1>3 DEF TypeOK, Locks!MutexTypeOK, Locks!Acquire
<1>5. ControlOK(c)'
  BY <1>1, <1>2 DEF TypeOK, ConnOK, ControlOK
<1>6. Served(c)' => StreamOK(c)' /\ ToldOK(c)'
  BY <1>1, <1>2, <1>3, <1>4, StreamSame
<1>7. ConnOK(c)'
  BY <1>5, <1>6 DEF ConnOK
<1>8. \A e \in Conns \ {c} : Same(e)
  BY <1>1, <1>2 DEF TypeOK, Same
<1> QED BY <1>2, <1>4, <1>7, <1>8, QuietStep

\* process_message returns, and with it the lock.
LEMMA AnswerTypes ==
    ASSUME TypeOK, NEW c \in Conns, NEW m, NEW s, Answer(c, m, s)
    PROVE  /\ Locks!MutexTypeOK'
           /\ pc' \in [Conns -> {"idle", "lock", "work", "reply", "publish"}] /\ pc'[c] = "reply"
           /\ made'[c] = m /\ answer'[c] = s
           /\ \A e \in Conns \ {c} : pc'[e] = pc[e] /\ made'[e] = made[e] /\ answer'[e] = answer[e]
           /\ made' = [made EXCEPT ![c] = m] /\ answer' = [answer EXCEPT ![c] = s]
<1>1. Locks!MutexTypeOK'
  BY DEF Answer, TypeOK, Locks!MutexTypeOK, Locks!Release, lockVars
<1> QED BY <1>1 DEF Answer, TypeOK

LEMMA RefuseIndInv ==
    ASSUME IndInv, NEW c \in Conns, Refuse(c)
    PROVE  IndInv'
<1>1. TypeOK /\ ConnOK(c)
  BY DEF IndInv
<1>2. /\ pc[c] = "work" /\ op[c] = "write" /\ Answer(c, 0, {})
      /\ UNCHANGED <<log, chan, phase, connections, op, doc, pos, fwd,
                     wq, writer, got, knows, start, synced, lost>>
  BY DEF Refuse, fwdVars, outVars, ghosts
<1>3. Grows /\ Numbers' = Numbers /\ Places' = Places /\ Frame' = Frame
  BY <1>1, <1>2, QuietGrows
<1>4. /\ Locks!MutexTypeOK' /\ pc'[c] = "reply" /\ made'[c] = 0 /\ answer'[c] = {}
      /\ pc' \in [Conns -> {"idle", "lock", "work", "reply", "publish"}]
      /\ \A e \in Conns \ {c} : pc'[e] = pc[e] /\ made'[e] = made[e] /\ answer'[e] = answer[e]
      /\ made' = [made EXCEPT ![c] = 0] /\ answer' = [answer EXCEPT ![c] = {}]
  BY <1>1, <1>2, AnswerTypes
<1>5. TypeOK'
  BY <1>1, <1>2, <1>3, <1>4 DEF TypeOK
<1>6. made[c] = 0 /\ answer[c] = {}
  BY <1>1, <1>2 DEF ConnOK, ControlOK
<1>7. ControlOK(c)'
  BY <1>1, <1>2, <1>4 DEF ConnOK, ControlOK
<1>8. Served(c)' => StreamOK(c)' /\ ToldOK(c)'
  BY <1>1, <1>2, <1>3, <1>4, <1>5, <1>6, StreamSame
<1>9. ConnOK(c)'
  BY <1>7, <1>8 DEF ConnOK
<1>10. \A e \in Conns \ {c} : Same(e)
  BY <1>2, <1>4 DEF Same
<1> QED BY <1>2, <1>4, <1>5, <1>6, <1>9, <1>10, QuietStep

\* sync_start answers with every change of the document, so that nothing
\* published before the subscription stays unknown.
LEMMA ReadDocIndInv ==
    ASSUME IndInv, NEW c \in Conns, ReadDoc(c)
    PROVE  IndInv'
<1> DEFINE s == {n \in Numbers : log[n].vault = VaultOf[c] /\ log[n].doc = doc[c]}
<1>1. TypeOK /\ ConnOK(c)
  BY DEF IndInv
<1>2. /\ pc[c] = "work" /\ op[c] = "start" /\ Answer(c, 0, s)
      /\ synced' = [synced EXCEPT ![c] = @ \cup {doc[c]}]
      /\ UNCHANGED <<log, chan, phase, connections, op, doc, pos, fwd,
                     wq, writer, got, knows, start, lost>>
  BY DEF ReadDoc, fwdVars, outVars
<1>3. Grows /\ Numbers' = Numbers /\ Places' = Places /\ Frame' = Frame
  BY <1>1, <1>2, QuietGrows
<1>4. /\ Locks!MutexTypeOK' /\ pc'[c] = "reply" /\ made'[c] = 0 /\ answer'[c] = s
      /\ pc' \in [Conns -> {"idle", "lock", "work", "reply", "publish"}]
      /\ \A e \in Conns \ {c} : pc'[e] = pc[e] /\ made'[e] = made[e] /\ answer'[e] = answer[e]
      /\ made' = [made EXCEPT ![c] = 0] /\ answer' = [answer EXCEPT ![c] = s]
  BY <1>1, <1>2, AnswerTypes
<1>5. s \in SUBSET Numbers
  OBVIOUS
<1>6. made[c] = 0 /\ answer[c] = {} /\ doc[c] \in Docs
  BY <1>1, <1>2 DEF ConnOK, ControlOK
<1>7. TypeOK'
  <2> HIDE DEF s
  <2> QED BY <1>1, <1>2, <1>3, <1>4, <1>5, <1>6 DEF TypeOK
<1>8. synced'[c] = synced[c] \cup {doc[c]} /\ \A e \in Conns \ {c} : synced'[e] = synced[e]
  BY <1>1, <1>2 DEF TypeOK
<1>9. ControlOK(c)'
  BY <1>1, <1>2, <1>4 DEF ConnOK, ControlOK
<1>10. ASSUME Served(c)' PROVE StreamOK(c)' /\ ToldOK(c)'
  <2>1. StreamOK(c)' /\ Served(c)
    BY <1>1, <1>2, <1>3, <1>7, <1>10, StreamSame
  <2>2. ToldOK(c)
    BY <1>1, <2>1 DEF ConnOK
  <2>3. \A n \in Owed(c)' : n \in Owed(c) \/ n \in s
    BY <1>2, <1>3, <1>8 DEF Owed, Meant
  <2>4. Queued(c)' = Queued(c)
    BY <1>2, <1>3 DEF Queued
  <2>5. \A p \in Places' : p < start'[c] /\ chan'[p] \in Owed(c)' =>
            chan'[p] \in knows'[c] \cup answer'[c] \cup Queued(c)'
    <3> HIDE DEF s
    <3> QED BY <1>2, <1>3, <1>4, <1>6, <2>2, <2>3, <2>4 DEF ToldOK
  <2> QED BY <1>2, <2>1, <2>2, <2>5 DEF ToldOK
<1>11. ConnOK(c)'
  BY <1>9, <1>10 DEF ConnOK
<1>12. \A e \in Conns \ {c} : Same(e)
  BY <1>2, <1>4, <1>8 DEF Same
<1> QED BY <1>2, <1>4, <1>6, <1>7, <1>11, <1>12, QuietStep

LEMMA SeqMono ==
    ASSUME NEW A, NEW B, A \subseteq B, NEW s \in Seq(A)
    PROVE  s \in Seq(B)
<1>1. Len(s) \in Nat /\ s \in [1..Len(s) -> B]
  BY LenProperties
<1> QED BY <1>1, SeqDef

\* Types stay true when log and channel grow.
LEMMA GrowTypes ==
    ASSUME TypeOK, Grows, log' \in Seq(Entry), chan' \in Seq(Numbers')
    PROVE  /\ Numbers \subseteq Numbers' /\ Places \subseteq Places' /\ Frame \subseteq Frame'
           /\ wq \in [Conns -> Seq(Frame')] /\ got \in [Conns -> Seq(Places')]
           /\ pos \in [Conns -> 1..(Len(chan') + 1)] /\ start \in [Conns -> 1..(Len(chan') + 1)]
           /\ made \in [Conns -> 0..Len(log')] /\ fwd \in [Conns -> Places' \cup {0}]
           /\ answer \in [Conns -> SUBSET Numbers'] /\ knows \in [Conns -> SUBSET Numbers']
           /\ lost \subseteq Numbers'
<1>1. Len(log) \in Nat /\ Len(chan) \in Nat /\ Len(log') \in Nat /\ Len(chan') \in Nat
  BY DEF TypeOK
<1>2. Numbers \subseteq Numbers' /\ Places \subseteq Places'
  BY <1>1 DEF Grows, Numbers, Places
<1>3. Frame \subseteq Frame'
  BY <1>2 DEF Frame
<1>4. wq \in [Conns -> Seq(Frame')]
  BY <1>3, SeqMono DEF TypeOK
<1>5. got \in [Conns -> Seq(Places')]
  BY <1>2, SeqMono DEF TypeOK
<1>6. /\ pos \in [Conns -> 1..(Len(chan') + 1)] /\ start \in [Conns -> 1..(Len(chan') + 1)]
      /\ made \in [Conns -> 0..Len(log')]
  BY <1>1 DEF TypeOK, Grows
<1>7. /\ fwd \in [Conns -> Places' \cup {0}]
      /\ answer \in [Conns -> SUBSET Numbers'] /\ knows \in [Conns -> SUBSET Numbers']
      /\ lost \subseteq Numbers'
  BY <1>2 DEF TypeOK
<1> QED BY <1>2, <1>3, <1>4, <1>5, <1>6, <1>7

\* A write appends to the log, and its connection owes the publication.
LEMMA CommitIndInv ==
    ASSUME IndInv, NEW c \in Conns, Commit(c)
    PROVE  IndInv'
<1> DEFINE entry == [vault |-> VaultOf[c], doc |-> doc[c], by |-> c]
           m == Len(log) + 1
<1>1. TypeOK /\ LogOK /\ \A e \in Conns : ConnOK(e)
  BY DEF IndInv
<1>2. /\ pc[c] = "work" /\ op[c] = "write" /\ Len(log) < MaxLog
      /\ log' = Append(log, entry) /\ Answer(c, m, {})
      /\ UNCHANGED <<chan, phase, connections, op, doc, pos, fwd,
                     wq, writer, got, knows, start, synced, lost>>
  BY DEF Commit, fwdVars, outVars, ghosts
<1>3. made[c] = 0 /\ answer[c] = {} /\ doc[c] \in Docs
  BY <1>1, <1>2 DEF ConnOK, ControlOK
<1>4. Len(log) \in Nat /\ Len(chan) \in Nat /\ chan \in Seq(Numbers) /\ log \in Seq(Entry)
  BY <1>1 DEF TypeOK
<1>5. entry \in Entry /\ entry.doc # NoDoc /\ entry.by # NoConn
  BY <1>3, SessionAssumption DEF Entry
<1>6. /\ log' \in Seq(Entry) /\ Len(log') = m /\ log'[m] = entry
      /\ \A n \in Numbers : log'[n] = log[n]
  <2> HIDE DEF entry
  <2> QED BY <1>2, <1>4, <1>5 DEF Numbers
<1>7. Grows
  <2>1. chan' = chan
    BY <1>2
  <2> HIDE DEF entry
  <2> QED BY <1>4, <1>6, <2>1 DEF Grows
<1>8. chan' \in Seq(Numbers')
  <2>1. Numbers \subseteq Numbers'
    BY <1>4, <1>6 DEF Numbers
  <2> QED BY <1>2, <1>4, <2>1, SeqMono
<1>9. /\ Locks!MutexTypeOK' /\ pc'[c] = "reply" /\ made'[c] = m /\ answer'[c] = {}
      /\ pc' \in [Conns -> {"idle", "lock", "work", "reply", "publish"}]
      /\ \A e \in Conns \ {c} : pc'[e] = pc[e] /\ made'[e] = made[e] /\ answer'[e] = answer[e]
      /\ made' = [made EXCEPT ![c] = m] /\ answer' = [answer EXCEPT ![c] = {}]
  BY <1>1, <1>2, AnswerTypes
<1>10. TypeOK'
  <2>1. m \in 0..Len(log') /\ Len(log') <= MaxLog
    BY <1>2, <1>4, <1>6, SessionAssumption
  <2> HIDE DEF m
  <2>2. made' \in [Conns -> 0..Len(log')] /\ answer' \in [Conns -> SUBSET Numbers']
    BY <1>1, <1>6, <1>7, <1>8, <1>9, <2>1, GrowTypes
  <2>3. Places' = Places /\ Len(chan') = Len(chan)
    BY <1>2 DEF Places
  <2> QED BY <1>1, <1>2, <1>6, <1>7, <1>8, <1>9, <2>1, <2>2, <2>3, GrowTypes DEF TypeOK
<1>11. \A e \in Conns \ {c} : Same(e)
  BY <1>2, <1>9 DEF Same
<1>12. ConnOK(c)'
  <2>1. ControlOK(c)'
    BY <1>1, <1>2, <1>4, <1>9 DEF ConnOK, ControlOK
  <2>2. Served(c)' => StreamOK(c)' /\ ToldOK(c)'
    BY <1>1, <1>2, <1>3, <1>7, <1>9, <1>10, StreamSame
  <2> QED BY <2>1, <2>2 DEF ConnOK
<1>13. LogOK'
  <2>1. \A n \in Numbers' : n \in Numbers \/ n = m
    BY <1>4, <1>6 DEF Numbers
  <2>2. Places' = Places /\ chan' = chan /\ lost' = lost
    BY <1>2 DEF Places
  <2>3. 0 \notin Numbers
    BY DEF Numbers
  <2> HIDE DEF m, entry
  <2>4. \A n \in Numbers' : log'[n].doc = NoDoc <=> log'[n].by = NoConn
    BY <1>1, <1>5, <1>6, <2>1 DEF LogOK
  <2>5. \A n \in Numbers' : \/ \E i \in Places : chan[i] = n
                            \/ \E s \in Conns : made'[s] = n
                            \/ n \in lost
    BY <1>1, <1>3, <1>9, <2>1, <2>3 DEF LogOK
  <2> QED BY <2>2, <2>4, <2>5 DEF LogOK
<1>14. \A e \in Conns \ {c} : ConnOK(e)'
  BY <1>1, <1>7, <1>10, <1>11, OthersKeep
<1> QED BY <1>10, <1>12, <1>13, <1>14 DEF IndInv

\* What was owed to the channel is there now.
LEMMA PublishIndInv ==
    ASSUME IndInv, NEW c \in Conns, Publish(c)
    PROVE  IndInv'
<1> DEFINE k == Len(chan) + 1
<1>1. TypeOK /\ LogOK /\ \A e \in Conns : ConnOK(e)
  BY DEF IndInv
<1>2. /\ pc[c] = "publish" /\ chan' = Append(chan, made[c]) /\ made' = [made EXCEPT ![c] = 0]
      /\ pc' = [pc EXCEPT ![c] = "idle"]
      /\ UNCHANGED <<log, phase, connections, op, doc, answer, want, hold, pos, fwd,
                     wq, writer, got, knows, start, synced, lost>>
  BY DEF Publish, lockVars, fwdVars, outVars, ghosts
<1>3. Len(log) \in Nat /\ Len(chan) \in Nat /\ chan \in Seq(Numbers) /\ made[c] \in Numbers
  BY <1>1, <1>2 DEF TypeOK, ConnOK, ControlOK, Numbers
<1>4. Numbers' = Numbers
  BY <1>2 DEF Numbers
<1>5. /\ chan' \in Seq(Numbers) /\ Len(chan') = k /\ chan'[k] = made[c]
      /\ \A i \in Places : chan'[i] = chan[i]
  BY <1>2, <1>3 DEF Places
<1>6. Grows /\ k \in Places' /\ Places \subseteq Places'
  BY <1>2, <1>3, <1>5 DEF Grows, Places
<1> HIDE DEF k
<1>7. TypeOK'
  <2>1. 0 \in 0..Len(log)
    BY <1>3
  <2> QED
    BY <1>1, <1>2, <1>4, <1>5, <1>6, <2>1, GrowTypes DEF TypeOK, Locks!MutexTypeOK
<1>8. made'[c] = 0 /\ pc'[c] = "idle" /\ \A e \in Conns \ {c} : made'[e] = made[e] /\ pc'[e] = pc[e]
  BY <1>1, <1>2 DEF TypeOK
<1>9. \A e \in Conns \ {c} : Same(e)
  BY <1>2, <1>8 DEF Same
<1>10. ConnOK(c)'
  <2>1. ControlOK(c)'
    BY <1>1, <1>2, <1>8 DEF ConnOK, ControlOK
  <2>2. Served(c)' => StreamOK(c)' /\ ToldOK(c)'
    BY <1>1, <1>2, <1>6, <1>7, StreamSame
  <2> QED BY <2>1, <2>2 DEF ConnOK
<1>11. LogOK'
  <2>1. lost' = lost /\ log' = log
    BY <1>2
  <2> QED BY <1>1, <1>4, <1>5, <1>6, <1>8, <2>1 DEF LogOK
<1>12. \A e \in Conns \ {c} : ConnOK(e)'
  BY <1>1, <1>6, <1>7, <1>9, OthersKeep
<1> QED BY <1>7, <1>10, <1>11, <1>12 DEF IndInv

LEMMA BlobPostedIndInv ==
    ASSUME IndInv, NEW v \in Vaults, BlobPosted(v)
    PROVE  IndInv'
<1> DEFINE entry == [vault |-> v, doc |-> NoDoc, by |-> NoConn]
           m == Len(log) + 1
           k == Len(chan) + 1
<1>1. TypeOK /\ LogOK /\ \A e \in Conns : ConnOK(e)
  BY DEF IndInv
<1>2. /\ Len(log) < MaxLog /\ log' = Append(log, entry) /\ chan' = Append(chan, m)
      /\ UNCHANGED <<phase, connections, pc, op, doc, made, answer, want, hold, pos, fwd,
                     wq, writer, got, knows, start, synced, lost>>
  BY DEF BlobPosted, reqVars, lockVars, fwdVars, outVars, ghosts
<1>3. Len(log) \in Nat /\ Len(chan) \in Nat /\ chan \in Seq(Numbers) /\ log \in Seq(Entry)
  BY <1>1 DEF TypeOK
<1>4. entry \in Entry /\ entry.doc = NoDoc /\ entry.by = NoConn
  BY DEF Entry
<1>5. /\ log' \in Seq(Entry) /\ Len(log') = m /\ log'[m] = entry
      /\ \A n \in Numbers : log'[n] = log[n]
  <2> HIDE DEF entry
  <2> QED BY <1>2, <1>3, <1>4 DEF Numbers
<1>6. Numbers \subseteq Numbers' /\ m \in Numbers' /\ \A n \in Numbers' : n \in Numbers \/ n = m
  BY <1>3, <1>5 DEF Numbers
<1>7. chan \in Seq(Numbers')
  BY <1>3, <1>6, SeqMono
<1>8. /\ chan' \in Seq(Numbers') /\ Len(chan') = k /\ chan'[k] = m
      /\ \A i \in Places : chan'[i] = chan[i]
  BY <1>2, <1>3, <1>6, <1>7 DEF Places
<1>9. Grows /\ k \in Places' /\ Places \subseteq Places'
  <2> HIDE DEF entry
  <2> QED BY <1>3, <1>5, <1>8 DEF Grows, Places
<1>10. Len(log') <= MaxLog
  BY <1>2, <1>3, <1>5, SessionAssumption
<1> HIDE DEF entry, m, k
<1>11. TypeOK'
  BY <1>1, <1>2, <1>5, <1>8, <1>9, <1>10, GrowTypes DEF TypeOK, Locks!MutexTypeOK
<1>12. \A e \in Conns : ConnOK(e)'
  <2>1. \A e \in Conns : Same(e)
    BY <1>2 DEF Same
  <2> QED BY <1>1, <1>9, <1>11, <2>1, OthersKeep
<1>13. LogOK'
  <2>1. lost' = lost /\ made' = made
    BY <1>2
  <2>2. \A n \in Numbers' : log'[n].doc = NoDoc <=> log'[n].by = NoConn
    BY <1>1, <1>4, <1>5, <1>6 DEF LogOK
  <2>3. \A n \in Numbers' : \/ \E i \in Places' : chan'[i] = n
                            \/ \E s \in Conns : made[s] = n
                            \/ n \in lost
    BY <1>1, <1>6, <1>8, <1>9 DEF LogOK
  <2> QED BY <2>1, <2>2, <2>3 DEF LogOK
<1> QED BY <1>11, <1>12, <1>13 DEF IndInv

\* The queue at its end: a frame more.
LEMMA QueueGrows ==
    ASSUME TypeOK, NEW c \in Conns, NEW f \in Frame, ~Full(c),
           wq' = [wq EXCEPT ![c] = Append(@, f)]
    PROVE  /\ wq' \in [Conns -> Seq(Frame)] /\ \A e \in Conns : Len(wq'[e]) <= QueueCap
           /\ \A e \in Conns \ {c} : wq'[e] = wq[e]
           /\ Len(wq'[c]) = Len(wq[c]) + 1 /\ wq'[c][Len(wq[c]) + 1] = f
           /\ \A j \in 1..Len(wq[c]) : wq'[c][j] = wq[c][j]
<1>1. wq[c] \in Seq(Frame) /\ Len(wq[c]) \in Nat
  BY DEF TypeOK
<1>2. wq'[c] = Append(wq[c], f) /\ \A e \in Conns \ {c} : wq'[e] = wq[e]
  BY DEF TypeOK
<1>3. /\ wq'[c] \in Seq(Frame) /\ Len(wq'[c]) = Len(wq[c]) + 1 /\ wq'[c][Len(wq[c]) + 1] = f
      /\ \A j \in 1..Len(wq[c]) : wq'[c][j] = wq[c][j]
  BY <1>1, <1>2
<1>4. Len(wq[c]) + 1 <= QueueCap
  BY <1>1, SessionAssumption DEF TypeOK, Full
<1>5. wq' \in [Conns -> Seq(Frame)]
  BY <1>2, <1>3 DEF TypeOK
<1> QED BY <1>2, <1>3, <1>4, <1>5 DEF TypeOK

\* The answer moves into the queue: no event, but it tells what it told.
LEMMA ReplyIndInv ==
    ASSUME IndInv, NEW c \in Conns, Reply(c)
    PROVE  IndInv'
<1> DEFINE f == Response(answer[c])
           last == Len(wq[c]) + 1
<1>1. TypeOK /\ ConnOK(c)
  BY DEF IndInv
<1>2. /\ pc[c] = "reply" /\ writer[c] /\ ~Full(c)
      /\ wq' = [wq EXCEPT ![c] = Append(@, f)]
      /\ answer' = [answer EXCEPT ![c] = {}]
      /\ pc' = [pc EXCEPT ![c] = IF made[c] = 0 THEN "idle" ELSE "publish"]
      /\ op' = [op EXCEPT ![c] = "none"] /\ doc' = [doc EXCEPT ![c] = NoDoc]
      /\ UNCHANGED <<log, chan, phase, connections, made, want, hold, pos, fwd,
                     writer, got, knows, start, synced, lost>>
  BY DEF Reply, lockVars, fwdVars, ghosts
<1>3. Numbers' = Numbers /\ Places' = Places /\ Frame' = Frame
  BY <1>1, <1>2, QuietGrows
<1>4. f \in Frame /\ f.event = 0 /\ f.tells = answer[c]
  BY <1>1 DEF TypeOK, Response, Frame
<1> HIDE DEF f
<1>5. /\ wq' \in [Conns -> Seq(Frame)] /\ \A e \in Conns : Len(wq'[e]) <= QueueCap
      /\ \A e \in Conns \ {c} : wq'[e] = wq[e]
      /\ Len(wq'[c]) = last /\ wq'[c][last] = f
      /\ \A j \in 1..Len(wq[c]) : wq'[c][j] = wq[c][j]
  BY <1>1, <1>2, <1>4, QueueGrows
<1>6. TypeOK'
  BY <1>1, <1>2, <1>3, <1>5 DEF TypeOK, Locks!MutexTypeOK
<1>7. ControlOK(c)'
  BY <1>1, <1>2 DEF TypeOK, ConnOK, ControlOK
<1>8. ASSUME Served(c)' PROVE StreamOK(c)' /\ ToldOK(c)'
  <2>1. StreamOK(c) /\ ToldOK(c)
    BY <1>1, <1>2, <1>8 DEF ConnOK, Served, Open
  <2>2. Len(wq[c]) \in Nat
    BY <1>1, ConnTypes
  <2>3. \A j \in 1..last : (j \in 1..Len(wq[c]) /\ wq'[c][j] = wq[c][j]) \/ wq'[c][j].event = 0
    BY <1>4, <1>5, <2>2
  <2>4. \A p : Meets(c, p)' <=> Meets(c, p)
    BY <1>2 DEF Meets, Meant
  <2>5. \A j \in 1..Len(wq[c]) : j \in 1..last
    BY <2>2
  <2>6. answer[c] \subseteq Queued(c)' /\ Queued(c) \subseteq Queued(c)'
    <3>1. last \in 1..last
      BY <2>2
    <3> QED BY <1>1, <1>3, <1>4, <1>5, <2>5, <3>1, ConnTypes DEF Queued
  <2>7. fwd[c] # 0 => \A j \in 1..last : wq'[c][j].event < fwd[c]
    <3>1. fwd[c] \in Nat
      BY <1>1, ConnTypes DEF Places
    <3> QED BY <2>1, <2>3, <3>1 DEF StreamOK
  <2>8. StreamOK(c)'
    BY <1>2, <1>3, <1>5, <2>1, <2>3, <2>4, <2>5, <2>7 DEF StreamOK
  <2>9. Owed(c)' = Owed(c)
    BY <1>2, <1>3 DEF Owed, Meant
  <2>10. ToldOK(c)'
    <3>1. UNCHANGED <<chan, got, knows, start>>
      BY <1>2
    <3>2. \A j \in 1..Len(wq'[c]) : wq'[c][j].event # 0 => chan[wq'[c][j].event] \in wq'[c][j].tells
      BY <1>5, <2>1, <2>3 DEF ToldOK
    <3>3. \A n : n \in knows[c] \cup answer[c] \cup Queued(c) => n \in knows[c] \cup answer'[c] \cup Queued(c)'
      BY <2>6
    <3>4. \A p \in Places : p < start[c] /\ chan[p] \in Owed(c) =>
              chan[p] \in knows[c] \cup answer'[c] \cup Queued(c)'
      BY <2>1, <3>3 DEF ToldOK
    <3> QED BY <1>3, <2>1, <2>9, <3>1, <3>2, <3>4 DEF ToldOK
  <2> QED BY <2>8, <2>10
<1>9. ConnOK(c)'
  BY <1>7, <1>8 DEF ConnOK
<1>10. \A e \in Conns \ {c} : Same(e)
  BY <1>1, <1>2, <1>5 DEF TypeOK, Same
<1>11. made'[c] = made[c] /\ UNCHANGED <<log, chan, lost>>
  BY <1>2
<1> QED BY <1>6, <1>9, <1>10, <1>11, QuietStep

LEMMA ReplyFailsIndInv ==
    ASSUME IndInv, NEW c \in Conns, ReplyFails(c)
    PROVE  IndInv'
<1>1. CASE End(c)
  BY <1>1, EndIndInv
<1>2. CASE /\ op[c] = "big" /\ pc' = [pc EXCEPT ![c] = "idle"] /\ op' = [op EXCEPT ![c] = "none"]
           /\ UNCHANGED <<log, chan, phase, connections, doc, made, answer, lockVars, fwdVars,
                          outVars, ghosts>>
  <2>1. TypeOK /\ ConnOK(c)
    BY DEF IndInv
  <2>2. UNCHANGED <<log, chan, phase, connections, doc, made, answer, want, hold, pos, fwd,
                    wq, writer, got, knows, start, synced, lost>>
    BY <1>2 DEF lockVars, fwdVars, outVars, ghosts
  <2>3. Grows /\ Numbers' = Numbers /\ Places' = Places /\ Frame' = Frame
    BY <2>1, <2>2, QuietGrows
  <2>4. TypeOK'
    BY <1>2, <2>1, <2>2, <2>3 DEF TypeOK, Locks!MutexTypeOK
  <2>5. ControlOK(c)'
    BY <1>2, <2>1, <2>2 DEF TypeOK, ConnOK, ControlOK
  <2>6. Served(c)' => StreamOK(c)' /\ ToldOK(c)'
    BY <2>1, <2>2, <2>3, <2>4, StreamSame
  <2>7. ConnOK(c)'
    BY <2>5, <2>6 DEF ConnOK
  <2>8. \A e \in Conns \ {c} : Same(e)
    BY <1>2, <2>1, <2>2 DEF TypeOK, Same
  <2> QED BY <2>2, <2>4, <2>7, <2>8, QuietStep
<1> QED BY <1>1, <1>2 DEF ReplyFails

-----------------------------------------------------------------------------
(* The forwarder and the writer.                                           *)

\* The filter of broadcast_fwd passes the changes meant for the client.
LEMMA RelevantMeant ==
    ASSUME LogOK, NEW c \in Conns, NEW n \in Numbers
    PROVE  Relevant(c, n) <=> Meant(c, n)
BY SessionAssumption DEF LogOK, Relevant, Meant

\* The receiver's next event is later than all it has read before.
LEMMA RecvIndInv ==
    ASSUME IndInv, NEW c \in Conns, Recv(c)
    PROVE  IndInv'
<1>1. TypeOK /\ LogOK /\ ConnOK(c)
  BY DEF IndInv
<1>2. /\ phase[c] = "open" /\ fwd[c] = 0 /\ pos[c] <= Len(chan)
      /\ pos' = [pos EXCEPT ![c] = @ + 1]
      /\ fwd' = [fwd EXCEPT ![c] = IF Relevant(c, chan[pos[c]]) THEN pos[c] ELSE 0]
      /\ UNCHANGED <<log, chan, phase, connections, pc, op, doc, made, answer, want, hold,
                     wq, writer, got, knows, start, synced, lost>>
  BY DEF Recv, Open, reqVars, lockVars, outVars, ghosts
<1>3. Numbers' = Numbers /\ Places' = Places /\ Frame' = Frame
  BY <1>1, <1>2, QuietGrows
<1>4. /\ Len(chan) \in Nat /\ pos[c] \in Places /\ pos[c] \in Nat /\ start[c] \in Nat
      /\ pos[c] + 1 \in 1..(Len(chan) + 1) /\ chan[pos[c]] \in Numbers /\ pos[c] # 0
  <2>1. Len(chan) \in Nat /\ pos[c] \in 1..(Len(chan) + 1) /\ start[c] \in 1..(Len(chan) + 1)
    BY <1>1, ConnTypes
  <2>2. pos[c] \in Places
    BY <1>2, <2>1 DEF Places
  <2> QED BY <1>1, <1>2, <2>1, <2>2, ConnTypes
<1>5. Relevant(c, chan[pos[c]]) <=> Meant(c, chan[pos[c]])
  BY <1>1, <1>4, RelevantMeant
<1>6. /\ pos'[c] = pos[c] + 1
      /\ fwd'[c] = IF Meant(c, chan[pos[c]]) THEN pos[c] ELSE 0
      /\ \A e \in Conns \ {c} : pos'[e] = pos[e] /\ fwd'[e] = fwd[e]
  BY <1>1, <1>2, <1>5 DEF TypeOK
<1>7. TypeOK'
  BY <1>1, <1>2, <1>3, <1>4 DEF TypeOK, Locks!MutexTypeOK
<1>8. ControlOK(c)'
  BY <1>1, <1>2, <1>4, <1>6 DEF ConnOK, ControlOK
<1>9. ASSUME Served(c)' PROVE StreamOK(c)' /\ ToldOK(c)'
  <2>1. StreamOK(c) /\ ToldOK(c) /\ start[c] <= pos[c]
    BY <1>1, <1>2, <1>9 DEF ConnOK, ControlOK, Served, Open
  <2>2. \A p \in Places : Meets(c, p)' <=> Meets(c, p) \/ (p = pos[c] /\ Meant(c, chan[p]))
    BY <1>2, <1>4, <1>6, <2>1 DEF Meets, Meant, Places
  <2>3. \A p \in Places : Meets(c, p) => p < pos[c]
    BY <1>4 DEF Meets, Places
  <2>4. /\ \A i \in 1..Len(got[c]) : got[c][i] \in Places
        /\ \A j \in 1..Len(wq[c]) : wq[c][j].event \in Places \cup {0}
    BY <1>1, ConnTypes
  <2>5. \A i \in 1..Len(got[c]) : got[c][i] < pos[c]
    BY <2>1, <2>3, <2>4 DEF StreamOK
  <2>6. \A j \in 1..Len(wq[c]) : wq[c][j].event < pos[c]
    BY <1>4, <2>1, <2>3, <2>4 DEF StreamOK
  <2>7. fwd'[c] # 0 => fwd'[c] = pos[c] /\ \A p \in Places : p = pos[c] => Meets(c, p)'
    BY <1>4, <1>6, <2>2
  <2>8. \A p \in Places : p = pos[c] /\ Meant(c, chan[p]) => fwd'[c] = p
    BY <1>6
  <2>9. /\ \A i \in 1..Len(got[c]) : \A p \in Places : p = got[c][i] => Meets(c, p)'
        /\ \A j \in 1..Len(wq[c]) : \A p \in Places : p = wq[c][j].event => Meets(c, p)'
    <3>1. \A p \in Places : p # 0
      BY DEF Places
    <3> QED BY <2>1, <2>2, <3>1 DEF StreamOK
  <2>10. \A p \in Places : Meets(c, p)' =>
            \/ \E i \in 1..Len(got[c]) : got[c][i] = p
            \/ \E j \in 1..Len(wq[c]) : wq[c][j].event = p
            \/ fwd'[c] = p
    <3>1. \A p \in Places : p # 0
      BY DEF Places
    <3> QED BY <1>2, <2>1, <2>2, <2>8, <3>1 DEF StreamOK
  <2>11. StreamOK(c)'
    <3>1. wq' = wq /\ got' = got
      BY <1>2
    <3>2. fwd'[c] # 0 => /\ fwd'[c] \in Places /\ \A p \in Places : p = fwd'[c] => Meets(c, p)'
                         /\ \A i \in 1..Len(got[c]) : got[c][i] < fwd'[c]
                         /\ \A j \in 1..Len(wq[c]) : wq[c][j].event < fwd'[c]
      BY <1>4, <2>5, <2>6, <2>7
    <3> QED BY <1>3, <2>1, <2>4, <2>9, <2>10, <3>1, <3>2 DEF StreamOK
  <2>12. Owed(c)' = Owed(c) /\ Queued(c)' = Queued(c)
    BY <1>2, <1>3 DEF Owed, Meant, Queued
  <2>13. ToldOK(c)'
    BY <1>2, <1>3, <2>1, <2>12 DEF ToldOK
  <2> QED BY <2>11, <2>13
<1>10. ConnOK(c)'
  BY <1>8, <1>9 DEF ConnOK
<1>11. \A e \in Conns \ {c} : Same(e)
  BY <1>2, <1>6 DEF Same
<1>12. made'[c] = made[c] /\ UNCHANGED <<log, chan, lost>>
  BY <1>2
<1> QED BY <1>7, <1>10, <1>11, <1>12, QuietStep

\* The event in the forwarder's hand goes to the end of the queue.
LEMMA EnqueueIndInv ==
    ASSUME IndInv, NEW c \in Conns, Enqueue(c)
    PROVE  IndInv'
<1> DEFINE f == Event(fwd[c])
           last == Len(wq[c]) + 1
<1>1. TypeOK /\ ConnOK(c)
  BY DEF IndInv
<1>2. /\ fwd[c] # 0 /\ writer[c] /\ ~Full(c)
      /\ wq' = [wq EXCEPT ![c] = Append(@, f)]
      /\ fwd' = [fwd EXCEPT ![c] = 0]
      /\ UNCHANGED <<log, chan, phase, connections, pc, op, doc, made, answer, want, hold, pos,
                     writer, got, knows, start, synced, lost>>
  BY DEF Enqueue, reqVars, lockVars, ghosts
<1>3. Numbers' = Numbers /\ Places' = Places /\ Frame' = Frame
  BY <1>1, <1>2, QuietGrows
<1>4. fwd[c] \in Places /\ chan[fwd[c]] \in Numbers
  BY <1>1, <1>2, ConnTypes
<1>5. f \in Frame /\ f.event = fwd[c] /\ f.tells = {chan[fwd[c]]}
  BY <1>4 DEF Event, Frame
<1> HIDE DEF f
<1>6. /\ wq' \in [Conns -> Seq(Frame)] /\ \A e \in Conns : Len(wq'[e]) <= QueueCap
      /\ \A e \in Conns \ {c} : wq'[e] = wq[e]
      /\ Len(wq'[c]) = last /\ wq'[c][last] = f
      /\ \A j \in 1..Len(wq[c]) : wq'[c][j] = wq[c][j]
  BY <1>1, <1>2, <1>5, QueueGrows
<1>7. fwd'[c] = 0 /\ \A e \in Conns \ {c} : fwd'[e] = fwd[e]
  BY <1>1, <1>2 DEF TypeOK
<1>8. TypeOK'
  BY <1>1, <1>2, <1>3, <1>6 DEF TypeOK, Locks!MutexTypeOK
<1>9. phase[c] = "open"
  BY <1>1, <1>2 DEF ConnOK, ControlOK
<1>10. ControlOK(c)'
  BY <1>1, <1>2, <1>9 DEF ConnOK, ControlOK
<1>11. StreamOK(c) /\ ToldOK(c)
  BY <1>1, <1>2, <1>9 DEF ConnOK, Served, Open
<1>12. Len(wq[c]) \in Nat
  BY <1>1, ConnTypes
<1>13. /\ \A j \in 1..last : (j \in 1..Len(wq[c]) /\ wq'[c][j] = wq[c][j]) \/ j = last
       /\ \A j \in 1..Len(wq[c]) : j \in 1..last /\ j < last
       /\ last \in 1..last
  BY <1>6, <1>12
<1>14. \A p : Meets(c, p)' <=> Meets(c, p)
  BY <1>2 DEF Meets, Meant
<1>15. StreamOK(c)'
  <2>1. /\ \A i, j \in 1..Len(wq'[c]) : i < j /\ wq'[c][i].event # 0 /\ wq'[c][j].event # 0
              => wq'[c][i].event < wq'[c][j].event
        /\ \A i \in 1..Len(got[c]) : \A j \in 1..Len(wq'[c]) :
              wq'[c][j].event # 0 => got[c][i] < wq'[c][j].event
    <3>1. \A i \in 1..last : ~(last < i)
      BY <1>12
    <3> HIDE DEF last
    <3> QED BY <1>2, <1>5, <1>6, <1>11, <1>13, <3>1 DEF StreamOK
  <2> HIDE DEF last
  <2>2. \A j \in 1..Len(wq'[c]) : \A p : p = wq'[c][j].event /\ p # 0 => Meets(c, p)
    BY <1>2, <1>5, <1>6, <1>11, <1>13 DEF StreamOK
  <2>3. \A p \in Places : Meets(c, p) =>
            \/ \E i \in 1..Len(got[c]) : got[c][i] = p
            \/ \E j \in 1..Len(wq'[c]) : wq'[c][j].event = p
    BY <1>5, <1>6, <1>11, <1>13 DEF StreamOK
  <2>4. got' = got
    BY <1>2
  <2> QED BY <1>3, <1>7, <1>11, <1>14, <2>1, <2>2, <2>3, <2>4 DEF StreamOK
<1>16. ToldOK(c)'
  <2> HIDE DEF last
  <2>1. Owed(c)' = Owed(c)
    BY <1>2, <1>3 DEF Owed, Meant
  <2>2. Queued(c) \subseteq Queued(c)'
    BY <1>3, <1>6, <1>13 DEF Queued
  <2>3. \A j \in 1..Len(wq'[c]) : wq'[c][j].event # 0 => chan[wq'[c][j].event] \in wq'[c][j].tells
    BY <1>5, <1>6, <1>11, <1>13 DEF ToldOK
  <2>4. UNCHANGED <<chan, got, knows, answer, start>>
    BY <1>2
  <2> QED BY <1>3, <1>11, <2>1, <2>2, <2>3, <2>4 DEF ToldOK
<1>17. ConnOK(c)'
  BY <1>10, <1>15, <1>16 DEF ConnOK
<1>18. \A e \in Conns \ {c} : Same(e)
  BY <1>2, <1>6, <1>7 DEF Same
<1>19. made'[c] = made[c] /\ UNCHANGED <<log, chan, lost>>
  BY <1>2
<1> QED BY <1>8, <1>17, <1>18, <1>19, QuietStep

\* The queue at its head: a frame less.
LEMMA QueueShrinks ==
    ASSUME TypeOK, NEW c \in Conns, wq[c] # <<>>, wq' = [wq EXCEPT ![c] = Tail(@)]
    PROVE  /\ wq' \in [Conns -> Seq(Frame)] /\ \A e \in Conns : Len(wq'[e]) <= QueueCap
           /\ \A e \in Conns \ {c} : wq'[e] = wq[e]
           /\ Head(wq[c]) = wq[c][1] /\ 1 \in 1..Len(wq[c])
           /\ Len(wq[c]) = Len(wq'[c]) + 1 /\ Len(wq'[c]) \in Nat
           /\ \A j \in 1..Len(wq'[c]) : j + 1 \in 1..Len(wq[c]) /\ wq'[c][j] = wq[c][j + 1]
<1>1. wq[c] \in Seq(Frame) /\ Len(wq[c]) \in Nat /\ Len(wq[c]) <= QueueCap
  BY DEF TypeOK
<1>2. wq'[c] = Tail(wq[c]) /\ \A e \in Conns \ {c} : wq'[e] = wq[e]
  BY DEF TypeOK
<1>3. Len(wq[c]) # 0
  BY <1>1
<1>4. /\ wq'[c] \in Seq(Frame) /\ Len(wq'[c]) = Len(wq[c]) - 1
      /\ \A j \in 1..Len(wq'[c]) : wq'[c][j] = wq[c][j + 1]
  <2>1. /\ Tail(wq[c]) \in Seq(Frame) /\ Len(Tail(wq[c])) = Len(wq[c]) - 1
        /\ \A j \in 1..Len(Tail(wq[c])) : Tail(wq[c])[j] = wq[c][j + 1]
    BY <1>1, HeadTailProperties
  <2> QED BY <1>2, <2>1
<1>5. wq' \in [Conns -> Seq(Frame)]
  BY <1>2, <1>4 DEF TypeOK
<1>6. Len(wq'[c]) <= QueueCap
  BY <1>1, <1>4, SessionAssumption
<1>7. \A j \in 1..Len(wq'[c]) : j + 1 \in 1..Len(wq[c])
  BY <1>1, <1>4
<1>8. Head(wq[c]) = wq[c][1] /\ 1 \in 1..Len(wq[c]) /\ Len(wq[c]) = Len(wq'[c]) + 1 /\ Len(wq'[c]) \in Nat
  BY <1>1, <1>3, <1>4
<1> QED BY <1>2, <1>4, <1>5, <1>6, <1>7, <1>8 DEF TypeOK

\* The head of the queue reaches the client: an event is the next of those
\* it got, and what the frame tells is known from now on.
LEMMA WriteIndInv ==
    ASSUME IndInv, NEW c \in Conns, Write(c)
    PROVE  IndInv'
<1> DEFINE f == wq[c][1]
           len == Len(got[c])
<1>1. TypeOK /\ ConnOK(c)
  BY DEF IndInv
<1>2. /\ writer[c] /\ wq[c] # <<>> /\ wq' = [wq EXCEPT ![c] = Tail(@)]
      /\ knows' = [knows EXCEPT ![c] = @ \cup Head(wq[c]).tells]
      /\ got' = [got EXCEPT ![c] = IF Head(wq[c]).event = 0 THEN @ ELSE Append(@, Head(wq[c]).event)]
      /\ UNCHANGED <<log, chan, phase, connections, pc, op, doc, made, answer, want, hold, pos, fwd,
                     writer, start, synced, lost>>
  BY DEF Write, reqVars, lockVars, fwdVars, ghosts
<1>3. Numbers' = Numbers /\ Places' = Places /\ Frame' = Frame
  BY <1>1, <1>2, QuietGrows
<1>4. /\ wq' \in [Conns -> Seq(Frame)] /\ \A e \in Conns : Len(wq'[e]) <= QueueCap
      /\ \A e \in Conns \ {c} : wq'[e] = wq[e]
      /\ Head(wq[c]) = f /\ 1 \in 1..Len(wq[c])
      /\ Len(wq[c]) = Len(wq'[c]) + 1 /\ Len(wq'[c]) \in Nat
      /\ \A j \in 1..Len(wq'[c]) : j + 1 \in 1..Len(wq[c]) /\ wq'[c][j] = wq[c][j + 1]
  BY <1>1, <1>2, QueueShrinks
<1>5. f.event \in Places \cup {0} /\ f.tells \in SUBSET Numbers
  BY <1>1, <1>4, ConnTypes
<1>6. got[c] \in Seq(Places) /\ len \in Nat
  BY <1>1, ConnTypes
<1> HIDE DEF f
<1>7. /\ got'[c] \in Seq(Places) /\ got' \in [Conns -> Seq(Places)]
      /\ \A e \in Conns \ {c} : got'[e] = got[e] /\ knows'[e] = knows[e]
      /\ knows'[c] = knows[c] \cup f.tells /\ knows' \in [Conns -> SUBSET Numbers]
  <2>1. got'[c] = IF f.event = 0 THEN got[c] ELSE Append(got[c], f.event)
    BY <1>1, <1>2, <1>4 DEF TypeOK
  <2>2. got'[c] \in Seq(Places)
    BY <1>5, <1>6, <2>1
  <2>3. got' \in [Conns -> Seq(Places)] /\ \A e \in Conns \ {c} : got'[e] = got[e]
    BY <1>1, <1>2, <2>2 DEF TypeOK
  <2>4. /\ knows'[c] = knows[c] \cup f.tells /\ knows' \in [Conns -> SUBSET Numbers]
        /\ \A e \in Conns \ {c} : knows'[e] = knows[e]
    BY <1>1, <1>2, <1>4, <1>5 DEF TypeOK
  <2> QED BY <2>2, <2>3, <2>4
<1>8. \/ f.event = 0 /\ got'[c] = got[c]
      \/ /\ f.event # 0 /\ Len(got'[c]) = len + 1 /\ got'[c][len + 1] = f.event
         /\ \A i \in 1..len : got'[c][i] = got[c][i]
  <2>1. got'[c] = IF f.event = 0 THEN got[c] ELSE Append(got[c], f.event)
    BY <1>1, <1>2, <1>4 DEF TypeOK
  <2> QED BY <1>5, <1>6, <2>1
<1>9. TypeOK'
  BY <1>1, <1>2, <1>3, <1>4, <1>7 DEF TypeOK, Locks!MutexTypeOK
<1>10. phase[c] = "open"
  BY <1>1, <1>2 DEF ConnOK, ControlOK
<1>11. ControlOK(c)'
  BY <1>1, <1>2, <1>10 DEF ConnOK, ControlOK
<1>12. StreamOK(c) /\ ToldOK(c)
  BY <1>1, <1>2, <1>10 DEF ConnOK, Served, Open
<1>13. \A p : Meets(c, p)' <=> Meets(c, p)
  BY <1>2 DEF Meets, Meant
\* The old events stay, the new one is the head's.
<1>14. /\ \A i \in 1..Len(got'[c]) :
             \/ i \in 1..len /\ got'[c][i] = got[c][i]
             \/ i = len + 1 /\ f.event # 0 /\ got'[c][i] = f.event
       /\ \A i \in 1..len : i \in 1..Len(got'[c]) /\ got'[c][i] = got[c][i]
       /\ f.event # 0 => len + 1 \in 1..Len(got'[c]) /\ got'[c][len + 1] = f.event
  BY <1>6, <1>8
<1>15. \A j \in 1..Len(wq[c]) : j = 1 \/ \E k \in 1..Len(wq'[c]) : wq'[c][k] = wq[c][j]
  <2>1. \A j \in 1..Len(wq[c]) : j # 1 => j - 1 \in 1..Len(wq'[c]) /\ (j - 1) + 1 = j
    BY <1>4
  <2> QED BY <1>4, <2>1
<1>16. StreamOK(c)'
  <2>0. \A j \in 1..Len(wq'[c]) : \E k \in 1..Len(wq[c]) : wq'[c][j] = wq[c][k]
    BY <1>4
  <2>1. \A i, j \in 1..Len(got'[c]) : i < j => got'[c][i] < got'[c][j]
    <3>1. \A i \in 1..len : i < len + 1 /\ ~(len + 1 < i)
      BY <1>6
    <3>2. ~(len + 1 < len + 1)
      BY <1>6
    <3>3. \A i \in 1..len : f.event # 0 => got[c][i] < f.event
      BY <1>4, <1>12 DEF StreamOK, f
    <3> QED BY <1>12, <1>14, <3>1, <3>2, <3>3 DEF StreamOK
  <2>2. /\ \A i, j \in 1..Len(wq'[c]) : i < j => i + 1 < j + 1
        /\ \A j \in 1..Len(wq'[c]) : 1 < j + 1
    BY <1>4
  <2>3. \A i, j \in 1..Len(wq'[c]) : i < j /\ wq'[c][i].event # 0 /\ wq'[c][j].event # 0
              => wq'[c][i].event < wq'[c][j].event
    <3> SUFFICES ASSUME NEW i \in 1..Len(wq'[c]), NEW j \in 1..Len(wq'[c]),
                        i < j, wq'[c][i].event # 0, wq'[c][j].event # 0
                 PROVE  wq'[c][i].event < wq'[c][j].event
      OBVIOUS
    <3>1. /\ i + 1 \in 1..Len(wq[c]) /\ j + 1 \in 1..Len(wq[c]) /\ i + 1 < j + 1
          /\ wq'[c][i] = wq[c][i + 1] /\ wq'[c][j] = wq[c][j + 1]
      BY <1>4, <2>2
    <3> QED BY <1>12, <3>1 DEF StreamOK
  <2>4. \A i \in 1..Len(got'[c]) : \A j \in 1..Len(wq'[c]) :
              wq'[c][j].event # 0 => got'[c][i] < wq'[c][j].event
    <3>1. \A j \in 1..Len(wq'[c]) : wq'[c][j].event # 0 /\ f.event # 0 => f.event < wq'[c][j].event
      <4> SUFFICES ASSUME NEW j \in 1..Len(wq'[c]), wq'[c][j].event # 0, f.event # 0
                   PROVE  f.event < wq'[c][j].event
        OBVIOUS
      <4>1. j + 1 \in 1..Len(wq[c]) /\ 1 < j + 1 /\ wq'[c][j] = wq[c][j + 1]
        BY <1>4, <2>2
      <4>2. \A k \in 1..Len(wq[c]) : 1 < k /\ wq[c][k].event # 0 => f.event < wq[c][k].event
        BY <1>4, <1>12 DEF StreamOK, f
      <4> QED BY <4>1, <4>2
    <3>2. \A i \in 1..len : \A j \in 1..Len(wq'[c]) :
              wq'[c][j].event # 0 => got[c][i] < wq'[c][j].event
      <4>1. \A i \in 1..len : \A k \in 1..Len(wq[c]) :
                wq[c][k].event # 0 => got[c][i] < wq[c][k].event
        BY <1>12 DEF StreamOK
      <4> HIDE DEF len
      <4> QED BY <2>0, <4>1
    <3> QED BY <1>14, <3>1, <3>2
  <2>5. fwd[c] # 0 => /\ \A i \in 1..Len(got'[c]) : got'[c][i] < fwd[c]
                      /\ \A j \in 1..Len(wq'[c]) : wq'[c][j].event < fwd[c]
    BY <1>4, <1>12, <1>14, <2>0 DEF StreamOK, f
  <2>6. /\ \A i \in 1..Len(got'[c]) : \A p : p = got'[c][i] => Meets(c, p)
        /\ \A j \in 1..Len(wq'[c]) : \A p : p = wq'[c][j].event /\ p # 0 => Meets(c, p)
    BY <1>4, <1>12, <1>14, <2>0 DEF StreamOK, f
  <2>7. \A p \in Places : Meets(c, p) =>
            \/ \E i \in 1..Len(got'[c]) : got'[c][i] = p
            \/ \E j \in 1..Len(wq'[c]) : wq'[c][j].event = p
            \/ fwd[c] = p
    <3> SUFFICES ASSUME NEW p \in Places, Meets(c, p)
                 PROVE  \/ \E i \in 1..Len(got'[c]) : got'[c][i] = p
                        \/ \E j \in 1..Len(wq'[c]) : wq'[c][j].event = p
                        \/ fwd[c] = p
      OBVIOUS
    <3>1. CASE \E i \in 1..len : got[c][i] = p
      BY <1>14, <3>1
    <3>2. CASE \E j \in 1..Len(wq[c]) : wq[c][j].event = p
      <4>1. p # 0
        BY DEF Places
      <4> QED BY <1>14, <1>15, <3>2, <4>1 DEF f
    <3>3. CASE fwd[c] = p
      BY <3>3
    <3> QED BY <1>12, <3>1, <3>2, <3>3 DEF StreamOK
  <2>8. fwd' = fwd
    BY <1>2
  <2> QED BY <1>3, <1>12, <1>13, <2>1, <2>3, <2>4, <2>5, <2>6, <2>7, <2>8 DEF StreamOK
<1>17. ToldOK(c)'
  <2>1. Owed(c)' = Owed(c)
    BY <1>2, <1>3 DEF Owed, Meant
  <2>2. Queued(c) \subseteq f.tells \cup Queued(c)'
    BY <1>3, <1>15 DEF Queued, f
  <2>3. /\ \A i \in 1..Len(got'[c]) : chan[got'[c][i]] \in knows'[c]
        /\ \A j \in 1..Len(wq'[c]) : wq'[c][j].event # 0 => chan[wq'[c][j].event] \in wq'[c][j].tells
    <3>1. f.event # 0 => chan[f.event] \in f.tells
      BY <1>4, <1>12 DEF ToldOK, f
    <3>2. \A j \in 1..Len(wq'[c]) : \E k \in 1..Len(wq[c]) : wq'[c][j] = wq[c][k]
      BY <1>4
    <3>3. \A i \in 1..Len(got'[c]) : chan[got'[c][i]] \in knows'[c]
      BY <1>7, <1>12, <1>14, <3>1 DEF ToldOK
    <3> QED BY <1>12, <3>2, <3>3 DEF ToldOK
  <2>4. UNCHANGED <<chan, answer, start>>
    BY <1>2
  <2>5. knows[c] \cup answer[c] \cup Queued(c) \subseteq knows'[c] \cup answer[c] \cup Queued(c)'
    BY <1>7, <2>2
  <2> QED BY <1>3, <1>12, <2>1, <2>3, <2>4, <2>5 DEF ToldOK
<1>18. ConnOK(c)'
  BY <1>11, <1>16, <1>17 DEF ConnOK
<1>19. \A e \in Conns \ {c} : Same(e)
  BY <1>2, <1>4, <1>7 DEF Same
<1>20. made'[c] = made[c] /\ UNCHANGED <<log, chan, lost>>
  BY <1>2
<1> QED BY <1>9, <1>18, <1>19, <1>20, QuietStep

LEMMA WriterFailsIndInv ==
    ASSUME IndInv, NEW c \in Conns, WriterFails(c)
    PROVE  IndInv'
<1>1. TypeOK /\ ConnOK(c)
  BY DEF IndInv
<1>2. /\ writer[c] /\ writer' = [writer EXCEPT ![c] = FALSE] /\ wq' = [wq EXCEPT ![c] = <<>>]
      /\ UNCHANGED <<log, chan, phase, connections, pc, op, doc, made, answer, want, hold, pos, fwd,
                     got, knows, start, synced, lost>>
  BY DEF WriterFails, reqVars, lockVars, fwdVars, ghosts
<1>3. Numbers' = Numbers /\ Places' = Places /\ Frame' = Frame
  BY <1>1, <1>2, QuietGrows
<1>4. wq' \in [Conns -> Seq(Frame)] /\ \A e \in Conns : Len(wq'[e]) <= QueueCap
  BY <1>1, <1>2, SessionAssumption DEF TypeOK
<1>5. TypeOK'
  BY <1>1, <1>2, <1>3, <1>4 DEF TypeOK, Locks!MutexTypeOK
<1>6. ~writer'[c] /\ wq'[c] = <<>> /\ \A e \in Conns \ {c} : wq'[e] = wq[e] /\ writer'[e] = writer[e]
  BY <1>1, <1>2 DEF TypeOK
<1>7. ConnOK(c)'
  BY <1>1, <1>2, <1>6 DEF ConnOK, ControlOK, Served
<1>8. \A e \in Conns \ {c} : Same(e)
  BY <1>2, <1>6 DEF Same
<1> QED BY <1>2, <1>5, <1>7, <1>8, QuietStep

-----------------------------------------------------------------------------
(* The invariant.                                                          *)

LEMMA NextIndInv == IndInv /\ [Next]_vars => IndInv'
<1> SUFFICES ASSUME IndInv, [Next]_vars PROVE IndInv'
  OBVIOUS
<1>1. ASSUME NEW c \in Conns, AuthFails(c) \/ Greet(c) \/ Subscribe(c) PROVE IndInv'
  BY <1>1, AuthFailsIndInv, GreetIndInv, SubscribeIndInv
<1>2. ASSUME NEW c \in Conns, Receive(c) \/ Lock(c) \/ Handle(c) PROVE IndInv'
  BY <1>2, ReceiveIndInv, LockIndInv, CommitIndInv, RefuseIndInv, ReadDocIndInv DEF Handle
<1>3. ASSUME NEW c \in Conns, Respond(c) \/ Hangup(c) PROVE IndInv'
  BY <1>3, ReplyIndInv, ReplyFailsIndInv, PublishIndInv, EndIndInv DEF Respond, Hangup
<1>4. ASSUME NEW c \in Conns, Forward(c) PROVE IndInv'
  BY <1>4, RecvIndInv, EnqueueIndInv, EndIndInv DEF Forward, Lagged, EnqueueFails
<1>5. ASSUME NEW c \in Conns, Write(c) \/ WriterFails(c) PROVE IndInv'
  BY <1>5, WriteIndInv, WriterFailsIndInv
<1>6. ASSUME NEW v \in Vaults, BlobPosted(v) PROVE IndInv'
  BY <1>6, BlobPostedIndInv
<1>7. CASE UNCHANGED vars
  <2>1. UNCHANGED <<log, chan, phase, connections, pc, op, doc, made, answer, want, hold, pos, fwd,
                    wq, writer, got, knows, start, synced, lost>>
    BY <1>7 DEF vars, reqVars, lockVars, fwdVars, outVars, ghosts
  <2>2. TypeOK /\ LogOK /\ \A c \in Conns : ConnOK(c)
    BY DEF IndInv
  <2>3. Grows /\ Numbers' = Numbers /\ Places' = Places /\ Frame' = Frame
    BY <2>1, <2>2, QuietGrows
  <2>4. TypeOK'
    BY <2>1, <2>2, <2>3 DEF TypeOK, Locks!MutexTypeOK
  <2>5. \A c \in Conns : ConnOK(c)'
    <3>1. \A c \in Conns : Same(c)
      BY <2>1 DEF Same
    <3> QED BY <2>2, <2>3, <2>4, <3>1, OthersKeep
  <2>6. LogOK'
    BY <2>1, <2>2, <2>3 DEF LogOK
  <2> QED BY <2>4, <2>5, <2>6 DEF IndInv
<1> QED BY <1>1, <1>2, <1>3, <1>4, <1>5, <1>6, <1>7 DEF Next

LEMMA SpecIndInv == Spec => []IndInv
<1>1. Init => IndInv
  BY InitIndInv
<1>2. IndInv /\ [Next]_vars => IndInv'
  BY NextIndInv
<1> QED BY <1>1, <1>2, PTL DEF Spec

-----------------------------------------------------------------------------
(* What follows from it.                                                   *)

\* The stream of a connection, part by part.
LEMMA StreamParts ==
    ASSUME TypeOK, NEW c \in Conns
    PROVE  LET g == Len(got[c])
               q == Len(wq[c])
               s == Stream(c)
           IN  /\ g \in Nat /\ q \in Nat /\ Len(s) = g + q + 1
               /\ \A i \in 1..g : s[i] = got[c][i]
               /\ \A j \in 1..q : s[g + j] = wq[c][j].event
               /\ s[g + q + 1] = fwd[c]
<1> DEFINE g == Len(got[c])
           q == Len(wq[c])
           mid == [i \in 1..q |-> wq[c][i].event]
           front == got[c] \o mid
           E == Places \cup {0}
<1>1. got[c] \in Seq(E) /\ g \in Nat /\ q \in Nat /\ fwd[c] \in E
  <2>1. got[c] \in Seq(Places) /\ g \in Nat /\ q \in Nat /\ fwd[c] \in E
    BY ConnTypes
  <2> QED BY <2>1
<1>2. mid \in Seq(E) /\ Len(mid) = q /\ \A j \in 1..q : mid[j] = wq[c][j].event
  <2>1. \A j \in 1..q : wq[c][j].event \in E
    BY ConnTypes
  <2> HIDE DEF E
  <2>2. mid \in [1..q -> E] /\ q \in Nat
    BY <1>1, <2>1
  <2>3. mid \in Seq(E)
    BY <2>2
  <2> QED BY <1>1, <2>2, <2>3
<1> HIDE DEF mid, E, g, q
<1>3. /\ front \in Seq(E) /\ Len(front) = g + q
      /\ \A i \in 1..g : front[i] = got[c][i]
      /\ \A j \in 1..q : front[g + j] = mid[j]
  BY <1>1, <1>2 DEF g
<1> HIDE DEF front
<1>4. Stream(c) = front \o <<fwd[c]>>
  BY DEF Stream, front, mid, q
<1>5. /\ Len(front \o <<fwd[c]>>) = g + q + 1 /\ (front \o <<fwd[c]>>)[g + q + 1] = fwd[c]
      /\ \A i \in 1..(g + q) : (front \o <<fwd[c]>>)[i] = front[i]
  BY <1>1, <1>3
<1>6. /\ \A i \in 1..g : i \in 1..(g + q)
      /\ \A j \in 1..q : g + j \in 1..(g + q)
  BY <1>1
<1>7. /\ g \in Nat /\ q \in Nat /\ Len(Stream(c)) = g + q + 1
      /\ \A i \in 1..g : Stream(c)[i] = got[c][i]
      /\ \A j \in 1..q : Stream(c)[g + j] = wq[c][j].event
      /\ Stream(c)[g + q + 1] = fwd[c]
  BY <1>1, <1>2, <1>3, <1>4, <1>5, <1>6
<1> QED BY <1>7 DEF g, q

LEMMA IndInvStreamExact == IndInv => StreamExact
<1> SUFFICES ASSUME IndInv, NEW c \in Conns, Served(c)
             PROVE  LET s == Stream(c) IN
                    /\ \A i, j \in 1..Len(s) : i < j /\ s[i] # 0 /\ s[j] # 0 => s[i] < s[j]
                    /\ {s[i] : i \in 1..Len(s)} \ {0}
                           = {i \in start[c]..(pos[c] - 1) : Meant(c, chan[i])}
  BY DEF StreamExact
<1> DEFINE g == Len(got[c])
           q == Len(wq[c])
           s == Stream(c)
<1>1. TypeOK /\ StreamOK(c)
  BY DEF IndInv, ConnOK
<1>2. /\ g \in Nat /\ q \in Nat /\ Len(s) = g + q + 1
      /\ \A i \in 1..g : s[i] = got[c][i]
      /\ \A j \in 1..q : s[g + j] = wq[c][j].event
      /\ s[g + q + 1] = fwd[c]
  BY <1>1, StreamParts
<1>3. /\ Len(chan) \in Nat /\ fwd[c] \in Places \cup {0}
      /\ start[c] \in 1..(Len(chan) + 1) /\ pos[c] \in 1..(Len(chan) + 1)
      /\ \A i \in 1..g : got[c][i] \in Places
      /\ \A j \in 1..q : wq[c][j].event \in Places \cup {0}
  BY <1>1, ConnTypes
<1>4. \A p \in Places : p # 0
  BY DEF Places
<1> HIDE DEF s
\* A place of the stream is in one of its three parts.
<1>5. \A i \in 1..Len(s) :
          \/ i \in 1..g /\ s[i] = got[c][i]
          \/ \E k \in 1..q : i = g + k /\ s[i] = wq[c][k].event
          \/ i = g + q + 1 /\ s[i] = fwd[c]
  <2> SUFFICES ASSUME NEW i \in 1..Len(s)
               PROVE  \/ i \in 1..g /\ s[i] = got[c][i]
                      \/ \E k \in 1..q : i = g + k /\ s[i] = wq[c][k].event
                      \/ i = g + q + 1 /\ s[i] = fwd[c]
    OBVIOUS
  <2>1. i \in 1..g \/ (i - g \in 1..q /\ i = g + (i - g)) \/ i = g + q + 1
    <3> HIDE DEF g, q
    <3> QED BY <1>2
  <2> QED BY <1>2, <2>1
<1>6. ASSUME NEW i \in 1..Len(s), NEW j \in 1..Len(s), i < j, s[i] # 0, s[j] # 0
      PROVE  s[i] < s[j]
  <2>1. CASE i \in 1..g /\ s[i] = got[c][i]
    <3>1. CASE j \in 1..g /\ s[j] = got[c][j]
      BY <1>1, <1>6, <2>1, <3>1 DEF StreamOK
    <3>2. CASE \E k \in 1..q : j = g + k /\ s[j] = wq[c][k].event
      BY <1>1, <1>6, <2>1, <3>2 DEF StreamOK
    <3>3. CASE j = g + q + 1 /\ s[j] = fwd[c]
      BY <1>1, <1>6, <2>1, <3>3 DEF StreamOK
    <3> QED BY <1>5, <3>1, <3>2, <3>3
  <2>2. CASE \E k \in 1..q : i = g + k /\ s[i] = wq[c][k].event
    <3>1. PICK k \in 1..q : i = g + k /\ s[i] = wq[c][k].event
      BY <2>2
    <3>2. CASE j \in 1..g
      BY <1>2, <1>6, <3>1, <3>2
    <3>3. CASE \E l \in 1..q : j = g + l /\ s[j] = wq[c][l].event
      <4>1. PICK l \in 1..q : j = g + l /\ s[j] = wq[c][l].event
        BY <3>3
      <4>2. k < l
        BY <1>2, <1>6, <3>1, <4>1
      <4> QED BY <1>1, <1>6, <3>1, <4>1, <4>2 DEF StreamOK
    <3>4. CASE j = g + q + 1 /\ s[j] = fwd[c]
      BY <1>1, <1>6, <3>1, <3>4 DEF StreamOK
    <3> QED BY <1>5, <3>2, <3>3, <3>4
  <2>3. CASE i = g + q + 1
    <3> HIDE DEF g, q
    <3> QED BY <1>2, <1>6, <2>3
  <2> QED BY <1>5, <2>1, <2>2, <2>3
<1>7. \A i \in 1..Len(s) : s[i] # 0 => Meets(c, s[i])
  BY <1>1, <1>5 DEF StreamOK
<1>8. \A p : Meets(c, p) => p \in Places
  BY <1>3 DEF Meets, Places
<1>9. \A p : Meets(c, p) => \E i \in 1..Len(s) : s[i] = p
  <2> SUFFICES ASSUME NEW p, Meets(c, p) PROVE \E i \in 1..Len(s) : s[i] = p
    OBVIOUS
  <2>1. /\ \A i \in 1..g : i \in 1..Len(s)
        /\ \A k \in 1..q : g + k \in 1..Len(s)
        /\ g + q + 1 \in 1..Len(s)
    <3> HIDE DEF g, q
    <3> QED BY <1>2
  <2>2. CASE \E i \in 1..g : got[c][i] = p
    BY <1>2, <2>1, <2>2
  <2>3. CASE \E k \in 1..q : wq[c][k].event = p
    BY <1>2, <2>1, <2>3
  <2>4. CASE fwd[c] = p
    BY <1>2, <2>1, <2>4
  <2> QED BY <1>1, <1>8, <2>2, <2>3, <2>4 DEF StreamOK
<1>10. {s[i] : i \in 1..Len(s)} \ {0} = {i \in start[c]..(pos[c] - 1) : Meant(c, chan[i])}
  BY <1>4, <1>7, <1>8, <1>9 DEF Meets
<1> QED BY <1>6, <1>10 DEF s

LEMMA IndInvNoSilentLoss == IndInv => NoSilentLoss
<1> SUFFICES ASSUME IndInv, NEW c \in Conns, Served(c), NEW n \in Owed(c),
                    ~\E s \in Conns : made[s] = n, n \notin lost
             PROVE  n \in knows[c] \cup answer[c] \cup Queued(c) \cup Ahead(c)
  BY DEF NoSilentLoss
<1>1. TypeOK /\ LogOK /\ StreamOK(c) /\ ToldOK(c)
  BY DEF IndInv, ConnOK
<1>2. n \in Numbers /\ Meant(c, n)
  BY DEF Owed
<1>3. PICK p \in Places : chan[p] = n
  BY <1>1, <1>2 DEF LogOK
<1>4. /\ Len(chan) \in Nat /\ start[c] \in 1..(Len(chan) + 1) /\ pos[c] \in 1..(Len(chan) + 1)
      /\ p \in Nat /\ p <= Len(chan) /\ p # 0
  BY <1>1, ConnTypes DEF Places
<1>5. CASE p < start[c]
  BY <1>1, <1>3, <1>5 DEF ToldOK
<1>6. CASE p >= pos[c]
  <2>1. p \in pos[c]..Len(chan)
    BY <1>4, <1>6
  <2> QED BY <1>3, <2>1 DEF Ahead
<1>7. CASE start[c] <= p /\ p < pos[c]
  <2>1. Meets(c, p)
    BY <1>2, <1>3, <1>4, <1>7 DEF Meets
  <2>2. CASE \E i \in 1..Len(got[c]) : got[c][i] = p
    BY <1>1, <1>3, <2>2 DEF ToldOK
  <2>3. CASE \E j \in 1..Len(wq[c]) : wq[c][j].event = p
    BY <1>1, <1>2, <1>3, <1>4, <2>3 DEF ToldOK, Queued
  <2>4. CASE fwd[c] = p
    BY <1>3, <1>4, <2>4 DEF Ahead
  <2> QED BY <1>1, <2>1, <2>2, <2>3, <2>4 DEF StreamOK
<1> QED BY <1>4, <1>5, <1>6, <1>7

\* Every variable of the connections keeps its type; above all the registry
\* holds exactly the connections that were greeted and have not ended, and
\* no write queue exceeds the 64 frames of its channel.
THEOREM SessionTypes == Spec => []TypeOK
<1>1. IndInv => TypeOK
  BY DEF IndInv
<1> QED BY <1>1, SpecIndInv, PTL

\* A client is sent, in channel order, exactly the events meant for it since
\* it subscribed, however its forwarder, its responses and its writer
\* interleave, and whatever the capacities of channel and queue.
THEOREM StreamsExact == Spec => []StreamExact
BY SpecIndInv, IndInvStreamExact, PTL

\* A change that the client of a running connection is owed is known to it,
\* on its way, or not published: by a writer that is about to, or by one
\* whose connection ended between its commit and the publication.
THEOREM NothingLostSilently == Spec => []NoSilentLoss
BY SpecIndInv, IndInvNoSilentLoss, PTL
=============================================================================
