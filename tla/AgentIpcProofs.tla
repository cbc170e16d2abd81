---------------------------- MODULE AgentIpcProofs ----------------------------
(***************************************************************************)
(* For any clients, names and operations, and any number of calls, time-   *)
(* outs, failing statements and deaths of the daemon: every property of    *)
(* AgentIpc that is not a finding.                                         *)
(*                                                                         *)
(* The inductive invariant ties the state to the history of executed       *)
(* calls: the messages go on where the history ends (InOrder), every reply *)
(* is of the history (Replied), ids of pipelines come from one launch each *)
(* (PipesOK), and the file and the view of the connection, like what was   *)
(* read from them, are never behind a write that has been executed outside *)
(* an abandoned transaction (StoreOK, ReadOK).                             *)
(***************************************************************************)
EXTENDS AgentIpc, FiniteSetTheorems, TLAPS

Messages == {m \in [id : Nat, client : Clients, op : Stores \cup Pipes, name : Names \cup {"none"},
                    pipe : Nat] : m.op \in Stores => m.name \in Names}
Answers == [code : Garbage \cup {"none", "EIO", "ESTRPIPE"}, replied : BOOLEAN, value : Nat, pipe : Nat]
Entries == [call : Messages, answer : Answers, lasts : BOOLEAN]

Typed ==
    /\ call \in [Clients -> Messages \cup {NoCall}]
    /\ result \in [Clients -> Answers]
    /\ mail \subseteq Messages /\ done \in Seq(Entries) /\ replies \subseteq Entries
    /\ nodes \subseteq [id : Nat, by : Clients]

\* Calls are executed in the order of their numbers.
InOrder ==
    /\ \A x, y \in mail : x.id = y.id => x = y
    /\ \A i \in DOMAIN done, x \in mail : done[i].call.id < x.id
    /\ \A i, j \in DOMAIN done : i < j => done[i].call.id < done[j].call.id
    /\ \A i \in DOMAIN done : i < done[i].call.id /\ done[i].call.id <= calls

Replied == \A r \in replies : r.answer.replied /\ \E i \in DOMAIN done : done[i] = r

\* The call at i has launched the pipeline p for client c.
Launched(i, p, c) ==
    /\ i \in DOMAIN done /\ done[i].call.op = "launch" /\ done[i].answer.code = "OK"
    /\ done[i].answer.pipe = p /\ done[i].call.client = c

\* A pipeline has one launch, and is used only by the client that made it.
PipesOK ==
    /\ \A i \in DOMAIN done : done[i].call.op = "launch" =>
          /\ done[i].answer.pipe < Stamp
          /\ (done[i].answer.code = "OK") = (done[i].answer.pipe # 0)
    /\ \A i, j \in DOMAIN done :
          done[i].call.op = "launch" /\ done[j].call.op = "launch"
          /\ done[i].answer.pipe = done[j].answer.pipe /\ done[i].answer.pipe # 0 => i = j
    /\ \A n \in nodes : \E i \in DOMAIN done : Launched(i, n.id, n.by)
    /\ \A c \in Clients : \A p \in known[c] : \E i \in DOMAIN done : Launched(i, p, c)
    /\ \A x \in mail : x.op \in Pipes => x.pipe \in known[x.client]
    /\ IdsAreNotReused

\* The call at j has set or deleted the description n, and not in a transaction
\* that was left open.
Wrote(j, n) ==
    /\ done[j].call.op \in {"set", "delete"} /\ done[j].call.name = n
    /\ done[j].answer.code = "OK" /\ done[j].lasts

\* No such write of n has come after the call v.
Fresh(v, n) ==
    \A j \in DOMAIN done : Wrote(j, n) =>
        v = 0 \/ \E l \in DOMAIN done : j <= l /\ done[l].call.id = v

StoreOK == \A n \in Names : Fresh(disk[n], n) /\ Fresh(work[n], n)

\* What the call at i has read was written by the last write before it, or later.
ReadOK(i) ==
    done[i].call.op \in {"get", "launch"} /\ done[i].answer.code = "OK" =>
        \A j \in DOMAIN done : j < i /\ Wrote(j, done[i].call.name) =>
            \E l \in DOMAIN done : j <= l /\ l < i /\ done[l].call.id = done[i].answer.value

AckedOK ==
    \A c \in Clients, n \in Names :
        /\ acked[c][n] # 0 =>
             \E j \in DOMAIN done : /\ done[j].call.id = acked[c][n] /\ done[j].call.client = c
                                    /\ Wrote(j, n)
        /\ call[c] # NoCall => acked[c][n] < call[c].id

History == InOrder /\ Replied /\ PipesOK /\ StoreOK /\ (\A i \in DOMAIN done : ReadOK(i)) /\ AckedOK

IInv == TypeOK /\ Typed /\ History

-----------------------------------------------------------------------------
(* What an executed call does. *)

\* What a table may hold for n after the call m.
MayHold(v, m, n) ==
    v \in {disk[n], work[n]} \/ (n = m.name /\ m.op \in {"set", "delete"} /\ v \in {0, m.id})

\* What a handler may make of the call m: only a write changes the tables, and
\* only a launch that succeeds adds a pipeline, under the stamp.
Effect(m, o) ==
    /\ o.answer \in Answers /\ o.answer.replied /\ o.intx \in BOOLEAN
    /\ o.disk \in [Names -> Nat] /\ o.work \in [Names -> Nat]
    /\ \A n \in Names : MayHold(o.disk[n], m, n) /\ MayHold(o.work[n], m, n)
    /\ m.op \in {"set", "delete"} /\ o.answer.code = "OK" /\ ~intx =>
          o.disk[m.name] \in {0, m.id} /\ o.work[m.name] \in {0, m.id}
    /\ m.op \in {"get", "launch"} /\ o.answer.code = "OK" =>
          o.answer.value = work[m.name] /\ work[m.name] # 0
    /\ m.op = "launch" => o.answer.pipe = IF o.answer.code = "OK" THEN Stamp ELSE 0
    /\ \A n \in o.nodes : \/ n \in nodes
                          \/ /\ m.op = "launch" /\ o.answer.code = "OK"
                             /\ n = [id |-> Stamp, by |-> m.client]
    /\ m.op \in Pipes /\ o.answer.code = "OK" => \E n \in nodes : n.id = m.pipe

\* The stamp counts launches.
Launches == {i \in DOMAIN done : done[i].call.op = "launch"}

LEMMA StampIsNat ==
    ASSUME Typed
    PROVE  IsFiniteSet(Launches) /\ Cardinality(Launches) \in Nat /\ Stamp = Cardinality(Launches) + 1
<1>1. IsFiniteSet(1..Len(done))
  BY FS_Interval DEF Typed
<1>2. IsFiniteSet(Launches)
  BY <1>1, FS_Subset DEF Launches, Typed
<1> QED  BY <1>2, FS_CardinalityType DEF Stamp, Launches

\* A launch that is executed moves the stamp on, every other call leaves it.
LEMMA StampGrows ==
    ASSUME Typed, NEW e \in Entries, done' = Append(done, e)
    PROVE  Stamp' = IF e.call.op = "launch" THEN Stamp + 1 ELSE Stamp
<1> DEFINE k == Len(done) + 1
<1>1. /\ k \notin DOMAIN done /\ DOMAIN done' = DOMAIN done \cup {k}
      /\ done'[k] = e /\ \A i \in DOMAIN done : done'[i] = done[i]
  BY DEF Typed
<1>2. Launches' = IF e.call.op = "launch" THEN Launches \cup {k} ELSE Launches
  BY <1>1 DEF Launches
<1>3. k \notin Launches
  BY <1>1 DEF Launches
<1>4. e.call.op = "launch" => Cardinality(Launches') = Cardinality(Launches) + 1
  BY <1>2, <1>3, StampIsNat, FS_AddElement
<1>5. Stamp' = Cardinality(Launches') + 1
  BY DEF Stamp, Launches
<1> QED  BY <1>2, <1>4, <1>5, StampIsNat

\* There are no more launches than executed calls.
LEMMA StampBound ==
    ASSUME Typed
    PROVE  Stamp \in 1..(Len(done) + 1)
<1>1. Len(done) \in Nat /\ DOMAIN done = 1..Len(done)
  BY DEF Typed
<1>2. IsFiniteSet(1..Len(done)) /\ Cardinality(1..Len(done)) = Len(done)
  <2>1. CASE Len(done) = 0
    BY <2>1, FS_Interval
  <2>2. CASE Len(done) # 0
    BY <1>1, <2>2, FS_Interval
  <2> QED  BY <2>1, <2>2
<1>3. Cardinality(Launches) <= Len(done)
  BY <1>1, <1>2, FS_Subset DEF Launches
<1> QED  BY <1>1, <1>3, StampIsNat

LEMMA MailNumbers ==
    ASSUME IInv, NEW x \in mail
    PROVE  x.id \in Numbers(mail) /\ x.id \in 2..calls /\ x \in Messages
<1>1. x.id \in Numbers(mail)
  BY DEF Numbers
<1> QED  BY <1>1 DEF IInv, TypeOK, Typed

\* An outcome that leaves the tables alone, or puts the one of the file back.
LEMMA KeepsTables ==
    ASSUME IInv, NEW m \in Messages, NEW o, NEW code \in {"EINVAL", "ESTRPIPE", "EIO"},
           o \in {Outcome(disk, work, intx, nodes, Answer(code, 0, 0)),
                 Outcome(disk, work, FALSE, nodes, Answer(code, 0, 0)),
                 Outcome(disk, work, TRUE, nodes, Answer(code, 0, 0)),
                 Outcome(disk, disk, FALSE, nodes, Answer(code, 0, 0))}
    PROVE  Effect(m, o)
<1> DEFINE a == Answer(code, 0, 0)
<1>1. a \in Answers /\ a.replied /\ a.code = code /\ a.pipe = 0
  BY DEF Answer, Answers, Garbage
<1>2. disk \in [Names -> Nat] /\ work \in [Names -> Nat] /\ intx \in BOOLEAN
  BY DEF IInv, TypeOK
<1> HIDE DEF a
<1>3. /\ o.disk = disk /\ o.work \in {work, disk} /\ o.nodes = nodes /\ o.intx \in BOOLEAN
      /\ o.answer = a
  <2>1. ASSUME NEW w, NEW open, o = Outcome(disk, w, open, nodes, a)
        PROVE  o.disk = disk /\ o.work = w /\ o.nodes = nodes /\ o.intx = open /\ o.answer = a
    BY <2>1 DEF Outcome
  <2>2. \E w \in {work, disk}, open \in BOOLEAN : o = Outcome(disk, w, open, nodes, a)
    BY <1>2 DEF a
  <2> QED  BY <2>1, <2>2
<1> QED  BY <1>1, <1>2, <1>3 DEF Effect, MayHold

\* Every outcome has such an effect.
LEMMA OutcomeEffect ==
    ASSUME IInv, NEW m \in Messages, NEW o \in Outcomes(m) \cup Failures(m)
    PROVE  Effect(m, o)
<1>1. /\ disk \in [Names -> Nat] /\ work \in [Names -> Nat] /\ intx \in BOOLEAN
      /\ m.id \in Nat /\ m.pipe \in Nat /\ m.client \in Clients
      /\ Stamp \in Nat /\ nodes \subseteq [id : Nat, by : Clients]
      /\ m.op \in Stores \cup Pipes /\ (m.op \in Stores => m.name \in Names)
  <2>1. disk \in [Names -> Nat] /\ work \in [Names -> Nat] /\ intx \in BOOLEAN
    BY DEF IInv, TypeOK
  <2>2. Stamp \in Nat /\ nodes \subseteq [id : Nat, by : Clients]
    BY StampIsNat DEF IInv, Typed
  <2> QED  BY <2>1, <2>2 DEF Messages
<1>2. ASSUME NEW v \in {0, m.id}, m.op \in {"set", "delete"}, NEW w, w = [work EXCEPT ![m.name] = v],
             NEW a \in Answers, a.replied, NEW open \in BOOLEAN,
             \/ o = Outcome(w, w, open, nodes, a)
             \/ o = Outcome(disk, w, open, nodes, a) /\ (a.code = "OK" => intx)
      PROVE  Effect(m, o)
  <2>1. /\ w \in [Names -> Nat] /\ w[m.name] = v /\ m.name \in Names
        /\ \A n \in Names : n # m.name => w[n] = work[n]
    BY <1>1, <1>2 DEF Stores
  <2>2. /\ o.disk \in {w, disk} /\ o.work = w /\ o.nodes = nodes /\ o.answer = a /\ o.intx = open
        /\ (a.code = "OK" /\ ~intx => o.disk = w)
    <3>1. CASE o = Outcome(w, w, open, nodes, a)
      BY <3>1 DEF Outcome
    <3>2. CASE o = Outcome(disk, w, open, nodes, a) /\ (a.code = "OK" => intx)
      BY <3>2 DEF Outcome
    <3> QED  BY <1>2, <3>1, <3>2
  <2>3. \A n \in Names : MayHold(w[n], m, n) /\ MayHold(disk[n], m, n)
    BY <1>2, <2>1 DEF MayHold
  <2> QED  BY <1>1, <1>2, <2>1, <2>2, <2>3 DEF Effect, Pipes
<1>3. ASSUME NEW v \in {0, m.id}, m.op \in {"set", "delete"},
             o = Written([work EXCEPT ![m.name] = v], v)
      PROVE  Effect(m, o)
  <2> DEFINE w == [work EXCEPT ![m.name] = v]
             a == Answer("OK", v, 0)
  <2>1. a \in Answers /\ a.replied /\ a.code = "OK"
    BY <1>1, <1>3 DEF Answer, Answers, Garbage
  <2>2. \/ o = Outcome(w, w, intx, nodes, a)
        \/ o = Outcome(disk, w, intx, nodes, a) /\ intx
    BY <1>3 DEF Written
  <2> HIDE DEF w, a
  <2> QED  BY <1>1, <1>2, <1>3, <2>1, <2>2 DEF w
<1>4. CASE m.op = "set"
  <2> DEFINE w == [work EXCEPT ![m.name] = m.id]
             a == Answer("EIO", 0, 0)
  <2>1. \/ o \in {Refusal("EIO"), Outcome(disk, work, FALSE, nodes, a), Outcome(disk, work, TRUE, nodes, a)}
        \/ o = Written(w, m.id)
        \/ o = Outcome(disk, w, TRUE, nodes, a)
    BY <1>4 DEF Outcomes, Failures
  <2>2. a \in Answers /\ a.replied /\ a.code # "OK"
    BY DEF Answer, Answers, Garbage
  <2>3. CASE o \in {Refusal("EIO"), Outcome(disk, work, FALSE, nodes, a), Outcome(disk, work, TRUE, nodes, a)}
    BY <2>3, KeepsTables DEF Refusal
  <2>4. CASE o = Written(w, m.id)
    BY <1>1, <1>3, <1>4, <2>4
  <2>5. CASE o = Outcome(disk, w, TRUE, nodes, a)
    <3> HIDE DEF w, a
    <3> QED  BY <1>1, <1>2, <1>4, <2>2, <2>5 DEF w
  <2> QED  BY <2>1, <2>3, <2>4, <2>5
<1>5. ASSUME NEW code \in {"EINVAL", "ESTRPIPE", "EIO"}, o = Refusal(code) PROVE Effect(m, o)
  BY <1>5, KeepsTables DEF Refusal
<1>6. ASSUME NEW some, \A n \in some : \/ n \in nodes
                                       \/ m.op = "launch" /\ n = [id |-> Stamp, by |-> m.client],
             NEW value \in Nat, NEW pipe \in Nat, o = Only(some, value, pipe),
             m.op \notin {"set", "delete"},
             m.op \in {"get", "launch"} => value = work[m.name] /\ work[m.name] # 0,
             m.op = "launch" => pipe = Stamp,
             m.op \in Pipes => \E n \in nodes : n.id = m.pipe
      PROVE  Effect(m, o)
  <2>1. /\ o.disk = disk /\ o.work = work /\ o.nodes = some /\ o.intx = intx
        /\ o.answer.replied /\ o.answer \in Answers /\ o.answer.code = "OK"
        /\ o.answer.value = value /\ o.answer.pipe = pipe
    BY <1>6 DEF Only, Outcome, Answer, Answers, Garbage
  <2> QED  BY <1>1, <1>6, <2>1 DEF Effect, MayHold
<1>7. CASE m.op = "get"
  <2>1. \/ o = Only(nodes, work[m.name], 0) /\ work[m.name] # 0
        \/ o = Refusal("EINVAL")
    BY <1>7 DEF Outcomes, Failures
  <2>2. work[m.name] \in Nat
    BY <1>1, <1>7 DEF Stores
  <2> QED  BY <1>5, <1>6, <1>7, <2>1, <2>2 DEF Pipes
<1>8. CASE m.op = "delete"
  <2>1. \/ o = Written([work EXCEPT ![m.name] = 0], 0)
        \/ o = Refusal("EINVAL")
        \/ o \in {Outcome(disk, work, intx, nodes, Answer("EIO", 0, 0)),
                  Outcome(disk, disk, FALSE, nodes, Answer("EIO", 0, 0))}
    BY <1>8 DEF Outcomes, Failures
  <2>2. CASE o = Written([work EXCEPT ![m.name] = 0], 0)
    BY <1>3, <1>8, <2>2
  <2> QED  BY <1>5, <2>1, <2>2, KeepsTables
<1>9. CASE m.op = "launch"
  <2> DEFINE node == [id |-> Stamp, by |-> m.client]
  <2>1. \/ o = Only(nodes \cup {node}, work[m.name], Stamp) /\ work[m.name] # 0
        \/ o \in {Refusal("EINVAL"), Refusal("ESTRPIPE")}
    BY <1>9 DEF Outcomes, Failures
  <2>2. work[m.name] \in Nat
    BY <1>1, <1>9 DEF Stores
  <2>3. CASE o = Only(nodes \cup {node}, work[m.name], Stamp) /\ work[m.name] # 0
    BY <1>1, <1>6, <1>9, <2>2, <2>3 DEF Pipes
  <2> QED  BY <1>5, <2>1, <2>3
<1>10. CASE m.op \in Pipes
  <2>1. \/ /\ \E n \in nodes : n.id = m.pipe
           /\ \/ o = Only(nodes, 0, m.pipe)
              \/ o = Only({n \in nodes : n.id # m.pipe}, 0, m.pipe)
        \/ o \in {Refusal("EINVAL"), Refusal("ESTRPIPE")}
    BY <1>10 DEF Outcomes, Failures, Pipes
  <2>2. ASSUME \E n \in nodes : n.id = m.pipe, NEW some \in SUBSET nodes, o = Only(some, 0, m.pipe)
        PROVE  Effect(m, o)
    BY <1>1, <1>6, <1>10, <2>2 DEF Pipes
  <2>3. {n \in nodes : n.id # m.pipe} \in SUBSET nodes
    OBVIOUS
  <2> QED  BY <1>5, <2>1, <2>2, <2>3
<1> QED  BY <1>1, <1>4, <1>7, <1>8, <1>9, <1>10 DEF Stores

-----------------------------------------------------------------------------
(* A call that is executed. *)

\* The elements of the history and the messages.
LEMMA Elements ==
    ASSUME Typed
    PROVE  /\ \A i \in DOMAIN done :
                 /\ i \in Nat /\ done[i].call \in Messages /\ done[i].answer \in Answers
                 /\ done[i].call.id \in Nat /\ done[i].answer.pipe \in Nat
           /\ \A x \in mail : x \in Messages /\ x.id \in Nat
<1>1. \A i \in DOMAIN done : i \in Nat /\ done[i] \in Entries
  BY DEF Typed
<1>2. mail \subseteq Messages
  BY DEF Typed
<1> QED  BY <1>1, <1>2 DEF Entries, Messages, Answers

\* The history after the entry e.
Grown(e) ==
    /\ done' \in Seq(Entries) /\ Len(done') = Len(done) + 1 /\ Len(done) \in Nat
    /\ DOMAIN done = 1..Len(done) /\ DOMAIN done' = 1..(Len(done) + 1)
    /\ done'[Len(done) + 1] = e
    /\ \A i \in DOMAIN done : i \in DOMAIN done' /\ done'[i] = done[i]

LEMMA Grows ==
    ASSUME Typed, NEW e \in Entries, done' = Append(done, e)
    PROVE  Grown(e)
  BY DEF Typed, Grown

\* The call m of the first message is executed with the outcome o; the answer is
\* sent or, if the daemon dies first, not.
LEMMA Executed ==
    ASSUME IInv, NEW m \in mail, Bus!First(m.id), NEW o \in Outcomes(m) \cup Failures(m),
           NEW sent \in BOOLEAN, Handle(m, o, sent),
           disk' = o.disk, work' \in {o.work, o.disk}, intx' \in {o.intx, FALSE},
           mail' \subseteq mail \ {m}, nodes' \in {o.nodes, {}},
           \A r \in replies' : r \in replies \/ (sent /\ r = Entry(m, o.answer)),
           deaths' \in 0..MaxDeaths,
           UNCHANGED <<call, result, known, acked, calls>>
    PROVE  IInv'
<1> DEFINE a == [o.answer EXCEPT !.replied = sent]
           e == Entry(m, a)
           N == Len(done)
<1>1. /\ TypeOK /\ Typed /\ m \in Messages
      /\ m.id \in 2..calls /\ m.id \in Nat /\ calls \in Nat /\ intx \in BOOLEAN
  BY MailNumbers, IpcBounds DEF IInv, TypeOK
<1>2. Effect(m, o)
  BY <1>1, OutcomeEffect
<1>3. /\ a \in Answers /\ a.replied = sent /\ a.code = o.answer.code /\ a.value = o.answer.value
      /\ a.pipe = o.answer.pipe /\ (sent => a = o.answer)
  BY <1>2 DEF Effect, Answers
<1>4. e \in Entries /\ e.call = m /\ e.answer = a /\ e.lasts = ~intx
  BY <1>1, <1>3 DEF Entries, Entry
<1>5. Grown(e) /\ Stamp' = (IF m.op = "launch" THEN Stamp + 1 ELSE Stamp) /\ Stamp \in 1..(N + 1)
  <2>1. done' = Append(done, e)
    BY DEF Handle
  <2> QED  BY <1>1, <1>4, <2>1, Grows, StampGrows, StampBound
<1>6. \A x \in mail' : x \in mail /\ m.id < x.id
  <2>1. \A x \in mail : m.id <= x.id /\ (x.id = m.id => x = m) /\ x.id \in Nat
    BY <1>1, Elements DEF Bus!First, Numbers, IInv, History, InOrder
  <2> QED  BY <1>1, <2>1
<1> HIDE DEF a, e, N
<1>7. /\ N \in Nat /\ \A i \in DOMAIN done : done[i].call.id < m.id /\ done[i].call.id \in Nat
      /\ N + 1 < m.id
  <2>1. \A i \in DOMAIN done : done[i].call.id < m.id /\ done[i].call.id \in Nat /\ i < done[i].call.id
    BY <1>1, Elements DEF IInv, History, InOrder
  <2>2. N \in Nat /\ (N # 0 => N \in DOMAIN done)
    BY <1>5 DEF N, Grown
  <2> QED  BY <1>1, <2>1, <2>2
<1>8. /\ \A i \in DOMAIN done : /\ i \in DOMAIN done' /\ done'[i] = done[i]
                                /\ i \in Nat /\ i < N + 1
      /\ \A i \in DOMAIN done' : i \in DOMAIN done \/ i = N + 1
      /\ N + 1 \in DOMAIN done' /\ done'[N + 1] = e
  BY <1>5, <1>7 DEF Grown, N
<1>9. TypeOK'
  <2>1. disk' \in [Names -> 0..calls] /\ work' \in [Names -> 0..calls] /\ intx' \in BOOLEAN
    <3>1. \A n \in Names : o.disk[n] \in 0..calls /\ o.work[n] \in 0..calls
      BY <1>1, <1>2 DEF Effect, MayHold, TypeOK
    <3> QED  BY <1>2, <3>1 DEF Effect
  <2>2. \A n \in nodes' : n.id \in 1..calls /\ n.by \in Clients
    <3>1. Stamp \in 1..calls /\ m.client \in Clients
      BY <1>1, <1>5, <1>7 DEF Messages, N
    <3> QED  BY <1>1, <1>2, <3>1 DEF Effect, TypeOK
  <2>3. Numbers(mail)' \subseteq 2..calls /\ faults' \in 0..MaxFaults
    BY <1>1, <1>6, IpcBounds DEF TypeOK, Numbers, Handle
  <2> QED  BY <1>1, <2>1, <2>2, <2>3 DEF TypeOK
<1>10. Typed'
  <2>1. replies' \subseteq Entries
    BY <1>1, <1>3, <1>4 DEF Typed, e
  <2>2. nodes' \subseteq [id : Nat, by : Clients]
    <3>1. [id |-> Stamp, by |-> m.client] \in [id : Nat, by : Clients]
      BY <1>1, <1>5, <1>7 DEF Messages, N
    <3> QED  BY <1>1, <1>2, <3>1 DEF Effect, Typed
  <2> QED  BY <1>1, <1>5, <1>6, <2>1, <2>2 DEF Typed, Grown
<1>11. InOrder'
  <2>1. \A x, y \in mail' : x.id = y.id => x = y
    BY <1>6 DEF IInv, History, InOrder
  <2>3. \A i \in DOMAIN done', x \in mail' : done'[i].call.id < x.id
    BY <1>4, <1>6, <1>8 DEF IInv, History, InOrder
  <2>4. \A i, j \in DOMAIN done' : i < j => done'[i].call.id < done'[j].call.id
    BY <1>4, <1>7, <1>8 DEF IInv, History, InOrder
  <2>5. \A i \in DOMAIN done' : i < done'[i].call.id /\ done'[i].call.id <= calls'
    BY <1>1, <1>4, <1>7, <1>8 DEF IInv, History, InOrder
  <2> QED  BY <2>1, <2>3, <2>4, <2>5 DEF InOrder
<1>12. Replied'
  <2>2. ASSUME NEW r \in replies' PROVE r.answer.replied /\ \E i \in DOMAIN done' : done'[i] = r
    <3>1. CASE r \in replies
      BY <1>8, <3>1 DEF IInv, History, Replied
    <3>2. CASE sent /\ r = Entry(m, o.answer)
      BY <1>2, <1>3, <1>4, <1>8, <3>2 DEF e, Effect
    <3> QED  BY <2>2, <3>1, <3>2
  <2> QED  BY <2>2 DEF Replied
<1>13. PipesOK'
  <2>1. \A i \in DOMAIN done : \A p, c : Launched(i, p, c) => Launched(i, p, c)'
    BY <1>8 DEF Launched
  <2>2. m.op = "launch" => a.pipe = IF a.code = "OK" THEN Stamp ELSE 0
    BY <1>2, <1>3 DEF Effect
  <2>3. \A i \in DOMAIN done' : done'[i].call.op = "launch" =>
           /\ done'[i].answer.pipe < Stamp'
           /\ (done'[i].answer.code = "OK") = (done'[i].answer.pipe # 0)
    <3>1. \A i \in DOMAIN done : done[i].answer.pipe \in Nat
      BY <1>1, Elements
    <3>2. Stamp \in Nat \ {0} /\ Stamp' >= Stamp /\ (m.op = "launch" => Stamp < Stamp')
      BY <1>5, <1>7
    <3>3. ASSUME NEW i \in DOMAIN done, done[i].call.op = "launch"
          PROVE  /\ done[i].answer.pipe < Stamp'
                 /\ (done[i].answer.code = "OK") = (done[i].answer.pipe # 0)
      <4>1. /\ done[i].answer.pipe < Stamp
            /\ (done[i].answer.code = "OK") = (done[i].answer.pipe # 0)
        BY <3>3 DEF IInv, History, PipesOK
      <4>2. Stamp' \in Nat
        BY <1>5, <3>2
      <4> QED  BY <3>1, <3>2, <4>1, <4>2
    <3>4. ASSUME m.op = "launch" PROVE a.pipe < Stamp' /\ ((a.code = "OK") = (a.pipe # 0))
      <4>1. CASE a.code = "OK"
        BY <2>2, <3>2, <3>4, <4>1
      <4>2. CASE a.code # "OK"
        BY <1>5, <2>2, <3>2, <3>4, <4>2
      <4> QED  BY <4>1, <4>2
    <3>5. ASSUME NEW i \in DOMAIN done', done'[i].call.op = "launch"
          PROVE  /\ done'[i].answer.pipe < Stamp'
                 /\ (done'[i].answer.code = "OK") = (done'[i].answer.pipe # 0)
      <4>1. CASE i \in DOMAIN done
        BY <1>8, <3>3, <3>5, <4>1
      <4>2. CASE i = N + 1
        BY <1>4, <1>8, <3>4, <3>5, <4>2
      <4> QED  BY <1>8, <4>1, <4>2
    <3> QED  BY <3>5
  <2>4. \A i, j \in DOMAIN done' :
           done'[i].call.op = "launch" /\ done'[j].call.op = "launch"
           /\ done'[i].answer.pipe = done'[j].answer.pipe /\ done'[i].answer.pipe # 0 => i = j
    <3>1. \A i \in DOMAIN done : done[i].call.op = "launch" => done[i].answer.pipe # Stamp
      BY <1>1, <1>5, <1>7, Elements DEF IInv, History, PipesOK
    <3>2. \A i, j \in DOMAIN done :
             done[i].call.op = "launch" /\ done[j].call.op = "launch"
             /\ done[i].answer.pipe = done[j].answer.pipe /\ done[i].answer.pipe # 0 => i = j
      BY DEF IInv, History, PipesOK
    <3>3. ASSUME NEW i \in DOMAIN done, done[i].call.op = "launch", m.op = "launch",
                 done[i].answer.pipe = a.pipe, a.pipe # 0
          PROVE  FALSE
      BY <2>2, <3>1, <3>3
    <3>4. ASSUME NEW i \in DOMAIN done', NEW j \in DOMAIN done',
                 done'[i].call.op = "launch", done'[j].call.op = "launch",
                 done'[i].answer.pipe = done'[j].answer.pipe, done'[i].answer.pipe # 0
          PROVE  i = j
      <4>1. CASE i \in DOMAIN done /\ j \in DOMAIN done
        BY <1>8, <3>2, <3>4, <4>1
      <4>2. CASE i \in DOMAIN done /\ j = N + 1
        BY <1>4, <1>8, <3>3, <3>4, <4>2
      <4>3. CASE i = N + 1 /\ j \in DOMAIN done
        BY <1>4, <1>8, <3>3, <3>4, <4>3
      <4> QED  BY <1>8, <4>1, <4>2, <4>3
    <3> QED  BY <3>4
  <2>5. \A n \in nodes' : \E i \in DOMAIN done' : Launched(i, n.id, n.by)'
    <3>1. ASSUME NEW n \in nodes', n \in nodes
          PROVE  \E i \in DOMAIN done' : Launched(i, n.id, n.by)'
      BY <1>8, <2>1, <3>1 DEF IInv, History, PipesOK
    <3>2. ASSUME NEW n \in nodes', m.op = "launch", o.answer.code = "OK",
                 n = [id |-> Stamp, by |-> m.client]
          PROVE  \E i \in DOMAIN done' : Launched(i, n.id, n.by)'
      <4>1. a.pipe = n.id /\ a.code = "OK" /\ m.client = n.by
        BY <1>3, <2>2, <3>2
      <4> QED  BY <1>4, <1>8, <3>2, <4>1 DEF Launched
    <3> QED  BY <1>2, <3>1, <3>2 DEF Effect
  <2>6. \A c \in Clients : \A p \in known'[c] : \E i \in DOMAIN done' : Launched(i, p, c)'
    BY <1>8, <2>1 DEF IInv, History, PipesOK
  <2>7. \A x \in mail' : x.op \in Pipes => x.pipe \in known'[x.client]
    BY <1>6 DEF IInv, History, PipesOK
  <2>8. IdsAreNotReused'
    <3>1. ASSUME NEW j \in DOMAIN done, done'[j].call.op \in Pipes, done'[j].answer.code = "OK"
          PROVE  OwnPipeline(j)'
      <4>1. \A k \in 1..j : k \in DOMAIN done /\ done'[k] = done[k]
        BY <1>5 DEF Grown
      <4>2. OwnPipeline(j)
        BY <1>8, <3>1 DEF IInv, History, PipesOK, IdsAreNotReused
      <4>3. j \in Nat /\ j \in 1..j
        BY <1>5 DEF Grown
      <4> QED  BY <4>1, <4>2, <4>3 DEF OwnPipeline
    <3>2. ASSUME m.op \in Pipes, a.code = "OK", NEW last \in Nat, last = N + 1
          PROVE  OwnPipeline(last)'
      <4>1. PICK n \in nodes : n.id = m.pipe
        BY <1>2, <1>3, <3>2 DEF Effect
      <4>2. PICK i \in DOMAIN done : Launched(i, n.id, n.by)
        BY DEF IInv, History, PipesOK
      <4>3. PICK k \in DOMAIN done : Launched(k, m.pipe, m.client)
        BY <1>1, <3>2 DEF IInv, History, PipesOK, Messages
      <4>4. m.pipe # 0
        BY <1>1, <4>1 DEF TypeOK
      <4>5. i = k
        BY <4>1, <4>2, <4>3, <4>4 DEF Launched, IInv, History, PipesOK
      <4>6. \A l \in (k + 1)..N : done[l].call.op = "launch" => done[l].answer.pipe # m.pipe
        <5>1. ASSUME NEW l \in (k + 1)..N PROVE l \in DOMAIN done /\ l # k
          BY <1>5 DEF Grown, N
        <5> QED  BY <4>3, <4>4, <5>1 DEF Launched, IInv, History, PipesOK
      <4>7. /\ last - 1 = N /\ k \in 1..N /\ k \in DOMAIN done
            /\ \A l \in (k + 1)..N : l \in DOMAIN done
        <5>1. DOMAIN done = 1..N
          BY <1>5 DEF Grown, N
        <5> QED  BY <1>7, <3>2, <5>1
      <4>8. /\ done'[k].call.op = "launch" /\ done'[k].answer.pipe = m.pipe
            /\ done'[k].call.client = m.client
        BY <1>8, <4>3 DEF Launched
      <4>9. \A l \in (k + 1)..N : done'[l].call.op = "launch" => done'[l].answer.pipe # m.pipe
        BY <1>8, <4>6, <4>7
      <4>10. done'[last].call = m
        BY <1>4, <1>8, <3>2
      <4> QED  BY <4>7, <4>8, <4>9, <4>10 DEF OwnPipeline
    <3>3. ASSUME NEW j \in DOMAIN done', done'[j].call.op \in Pipes, done'[j].answer.code = "OK"
          PROVE  OwnPipeline(j)'
      <4>1. CASE j \in DOMAIN done
        BY <3>1, <3>3, <4>1
      <4>2. CASE j = N + 1
        <5>1. m.op \in Pipes /\ a.code = "OK"
          BY <1>4, <1>8, <3>3, <4>2
        <5>2. j \in Nat
          BY <1>7, <4>2
        <5> QED  BY <3>2, <4>2, <5>1, <5>2
      <4> QED  BY <1>8, <4>1, <4>2
    <3> QED  BY <3>3 DEF IdsAreNotReused
  <2> QED  BY <2>3, <2>4, <2>5, <2>6, <2>7, <2>8 DEF PipesOK
<1>14. StoreOK'
  <2>1. ASSUME NEW n \in Names, NEW v, MayHold(v, m, n),
               n = m.name /\ m.op \in {"set", "delete"} /\ a.code = "OK" /\ ~intx => v \in {0, m.id},
               NEW j \in DOMAIN done', Wrote(j, n)'
        PROVE  v = 0 \/ \E l \in DOMAIN done' : j <= l /\ done'[l].call.id = v
    <3>1. CASE v \in {0, m.id}
      BY <1>4, <1>7, <1>8, <2>1, <3>1
    <3>2. CASE v \notin {0, m.id}
      <4>1. j \in DOMAIN done /\ Wrote(j, n)
        BY <1>4, <1>8, <2>1, <3>2 DEF Wrote
      <4>2. Fresh(v, n)
        BY <2>1, <3>2 DEF MayHold, IInv, History, StoreOK
      <4> QED  BY <1>8, <4>1, <4>2 DEF Fresh
    <3> QED  BY <3>1, <3>2
  <2>2. ASSUME NEW n \in Names, NEW v \in {o.disk[n], o.work[n]}
        PROVE  \A j \in DOMAIN done' : Wrote(j, n)' =>
                  v = 0 \/ \E l \in DOMAIN done' : j <= l /\ done'[l].call.id = v
    BY <1>2, <1>3, <2>1, <2>2 DEF Effect
  <2>3. ASSUME NEW n \in Names PROVE disk'[n] \in {o.disk[n], o.work[n]} /\ work'[n] \in {o.disk[n], o.work[n]}
    OBVIOUS
  <2> QED  BY <2>2, <2>3 DEF StoreOK, Fresh
<1>15. \A i \in DOMAIN done' : ReadOK(i)'
  <2>1. ASSUME NEW i \in DOMAIN done PROVE ReadOK(i)'
    <3>1. \A j \in DOMAIN done' : j < i => j \in DOMAIN done
      BY <1>7, <1>8
    <3>2. ReadOK(i)
      BY DEF IInv, History
    <3>3. \A j \in DOMAIN done : \A n : Wrote(j, n)' => Wrote(j, n)
      BY <1>8 DEF Wrote
    <3> QED  BY <1>8, <3>1, <3>2, <3>3 DEF ReadOK
  <2>2. ASSUME NEW last \in DOMAIN done', last = N + 1 PROVE ReadOK(last)'
    <3>1. ASSUME m.op \in {"get", "launch"}, a.code = "OK", NEW j \in DOMAIN done, Wrote(j, m.name)
          PROVE  \E l \in DOMAIN done : j <= l /\ done[l].call.id = a.value
      BY <1>1, <1>2, <1>3, <3>1 DEF Effect, IInv, History, StoreOK, Fresh, Messages, Stores
    <3>2. \A j \in DOMAIN done' : j < last => j \in DOMAIN done
      BY <1>7, <1>8, <2>2
    <3>3. \A j \in DOMAIN done : \A n : Wrote(j, n)' => Wrote(j, n)
      BY <1>8 DEF Wrote
    <3>4. done'[last].call = m /\ done'[last].answer = a
      BY <1>4, <1>8, <2>2
    <3>5. ASSUME m.op \in {"get", "launch"}, a.code = "OK",
                 NEW n, n = m.name, NEW j \in DOMAIN done', j < last, Wrote(j, n)'
          PROVE  \E l \in DOMAIN done' : j <= l /\ l < last /\ done'[l].call.id = a.value
      <4>1. j \in DOMAIN done /\ Wrote(j, m.name)
        BY <3>2, <3>3, <3>5
      <4>2. PICK l \in DOMAIN done : j <= l /\ done[l].call.id = a.value
        BY <3>1, <3>5, <4>1
      <4> QED  BY <1>8, <2>2, <4>2
    <3> QED  BY <3>4, <3>5 DEF ReadOK
  <2> QED  BY <1>8, <2>1, <2>2
<1>16. AckedOK'
  BY <1>8 DEF IInv, History, AckedOK, Wrote
<1> QED  BY <1>9, <1>10, <1>11, <1>12, <1>13, <1>14, <1>15, <1>16 DEF IInv, History

\* The first call is executed and answered.
LEMMA ServeStep ==
    ASSUME IInv, Serve PROVE IInv'
<1>1. PICK m \in mail : \E o \in Outcomes(m) \cup Failures(m) :
         /\ Handle(m, o, TRUE)
         /\ disk' = o.disk /\ work' = o.work /\ intx' = o.intx /\ nodes' = o.nodes
         /\ replies' = replies \cup Awaited(Entry(m, o.answer))
         /\ mail' = mail \ {m}
         /\ Bus!First(m.id)
  BY DEF Serve, Bus!Answer
<1>4. PICK o \in Outcomes(m) \cup Failures(m) :
         /\ Handle(m, o, TRUE)
         /\ disk' = o.disk /\ work' = o.work /\ intx' = o.intx /\ nodes' = o.nodes
         /\ replies' = replies \cup Awaited(Entry(m, o.answer))
         /\ mail' = mail \ {m}
         /\ Bus!First(m.id)
  BY <1>1
<1>2. UNCHANGED <<call, result, known, acked, calls>> /\ deaths' \in 0..MaxDeaths
  BY DEF Serve, IInv, TypeOK
<1>3. \A r \in replies' : r \in replies \/ (TRUE /\ r = Entry(m, o.answer))
  BY <1>4 DEF Awaited
<1> QED  BY <1>4, <1>2, <1>3, Executed

-----------------------------------------------------------------------------
(* Steps that execute nothing. *)

\* Such a step keeps what is said of the history alone.
LEMMA SameHistory ==
    ASSUME IInv, UNCHANGED done, mail' \subseteq mail, UNCHANGED <<known, calls>>,
           disk' = disk, work' \in {work, disk}, nodes' \subseteq nodes, replies' \subseteq replies
    PROVE  InOrder' /\ Replied' /\ PipesOK' /\ StoreOK' /\ (\A i \in DOMAIN done' : ReadOK(i)')
<1>1. InOrder'
  BY DEF IInv, History, InOrder
<1>2. Replied'
  BY DEF IInv, History, Replied
<1>3. Stamp' = Stamp /\ (IdsAreNotReused => IdsAreNotReused')
  BY DEF Stamp, IdsAreNotReused, OwnPipeline
<1>4. \A i, p, c : Launched(i, p, c) => Launched(i, p, c)'
  BY DEF Launched
<1>5. PipesOK'
  BY <1>3, <1>4 DEF IInv, History, PipesOK
<1>6. StoreOK' /\ \A i \in DOMAIN done' : ReadOK(i)'
  BY DEF IInv, History, StoreOK, Fresh, ReadOK, Wrote
<1> QED  BY <1>1, <1>2, <1>5, <1>6

\* A step of the bus or the daemon that executes nothing.
LEMMA QuietStep ==
    ASSUME IInv, mail' \subseteq mail, nodes' \subseteq nodes, disk' = disk, work' \in {work, disk},
           intx' \in BOOLEAN, deaths' \in 0..MaxDeaths,
           UNCHANGED <<call, result, replies, done, known, acked, calls, faults>>
    PROVE  IInv'
<1>1. InOrder' /\ Replied' /\ PipesOK' /\ StoreOK' /\ (\A i \in DOMAIN done' : ReadOK(i)')
  BY SameHistory
<1>2. AckedOK'
  BY DEF IInv, History, AckedOK, Wrote
<1>3. TypeOK'
  BY DEF IInv, TypeOK, Numbers
<1>4. Typed'
  BY DEF IInv, Typed
<1> QED  BY <1>1, <1>2, <1>3, <1>4 DEF IInv, History

\* The daemon dies; the call it was serving may have been executed.
LEMMA DieStep ==
    ASSUME IInv, Die PROVE IInv'
<1>1. /\ mail' = {} /\ nodes' = {} /\ deaths' \in 0..MaxDeaths
      /\ UNCHANGED <<call, result, replies, known, acked, calls>>
  BY IpcBounds DEF Die, IInv, TypeOK
<1>2. CASE Disconnect /\ UNCHANGED <<done, faults>>
  BY <1>1, <1>2, QuietStep DEF Disconnect
<1>3. ASSUME NEW m \in mail, NEW o \in Outcomes(m) \cup Failures(m), Bus!First(m.id),
             Handle(m, o, FALSE), disk' = o.disk, work' = o.disk, intx' = FALSE
      PROVE  IInv'
  <2>1. \A r \in replies' : r \in replies \/ (FALSE /\ r = Entry(m, o.answer))
    BY <1>1
  <2>2. mail' \subseteq mail \ {m} /\ nodes' \in {o.nodes, {}} /\ intx' \in {o.intx, FALSE}
        /\ work' \in {o.work, o.disk}
    BY <1>1, <1>3
  <2> QED  BY <1>1, <1>3, <2>1, <2>2, Executed
<1> QED  BY <1>2, <1>3 DEF Die

\* The daemon starts or refuses a call, or the bus gives up starting it.
LEMMA StartStep ==
    ASSUME IInv, Start \/ Refuse \/ StartFails PROVE IInv'
<1>1. /\ UNCHANGED <<call, result, replies, store, nodes, done, known, acked, calls, deaths, faults>>
      /\ mail' \subseteq mail
  BY DEF Start, Refuse, StartFails
<1>2. /\ disk' = disk /\ work' = work /\ intx' \in BOOLEAN /\ deaths' \in 0..MaxDeaths
  BY <1>1 DEF store, IInv, TypeOK
<1> QED  BY <1>1, <1>2, QuietStep

\* The call of a client ends without an answer.
LEMMA LeaveStep ==
    ASSUME IInv, NEW c \in Clients, NEW r \in Answers, Leave(c, r),
           replies' \subseteq replies,
           UNCHANGED <<mail, store, nodes, done, known, acked, calls, deaths, faults>>
    PROVE  IInv'
<1>1. /\ call' \in [Clients -> Messages \cup {NoCall}] /\ call'[c] = NoCall
      /\ \A d \in Clients : d # c => call'[d] = call[d] /\ result'[d] = result[d]
      /\ result' \in [Clients -> Answers] /\ result'[c] = r
  BY DEF IInv, Typed, Leave
<1>2. InOrder' /\ Replied' /\ PipesOK' /\ StoreOK' /\ (\A i \in DOMAIN done' : ReadOK(i)')
  BY SameHistory DEF store
<1>3. AckedOK'
  BY <1>1 DEF IInv, History, AckedOK, Wrote
<1>4. TypeOK'
  BY <1>1 DEF IInv, TypeOK, Answers, Numbers, store
<1>5. Typed'
  BY <1>1 DEF IInv, Typed
<1> QED  BY <1>2, <1>3, <1>4, <1>5 DEF IInv, History

LEMMA GiveUpStep ==
    ASSUME IInv, NEW c \in Clients, FailAtOnce(c) \/ Timeout(c) PROVE IInv'
<1>1. /\ UNCHANGED <<mail, store, nodes, done, known, acked, calls, deaths, faults>>
      /\ replies' \subseteq replies
  BY DEF FailAtOnce, Timeout, busVars
<1>2. \E code \in {"EINVAL", "EIO"} \cup Garbage : Leave(c, [Nothing EXCEPT !.code = code])
  BY DEF FailAtOnce, Timeout, LeaveUnset
<1>3. \A code \in {"EINVAL", "EIO"} \cup Garbage : [Nothing EXCEPT !.code = code] \in Answers
  BY DEF Nothing, Answers, Garbage
<1> QED  BY <1>1, <1>2, <1>3, LeaveStep

\* A client makes a call, under a number of its own.
LEMMA SendStep ==
    ASSUME IInv, NEW c \in Clients, Send(c) PROVE IInv'
<1>1. PICK m : /\ m \in [id : {calls + 1}, client : {c}, op : Ops \cap Stores, name : Names, pipe : {0}]
                        \cup [id : {calls + 1}, client : {c}, op : Ops \cap Pipes, name : {"none"},
                              pipe : known[c]]
               /\ call' = [call EXCEPT ![c] = m] /\ mail' \in {mail \cup {m}, mail}
  BY DEF Send
<1>2. /\ calls' = calls + 1 /\ calls < MaxCalls /\ result' = [result EXCEPT ![c] = Nothing]
      /\ UNCHANGED <<replies, disk, work, intx, nodes, done, known, acked, deaths, faults>>
  BY DEF Send, store
<1>3. /\ TypeOK /\ Typed /\ calls \in Nat /\ calls # 0 /\ MaxCalls \in Nat
      /\ known[c] \in SUBSET (1..calls)
  BY IpcBounds DEF IInv, TypeOK
<1>4. /\ m.id = calls + 1 /\ m.client = c /\ m \in Messages /\ m.id \in Nat
      /\ (m.op \in Pipes => m.pipe \in known[c])
  <2>1. known[c] \subseteq Nat
    BY <1>3
  <2> QED  BY <1>1, <1>3, <2>1 DEF Messages, Stores, Pipes
<1>5. \A x \in mail' : x \in mail \/ x = m
  BY <1>1
<1>6. /\ call' \in [Clients -> Messages \cup {NoCall}] /\ call'[c] = m
      /\ \A d \in Clients : d # c => call'[d] = call[d] /\ result'[d] = result[d]
      /\ result' \in [Clients -> Answers] /\ result'[c] = Nothing
  BY <1>1, <1>2, <1>3, <1>4 DEF Typed, Nothing, Answers
<1>7. TypeOK'
  <2>6. m.id \in 2..calls' /\ 2..calls \subseteq 2..calls'
    BY <1>2, <1>3, <1>4
  <2>1. ASSUME NEW d \in Clients
        PROVE  /\ call'[d] # NoCall => call'[d].client = d /\ call'[d].id \in 2..calls'
               /\ call'[d] # NoCall => result'[d] = Nothing
               /\ result'[d].code \in Garbage \cup {"none", "EIO", "ESTRPIPE"}
    <3>1. CASE d = c
      BY <1>4, <1>6, <2>6, <3>1 DEF Nothing
    <3>2. CASE d # c
      BY <1>3, <1>6, <2>6, <3>2 DEF TypeOK
    <3> QED  BY <3>1, <3>2
  <2>2. Numbers(mail)' \subseteq 2..calls'
    <3>1. \A x \in mail : x.id \in 2..calls
      BY <1>3 DEF TypeOK, Numbers
    <3> QED  BY <1>5, <2>6, <3>1 DEF Numbers
  <2>3. 1..calls \subseteq 1..calls' /\ 0..calls \subseteq 0..calls' /\ calls' \in 1..MaxCalls
    BY <1>2, <1>3
  <2>4. /\ disk' \in [Names -> 0..calls'] /\ work' \in [Names -> 0..calls'] /\ known' \in [Clients -> SUBSET (1..calls')]
        /\ acked' \in [Clients -> [Names -> 0..calls']]
    BY <1>2, <1>3, <2>3 DEF TypeOK
  <2> QED  BY <1>2, <1>3, <2>1, <2>2, <2>3, <2>4 DEF TypeOK
<1>8. Typed'
  BY <1>2, <1>3, <1>4, <1>5, <1>6 DEF Typed
<1>9. InOrder'
  <2>1. \A x \in mail : x.id < m.id /\ x.id \in Nat
    BY <1>3, <1>4, MailNumbers
  <2>2. \A i \in DOMAIN done : done[i].call.id < m.id /\ done[i].call.id <= calls'
    BY <1>2, <1>3, <1>4, Elements DEF IInv, History, InOrder
  <2>3. \A x, y \in mail' : x.id = y.id => x = y
    BY <1>4, <1>5, <2>1 DEF IInv, History, InOrder
  <2>4. \A i \in DOMAIN done', x \in mail' : done'[i].call.id < x.id
    BY <1>2, <1>5, <2>2 DEF IInv, History, InOrder
  <2> QED  BY <1>2, <2>2, <2>3, <2>4 DEF IInv, History, InOrder
<1>10. PipesOK'
  <2>1. Stamp' = Stamp /\ (IdsAreNotReused => IdsAreNotReused')
    BY <1>2 DEF Stamp, IdsAreNotReused, OwnPipeline
  <2>2. \A i, p, d : Launched(i, p, d) => Launched(i, p, d)'
    BY <1>2 DEF Launched
  <2>3. \A x \in mail' : x.op \in Pipes => x.pipe \in known'[x.client]
    BY <1>2, <1>4, <1>5 DEF IInv, History, PipesOK
  <2> QED  BY <1>2, <2>1, <2>2, <2>3 DEF IInv, History, PipesOK
<1>11. Replied' /\ StoreOK' /\ (\A i \in DOMAIN done' : ReadOK(i)')
  BY <1>2 DEF IInv, History, Replied, StoreOK, Fresh, ReadOK, Wrote
<1>12. AckedOK'
  <2>1. \A d \in Clients, n \in Names : acked[d][n] \in 0..calls
    BY <1>3 DEF TypeOK
  <2>2. \A d \in Clients, n \in Names : call'[d] # NoCall => acked[d][n] < call'[d].id
    BY <1>3, <1>4, <1>6, <2>1 DEF IInv, History, AckedOK
  <2> QED  BY <1>2, <2>2 DEF IInv, History, AckedOK, Wrote
<1> QED  BY <1>7, <1>8, <1>9, <1>10, <1>11, <1>12 DEF IInv, History

\* The answer to the call of a client arrives.
LEMMA AcceptStep ==
    ASSUME IInv, NEW c \in Clients, Accept(c) PROVE IInv'
<1>1. PICK r \in replies : r.call = call[c] /\ Learn(c, r)
  BY DEF Accept
<1>2. /\ call[c] # NoCall /\ replies' \subseteq replies
      /\ UNCHANGED <<mail, disk, work, intx, nodes, done, calls, deaths, faults>>
  BY DEF Accept, busVars, store
<1>3. /\ TypeOK /\ Typed /\ call[c] \in Messages /\ call[c].client = c /\ r \in Entries
      /\ r.answer \in Answers
  BY <1>2 DEF IInv, TypeOK, Typed, Entries
<1>4. PICK i \in DOMAIN done : done[i] = r
  BY DEF IInv, History, Replied
<1>5. /\ call' \in [Clients -> Messages \cup {NoCall}] /\ call'[c] = NoCall
      /\ result' \in [Clients -> Answers] /\ result'[c] = r.answer
      /\ \A d \in Clients : d # c => call'[d] = call[d] /\ result'[d] = result[d]
  BY <1>1, <1>3 DEF Learn, Leave, Typed
<1>6. \A d \in Clients : \A p \in known'[d] :
         p \in known[d] \/ (p = r.answer.pipe /\ d = c /\ Launched(i, p, c))
  BY <1>1, <1>3, <1>4 DEF Learn, Launched, TypeOK
<1>7. \A d \in Clients : known[d] \subseteq known'[d]
  BY <1>1, <1>3 DEF Learn, TypeOK
<1>8. known' \in [Clients -> SUBSET (1..calls)]
  <2>1. \A p : Launched(i, p, c) => p \in 1..calls
    <3>1. SUFFICES ASSUME NEW p, Launched(i, p, c) PROVE p \in 1..calls
      OBVIOUS
    <3>2. p \in Nat /\ p # 0 /\ p < Stamp
      BY <1>3, <3>1, Elements DEF Launched, IInv, History, PipesOK
    <3>3. Stamp \in 1..(Len(done) + 1) /\ Len(done) \in Nat /\ DOMAIN done = 1..Len(done)
      BY <1>3, StampBound DEF Typed
    <3>4. Len(done) \in DOMAIN done
      BY <3>2, <3>3
    <3>5. Len(done) < done[Len(done)].call.id /\ done[Len(done)].call.id <= calls /\ calls \in Nat
      BY <1>3, <3>4, IpcBounds DEF IInv, History, InOrder, TypeOK
    <3>6. done[Len(done)].call.id \in Nat
      BY <1>3, <3>4, Elements
    <3> QED  BY <3>2, <3>3, <3>5, <3>6
  <2>2. known' \in [Clients -> SUBSET (known[c] \cup {r.answer.pipe} \cup (1..calls))]
    BY <1>1, <1>3 DEF Learn, TypeOK
  <2>3. \A d \in Clients : known'[d] \subseteq 1..calls
    BY <1>3, <1>6, <2>1 DEF TypeOK
  <2> QED  BY <2>2, <2>3
<1>9. /\ \A d \in Clients, n \in Names :
           \/ acked'[d][n] = acked[d][n]
           \/ d = c /\ n = call[c].name /\ acked'[d][n] = call[c].id /\ Wrote(i, n)
      /\ acked' \in [Clients -> [Names -> 0..calls]]
  <2>1. CASE r.answer.code = "OK" /\ r.lasts /\ call[c].op \in {"set", "delete"}
    <3>1. acked' = [acked EXCEPT ![c][call[c].name] = call[c].id] /\ Wrote(i, call[c].name)
      BY <1>1, <1>4, <2>1 DEF Learn, Wrote
    <3>2. call[c].id \in 0..calls
      BY <1>2, <1>3, IpcBounds DEF TypeOK
    <3> QED  BY <1>3, <3>1, <3>2 DEF TypeOK
  <2>2. CASE ~(r.answer.code = "OK" /\ r.lasts /\ call[c].op \in {"set", "delete"})
    BY <1>1, <1>3, <2>2 DEF Learn, TypeOK
  <2> QED  BY <2>1, <2>2
<1>10. TypeOK'
  <2>1. ASSUME NEW d \in Clients
        PROVE  /\ call'[d] # NoCall => call'[d].client = d /\ call'[d].id \in 2..calls'
               /\ call'[d] # NoCall => result'[d] = Nothing
               /\ result'[d].code \in Garbage \cup {"none", "EIO", "ESTRPIPE"}
    <3>1. CASE d = c
      BY <1>3, <1>5, <3>1 DEF Answers
    <3>2. CASE d # c
      BY <1>2, <1>3, <1>5, <3>2 DEF TypeOK
    <3> QED  BY <3>1, <3>2
  <2> QED  BY <1>2, <1>3, <1>8, <1>9, <2>1 DEF TypeOK, Numbers
<1>11. Typed'
  BY <1>2, <1>3, <1>5 DEF Typed
<1>12. InOrder' /\ Replied' /\ StoreOK' /\ (\A k \in DOMAIN done' : ReadOK(k)')
  <2>1. InOrder'
    BY <1>2 DEF IInv, History, InOrder
  <2>2. Replied'
    BY <1>2 DEF IInv, History, Replied
  <2>3. StoreOK' /\ \A k \in DOMAIN done' : ReadOK(k)'
    BY <1>2 DEF IInv, History, StoreOK, Fresh, ReadOK, Wrote
  <2> QED  BY <2>1, <2>2, <2>3
<1>13. PipesOK'
  <2>1. Stamp' = Stamp /\ (IdsAreNotReused => IdsAreNotReused')
    BY <1>2 DEF Stamp, IdsAreNotReused, OwnPipeline
  <2>2. \A k, p, d : Launched(k, p, d) => Launched(k, p, d)'
    BY <1>2 DEF Launched
  <2>3. \A d \in Clients : \A p \in known'[d] : \E k \in DOMAIN done : Launched(k, p, d)
    BY <1>6 DEF IInv, History, PipesOK
  <2>4. \A x \in mail' : x.op \in Pipes => x.pipe \in known'[x.client]
    <3>1. \A x \in mail : x.client \in Clients
      BY <1>3, Elements DEF Messages
    <3> QED  BY <1>2, <1>7, <3>1 DEF IInv, History, PipesOK
  <2> QED  BY <1>2, <2>1, <2>2, <2>3, <2>4 DEF IInv, History, PipesOK
<1>14. AckedOK'
  <2>1. ASSUME NEW d \in Clients, NEW n \in Names
        PROVE  /\ acked'[d][n] # 0 =>
                     \E j \in DOMAIN done : /\ done[j].call.id = acked'[d][n] /\ done[j].call.client = d
                                            /\ Wrote(j, n)
               /\ call'[d] # NoCall => acked'[d][n] < call'[d].id
    <3>1. CASE acked'[d][n] = acked[d][n]
      BY <1>5, <3>1 DEF IInv, History, AckedOK
    <3>2. CASE d = c /\ acked'[d][n] = call[c].id /\ Wrote(i, n)
      BY <1>1, <1>3, <1>4, <1>5, <3>2
    <3> QED  BY <1>9, <3>1, <3>2
  <2>2. \A j, n : Wrote(j, n)' = Wrote(j, n)
    BY <1>2 DEF Wrote
  <2> QED  BY <1>2, <2>1, <2>2 DEF AckedOK
<1> QED  BY <1>10, <1>11, <1>12, <1>13, <1>14 DEF IInv, History

-----------------------------------------------------------------------------
(* The theorems. *)

LEMMA InitInv == Init => IInv
<1> SUFFICES ASSUME Init PROVE IInv
  OBVIOUS
<1>1. TypeOK
  <2>1. Numbers(mail) = {} /\ MaxCalls \in Nat \ {0} /\ MaxDeaths \in Nat /\ MaxFaults \in Nat
    BY IpcBounds DEF Init, Numbers
  <2>2. disk \in [Names -> 0..1] /\ work \in [Names -> 0..1] /\ intx \in BOOLEAN
    <3>1. disk \in [Names -> {0, 1}] /\ work = disk /\ intx = FALSE
      BY DEF Init
    <3>2. {0, 1} = 0..1
      OBVIOUS
    <3> QED  BY <3>1, <3>2
  <2>3. known \in [Clients -> SUBSET (1..1)] /\ acked \in [Clients -> [Names -> 0..1]]
    BY DEF Init
  <2> QED  BY <2>1, <2>2, <2>3 DEF Init, TypeOK, Nothing
<1>2. Typed
  <2>1. Nothing \in Answers
    BY DEF Nothing, Answers
  <2>2. mail \subseteq Messages /\ done \in Seq(Entries)
    BY DEF Init
  <2> QED  BY <2>1, <2>2 DEF Init, Typed
<1>3. InOrder /\ Replied /\ StoreOK /\ (\A i \in DOMAIN done : ReadOK(i)) /\ AckedOK
  BY DEF Init, InOrder, Replied, StoreOK, Fresh, AckedOK
<1>4. PipesOK
  BY DEF Init, PipesOK, IdsAreNotReused
<1> QED  BY <1>1, <1>2, <1>3, <1>4 DEF IInv, History

LEMMA SameInv == IInv /\ UNCHANGED vars => IInv'
<1> SUFFICES ASSUME IInv, UNCHANGED vars PROVE IInv'
  OBVIOUS
<1>1. /\ UNCHANGED <<call, result, mail, replies, nodes, done, known, acked, calls, deaths, faults>>
      /\ disk' = disk /\ work' = work /\ intx' \in BOOLEAN /\ deaths' \in 0..MaxDeaths
  BY DEF vars, busVars, store, IInv, TypeOK
<1> QED  BY <1>1, QuietStep

\* The invariant that everything below rests on.
THEOREM Inductive == Spec => []IInv
<1>1. IInv /\ [Next]_vars => IInv'
  BY ServeStep, DieStep, StartStep, GiveUpStep, SendStep, AcceptStep, SameInv DEF Next, Client
<1> QED  BY <1>1, InitInv, PTL DEF Spec

\* Calls, queues, the store and what clients know stay within their types.
THEOREM TypeCorrect == Spec => []TypeOK
<1>1. IInv => TypeOK
  BY DEF IInv
<1> QED  BY <1>1, Inductive, PTL

\* The calls of a client are executed once, and in the order in which it made
\* them, whether or not it has waited for the answer.
THEOREM CallsKeepOrder == Spec => []ProgramOrder
<1>1. IInv => ProgramOrder
  BY DEF IInv, History, InOrder, ProgramOrder
<1> QED  BY <1>1, Inductive, PTL

\* Whoever uses the id of a pipeline meets the one that it has launched.
THEOREM IdsStayOwn == Spec => []IdsAreNotReused
<1>1. IInv => IdsAreNotReused
  BY DEF IInv, History, PipesOK
<1> QED  BY <1>1, Inductive, PTL

\* Who has waited for an answer holds that of an execution of its call.
LEMMA AnsweredCall ==
    ASSUME IInv, [Next]_vars, NEW c \in Clients, call[c] # NoCall, result'[c].replied
    PROVE  \E i \in DOMAIN done : done[i].call = call[c] /\ done[i].answer = result'[c]
<1>1. ~result[c].replied
  BY DEF IInv, TypeOK, Nothing
<1>2. CASE Accept(c)
  <2>1. PICK r \in replies : r.call = call[c] /\ Learn(c, r)
    BY <1>2 DEF Accept
  <2>2. result'[c] = r.answer
    BY <2>1 DEF IInv, Typed, Learn, Leave
  <2> QED  BY <2>1, <2>2 DEF IInv, History, Replied
<1>3. CASE FailAtOnce(c) \/ Timeout(c) \/ Send(c)
  <2>1. ~result'[c].replied
    BY <1>3 DEF FailAtOnce, Timeout, Send, LeaveUnset, Leave, IInv, Typed, Nothing
  <2> QED  BY <2>1
<1>4. ASSUME NEW d \in Clients, d # c, Client(d) PROVE result'[c] = result[c]
  BY <1>4 DEF Client, FailAtOnce, Timeout, Send, Accept, Learn, LeaveUnset, Leave, IInv, Typed
<1>5. CASE Serve \/ Refuse \/ Die \/ Start \/ StartFails \/ UNCHANGED vars
  BY <1>1, <1>5 DEF Serve, Refuse, Die, Start, StartFails, vars
<1> QED  BY <1>1, <1>2, <1>3, <1>4, <1>5 DEF Next, Client

\* Where a call stands in the history.
LEMMA PlaceOf ==
    ASSUME IInv, NEW i \in DOMAIN done
    PROVE  Place(done[i].call.id) = i
<1>1. \A j \in DOMAIN done : done[j].call.id = done[i].call.id => j = i
  <2>1. SUFFICES ASSUME NEW j \in DOMAIN done, done[j].call.id = done[i].call.id, j # i PROVE FALSE
    OBVIOUS
  <2>2. i \in Nat /\ j \in Nat /\ done[i].call.id \in Nat
    BY Elements DEF IInv
  <2>3. i < j \/ j < i
    BY <2>1, <2>2
  <2> QED  BY <2>1, <2>2, <2>3 DEF IInv, History, InOrder
<1> QED  BY <1>1 DEF Place

\* No call has the number 0.
LEMMA PlaceOfNone == IInv => Place(0) = 0
<1>1. IInv => \A i \in DOMAIN done : done[i].call.id # 0
  BY Elements DEF IInv, History, InOrder
<1> QED  BY <1>1 DEF Place

\* A read that was executed at i is at least as new as the last write that its
\* client has seen succeed.
LEMMA ReadIsFresh ==
    ASSUME IInv, NEW c \in Clients, call[c] # NoCall, call[c].op \in {"get", "launch"},
           NEW i \in DOMAIN done, done[i].call = call[c], done[i].answer.code = "OK"
    PROVE  ~Older(c, done[i].answer.value, acked[c][call[c].name])
<1> DEFINE n == call[c].name
           v == done[i].answer.value
           x == acked[c][n]
<1>1. /\ n \in Names /\ v \in Nat /\ x \in Nat /\ i \in Nat /\ x < call[c].id /\ call[c].id \in Nat
      /\ done[i].call.id = call[c].id
  <2>1. done[i].call \in Messages /\ done[i].answer \in Answers /\ i \in Nat
    BY Elements DEF IInv
  <2>2. n \in Names /\ v \in Nat /\ call[c].id \in Nat
    BY <2>1 DEF Messages, Answers, Stores
  <2>3. x \in 0..calls /\ x < call[c].id
    BY <2>2 DEF IInv, TypeOK, History, AckedOK
  <2> QED  BY <2>1, <2>2, <2>3
<1>2. CASE x = 0
  <2>1. Place(v) \in Nat
    <3>1. CASE \E k \in DOMAIN done : done[k].call.id = v
      BY <3>1, PlaceOf, Elements DEF IInv
    <3>2. CASE ~\E k \in DOMAIN done : done[k].call.id = v
      BY <3>2 DEF Place
    <3> QED  BY <3>1, <3>2
  <2> QED  BY <1>1, <1>2, <2>1, PlaceOfNone DEF Older
<1>3. CASE x # 0
  <2>1. PICK j \in DOMAIN done : done[j].call.id = x /\ Wrote(j, n)
    BY <1>1, <1>3 DEF IInv, History, AckedOK
  <2>2. j \in Nat /\ j < i
    <3>1. j \in Nat
      BY Elements DEF IInv
    <3>2. ~(i < j) /\ i # j
      BY <1>1, <2>1 DEF IInv, History, InOrder
    <3> QED  BY <1>1, <3>1, <3>2
  <2>3. PICK l \in DOMAIN done : j <= l /\ done[l].call.id = v
    <3>1. ReadOK(i)
      BY DEF IInv, History
    <3> QED  BY <2>1, <2>2, <3>1 DEF ReadOK
  <2>4. l \in Nat /\ Place(v) = l /\ Place(x) = j
    BY <2>1, <2>3, PlaceOf, Elements DEF IInv
  <2>5. x <= v
    <3>1. CASE j = l
      BY <1>1, <2>1, <2>3, <3>1
    <3>2. CASE j < l
      BY <1>1, <2>1, <2>3, <3>2 DEF IInv, History, InOrder
    <3> QED  BY <2>2, <2>3, <2>4, <3>1, <3>2
  <2> QED  BY <1>1, <2>2, <2>3, <2>4, <2>5 DEF Older
<1> QED  BY <1>2, <1>3

\* What a client reads or launches is never older than what it has seen set, or
\* deleted outside a transaction that was left open.
THEOREM ReadsAreFresh == Spec => ReadsAreNotStale
<1>1. ASSUME IInv, [Next]_vars, NEW c \in Clients, call[c] # NoCall, call[c].op \in {"get", "launch"},
             result'[c].code = "OK", result'[c].replied
      PROVE  ~Older(c, result'[c].value, acked[c][call[c].name])
  <2>1. PICK i \in DOMAIN done : done[i].call = call[c] /\ done[i].answer = result'[c]
    BY <1>1, AnsweredCall
  <2> QED  BY <1>1, <2>1, ReadIsFresh
<1>2. IInv /\ [Next]_vars =>
        [\A c \in Clients :
            call[c] # NoCall /\ call[c].op \in {"get", "launch"} /\ result'[c].code = "OK"
            /\ result'[c].replied =>
               ~Older(c, result'[c].value, acked[c][call[c].name])]_vars
  BY <1>1
<1> QED  BY <1>2, Inductive, PTL DEF Spec, ReadsAreNotStale
=============================================================================
