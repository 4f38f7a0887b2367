---------------------------- MODULE SchedProofs -----------------------------
(***************************************************************************)
(* Sched for any set of user tasks: the task list and its counter agree,   *)
(* dead tasks are not scheduled, no ready task is overtaken, and until a   *)
(* process exits the scheduler holds no pointer to a freed task.           *)
(***************************************************************************)
EXTENDS Sched, SequenceTheorems, WellFoundedInduction, TLAPS

-----------------------------------------------------------------------------
\* A set of naturals has a first element.
LEMMA FirstNat ==
  ASSUME NEW S \in SUBSET Nat, S # {}
  PROVE  First(S) \in S /\ \A y \in S : First(S) <= y
<1> DEFINE Less == {ss \in Nat \X Nat : ss[1] < ss[2]}
<1>1. IsWellFoundedOn(Less, Nat)
  BY NatLessThanWellFounded, Zenon DEF OpToRel
<1> HIDE DEF Less
<1>2. PICK x \in S : \A y \in S : ~(<<y, x>> \in Less)
  BY <1>1, WFMin, Zenon
<1>3. \A y \in S : ~(y < x)
  BY <1>2 DEF Less
<1>4. \A y \in S : x <= y
  BY <1>3
<1> QED
  BY <1>4 DEF First

\* r is s without its place p.
Shorter(s, p, r) ==
  /\ Len(r) = Len(s) - 1
  /\ \A j \in 1 .. Len(s) - 1 : r[j] = IF j < p THEN s[j] ELSE s[j + 1]

LEMMA RemoveAtIs ==
  ASSUME NEW T, NEW s \in Seq(T), NEW p \in 1 .. Len(s)
  PROVE  RemoveAt(s, p) \in Seq(T) /\ Shorter(s, p, RemoveAt(s, p))
<1> DEFINE a == SubSeq(s, 1, p - 1)
           b == SubSeq(s, p + 1, Len(s))
<1>1. Len(s) \in Nat /\ p \in Nat /\ p - 1 \in Nat /\ \A i \in 1 .. Len(s) : s[i] \in T
  BY ElementOfSeq, LenProperties
<1>2. a \in Seq(T) /\ Len(a) = p - 1 /\ \A i \in 1 .. p - 1 : a[i] = s[i]
  BY <1>1, SubSeqProperties
<1>3. b \in Seq(T) /\ Len(b) = Len(s) - p /\ \A i \in 1 .. Len(s) - p : b[i] = s[p + i]
  <2>1. \A i \in p + 1 .. Len(s) : s[i] \in T
    BY <1>1
  <2>2. /\ b \in Seq(T) /\ Len(b) = IF p + 1 <= Len(s) THEN Len(s) - (p + 1) + 1 ELSE 0
        /\ \A i \in 1 .. Len(s) - (p + 1) + 1 : b[i] = s[p + 1 + i - 1]
    BY <1>1, <2>1, SubSeqProperties
  <2> HIDE DEF b
  <2> QED
    BY <1>1, <2>2
<1>4. RemoveAt(s, p) = a \o b
  BY DEF RemoveAt
<1> HIDE DEF a, b
<1>5. /\ a \o b \in Seq(T) /\ Len(a \o b) = Len(s) - 1
      /\ \A j \in 1 .. Len(s) - 1 : (a \o b)[j] = IF j <= p - 1 THEN a[j] ELSE b[j - (p - 1)]
  BY <1>1, <1>2, <1>3, ConcatProperties
<1>6. ASSUME NEW j \in 1 .. Len(s) - 1
      PROVE  (a \o b)[j] = IF j < p THEN s[j] ELSE s[j + 1]
  <2>1. CASE j < p
    BY <2>1, <1>1, <1>2, <1>5
  <2>2. CASE ~(j < p)
    <3>1. j - (p - 1) \in 1 .. Len(s) - p /\ p + (j - (p - 1)) = j + 1
      BY <2>2, <1>1
    <3>2. (a \o b)[j] = b[j - (p - 1)]
      BY <2>2, <1>1, <1>5
    <3> QED
      BY <2>2, <3>1, <3>2, <1>3
  <2> QED
    BY <2>1, <2>2
<1> QED
  BY <1>4, <1>5, <1>6 DEF Shorter

\* list_rotate(), i times: what was at j + i is at j, around the end.
LEMMA RotateByIs ==
  ASSUME NEW T, NEW s \in Seq(T), NEW i \in 1 .. Len(s)
  PROVE  /\ RotateBy(s, i) \in Seq(T) /\ Len(RotateBy(s, i)) = Len(s)
         /\ \A j \in 1 .. Len(s) :
              RotateBy(s, i)[j] = IF j + i <= Len(s) THEN s[j + i] ELSE s[j + i - Len(s)]
<1> DEFINE a == SubSeq(s, i + 1, Len(s))
           b == SubSeq(s, 1, i)
<1>1. Len(s) \in Nat /\ i \in Nat /\ \A k \in 1 .. Len(s) : s[k] \in T
  BY ElementOfSeq, LenProperties
<1>2. a \in Seq(T) /\ Len(a) = Len(s) - i /\ \A k \in 1 .. Len(s) - i : a[k] = s[i + k]
  <2>1. \A k \in i + 1 .. Len(s) : s[k] \in T
    BY <1>1
  <2>2. /\ a \in Seq(T) /\ Len(a) = IF i + 1 <= Len(s) THEN Len(s) - (i + 1) + 1 ELSE 0
        /\ \A k \in 1 .. Len(s) - (i + 1) + 1 : a[k] = s[i + 1 + k - 1]
    BY <1>1, <2>1, SubSeqProperties
  <2> HIDE DEF a
  <2> QED
    BY <1>1, <2>2
<1>3. b \in Seq(T) /\ Len(b) = i /\ \A k \in 1 .. i : b[k] = s[k]
  BY <1>1, SubSeqProperties
<1>4. RotateBy(s, i) = a \o b
  BY DEF RotateBy
<1> HIDE DEF a, b
<1>5. /\ a \o b \in Seq(T) /\ Len(a \o b) = Len(s)
      /\ \A j \in 1 .. Len(s) : (a \o b)[j] = IF j <= Len(s) - i THEN a[j] ELSE b[j - (Len(s) - i)]
  <2>1. Len(a) + Len(b) = Len(s)
    BY <1>1, <1>2, <1>3
  <2>2. /\ a \o b \in Seq(T) /\ Len(a \o b) = Len(a) + Len(b)
        /\ \A j \in 1 .. Len(a) + Len(b) : (a \o b)[j] = IF j <= Len(a) THEN a[j] ELSE b[j - Len(a)]
    BY <1>2, <1>3, ConcatProperties
  <2> QED
    BY <2>1, <2>2, <1>2
<1>6. ASSUME NEW j \in 1 .. Len(s)
      PROVE  (a \o b)[j] = IF j + i <= Len(s) THEN s[j + i] ELSE s[j + i - Len(s)]
  <2>1. CASE j + i <= Len(s)
    BY <2>1, <1>1, <1>2, <1>5
  <2>2. CASE ~(j + i <= Len(s))
    <3>1. j - (Len(s) - i) \in 1 .. i /\ j - (Len(s) - i) = j + i - Len(s) /\ ~(j <= Len(s) - i)
      BY <2>2, <1>1
    <3> QED
      BY <2>2, <3>1, <1>3, <1>5
  <2> QED
    BY <2>1, <2>2
<1> QED
  BY <1>4, <1>5, <1>6

-----------------------------------------------------------------------------
States == {"none", "RUNNING", "KILLED", "freed"}

Faults == {"none", "null iterator", "blocked", "no schedulable task", "endless loop", "use after free"}

Walk == [list : Seq(Tasks), state : [Tasks -> States], next : Tasks \cup {NULL}, fault : Faults]

\* r is s after list_find() and list_it_remove() of t.
Cut(s, t, r) == \E p \in 1 .. Len(s) : s[p] = t /\ r \in Seq(Tasks) /\ Shorter(s, p, r)

LEMMA ListRemoveIs ==
  ASSUME NEW w \in Walk, NEW t
  PROVE  LET v == ListRemove(w, t)
         IN /\ v \in Walk /\ v.state = w.state /\ v.next = w.next
            /\ \/ v.list = w.list /\ v.fault # "none"
               \/ Cut(w.list, t, v.list)
<1> DEFINE v == ListRemove(w, t)
           p == ListFind(w.list, t)
<1>1. w.list \in Seq(Tasks) /\ DOMAIN w.list = 1 .. Len(w.list) /\ Len(w.list) \in Nat
  BY DEF Walk
<1>2. CASE t \notin Range(w.list)
  <2>1. v = [w EXCEPT !.fault = "null iterator"]
    BY <1>2 DEF ListRemove
  <2> HIDE DEF v
  <2>2. v \in Walk /\ v.state = w.state /\ v.next = w.next /\ v.list = w.list /\ v.fault # "none"
    BY <2>1 DEF Walk, Faults
  <2> QED
    BY <2>2 DEF v
<1>3. CASE t \in Range(w.list)
  <2>1. PICK k \in DOMAIN w.list : w.list[k] = t
    BY <1>3 DEF Range
  <2>2. {k2 \in DOMAIN w.list : w.list[k2] = t} \in SUBSET Nat /\ {k2 \in DOMAIN w.list : w.list[k2] = t} # {}
    BY <2>1, <1>1
  <2>3. p \in 1 .. Len(w.list) /\ w.list[p] = t
    BY <2>2, <1>1, FirstNat DEF ListFind
  <2>4. v = [w EXCEPT !.list = RemoveAt(w.list, p),
                      !.fault = IF heap_owner = NULL THEN "none" ELSE "blocked"]
    BY <1>3 DEF ListRemove
  <2> HIDE DEF v, p
  <2>5. RemoveAt(w.list, p) \in Seq(Tasks) /\ Shorter(w.list, p, RemoveAt(w.list, p))
    BY <1>1, <2>3, RemoveAtIs
  <2>6. v \in Walk /\ v.state = w.state /\ v.next = w.next /\ v.list = RemoveAt(w.list, p)
    BY <2>4, <2>5 DEF Walk, Faults
  <2>7. Cut(w.list, t, v.list)
    BY <2>3, <2>5, <2>6 DEF Cut
  <2> QED
    BY <2>6, <2>7 DEF v
<1> QED
  BY <1>2, <1>3

\* Where get_next_task() looks closer.
Stops(w) ==
  {k \in DOMAIN w.list : \/ w.state[w.list[k]] = "freed" \/ Dead(w, w.list[k])
                         \/ w.state[w.list[k]] = "RUNNING" /\ ~irq_wait[w.list[k]]}

\* The walk w goes on, from r: the task at place i was picked ...
Picks(w, i, r) ==
  /\ r.list = RotateBy(w.list, i) /\ r.state = w.state /\ r.next = w.list[i] /\ r.fault = "none"
  /\ w.state[w.list[i]] = "RUNNING" /\ ~Dead(w, w.list[i])

\* ... or it was dead, and current_task left the list.
Buries(w, i, r) ==
  /\ Dead(w, w.list[i])
  /\ r.state = [w.state EXCEPT ![w.list[i]] = "KILLED"] /\ r.next = NULL
  /\ \/ r.list = RotateBy(w.list, i) /\ r.fault # "none"
     \/ Cut(RotateBy(w.list, i), current_task, r.list)

\* The walk cannot go on.
Halts(w, r) == r.list = w.list /\ r.state = w.state /\ r.next = w.next /\ r.fault # "none"

\* What one turn of get_next_task() does.
LEMMA TurnIs ==
  ASSUME NEW w \in Walk
  PROVE  LET r == Turn(w)
         IN /\ r \in Walk
            /\ \/ r = w /\ (w.next # NULL \/ w.fault # "none")
               \/ Halts(w, r)
               \/ /\ w.next = NULL /\ w.fault = "none"
                  /\ \E i \in Stops(w) : /\ \A m \in Stops(w) : i <= m
                                         /\ Picks(w, i, r) \/ Buries(w, i, r)
<1> DEFINE r == Turn(w)
           i == First(Stops(w))
           t == w.list[i]
           v == [w EXCEPT !.list = RotateBy(w.list, i)]
<1>1. /\ w.list \in Seq(Tasks) /\ DOMAIN w.list = 1 .. Len(w.list) /\ Len(w.list) \in Nat
      /\ w.state \in [Tasks -> States] /\ w.next \in Tasks \cup {NULL} /\ w.fault \in Faults
  BY DEF Walk
<1>2. r = IF w.next # NULL \/ w.fault # "none" THEN w
          ELSE IF w.list = <<>> THEN [w EXCEPT !.fault = "no schedulable task"]
          ELSE IF Stops(w) = {} THEN [w EXCEPT !.fault = "endless loop"]
          ELSE IF w.state[t] = "freed" THEN [w EXCEPT !.fault = "use after free"]
          ELSE TaskSchedulable(v, t)
  BY DEF Turn, Stops
<1>3. CASE w.next # NULL \/ w.fault # "none"
  BY <1>2, <1>3
<1>4. CASE ~(w.next # NULL \/ w.fault # "none") /\ w.list = <<>>
  <2>1. r = [w EXCEPT !.fault = "no schedulable task"]
    BY <1>2, <1>4
  <2> HIDE DEF r
  <2>2. r \in Walk /\ Halts(w, r)
    BY <2>1 DEF Walk, Halts, Faults
  <2> QED
    BY <2>2 DEF r
<1>5. CASE ~(w.next # NULL \/ w.fault # "none") /\ w.list # <<>> /\ Stops(w) = {}
  <2>1. r = [w EXCEPT !.fault = "endless loop"]
    BY <1>2, <1>5
  <2> HIDE DEF r
  <2>2. r \in Walk /\ Halts(w, r)
    BY <2>1 DEF Walk, Halts, Faults
  <2> QED
    BY <2>2 DEF r
<1>6. CASE ~(w.next # NULL \/ w.fault # "none") /\ w.list # <<>> /\ Stops(w) # {}
  <2>1. i \in Stops(w) /\ (\A m \in Stops(w) : i <= m) /\ i \in 1 .. Len(w.list) /\ t \in Tasks
    <3>1. Stops(w) \in SUBSET Nat
      BY <1>1 DEF Stops
    <3>2. i \in Stops(w) /\ \A m \in Stops(w) : i <= m
      BY <1>6, <3>1, FirstNat
    <3>3. i \in DOMAIN w.list
      BY <3>2 DEF Stops
    <3> HIDE DEF i
    <3> QED
      BY <1>1, <3>2, <3>3, ElementOfSeq
  <2>2. CASE w.state[t] = "freed"
    <3>1. r = [w EXCEPT !.fault = "use after free"]
      BY <1>2, <1>6, <2>2
    <3> HIDE DEF r
    <3>2. r \in Walk /\ Halts(w, r)
      BY <3>1 DEF Walk, Halts, Faults
    <3> QED
      BY <3>2 DEF r
  <2>3. CASE w.state[t] # "freed"
    <3>1. r = TaskSchedulable(v, t)
      BY <1>2, <1>6, <2>3
    <3>2. RotateBy(w.list, i) \in Seq(Tasks)
      BY <1>1, <2>1, RotateByIs
    <3>3. /\ v \in Walk /\ v.list = RotateBy(w.list, i) /\ v.state = w.state
          /\ v.next = NULL /\ v.fault = "none"
      BY <3>2, <1>6 DEF Walk
    <3> HIDE DEF r, v, i
    <3>4. Dead(v, t) <=> Dead(w, t)
      BY <3>3 DEF Dead
    <3>5. CASE Dead(w, t)
      <4> DEFINE d == [v EXCEPT !.state[t] = "KILLED"]
      <4>1. r = ListRemove(d, current_task)
        BY <3>1, <3>4, <3>5 DEF TaskSchedulable
      <4>2. d \in Walk /\ d.list = v.list /\ d.next = NULL /\ d.state = [w.state EXCEPT ![t] = "KILLED"]
        BY <3>3, <2>1 DEF Walk, States
      <4> HIDE DEF d
      <4>3. /\ r \in Walk /\ r.state = d.state /\ r.next = d.next
            /\ \/ r.list = d.list /\ r.fault # "none"
               \/ Cut(d.list, current_task, r.list)
        BY <4>1, <4>2, ListRemoveIs
      <4>4. Buries(w, i, r)
        BY <3>3, <3>5, <4>2, <4>3 DEF Buries
      <4> QED
        BY <1>6, <2>1, <4>3, <4>4 DEF r
    <3>6. CASE ~Dead(w, t)
      <4>1. w.state[t] = "RUNNING" /\ ~irq_wait[t]
        BY <2>1, <2>3, <3>6 DEF Stops
      <4>2. r = [v EXCEPT !.next = t]
        BY <3>1, <3>3, <3>4, <3>6, <4>1 DEF TaskSchedulable
      <4>3. r \in Walk /\ r.list = v.list /\ r.state = v.state /\ r.next = t /\ r.fault = "none"
        BY <3>3, <4>2, <2>1 DEF Walk
      <4>4. Picks(w, i, r)
        BY <3>3, <3>6, <4>1, <4>3 DEF Picks
      <4> QED
        BY <1>6, <2>1, <4>3, <4>4 DEF r
    <3> QED
      BY <3>5, <3>6
  <2> QED
    BY <2>2, <2>3
<1> QED
  BY <1>3, <1>4, <1>5, <1>6

-----------------------------------------------------------------------------
Places == {"run", "yield", "count", "insert", "kill", "remove"}

TypeOK ==
  /\ sched_tasks \in Seq(Tasks)
  /\ current_task \in Tasks \cup {NULL}
  /\ state \in [Tasks -> States]
  /\ irq_wait \in [Tasks -> BOOLEAN]
  /\ proc \in [Users -> States]
  /\ task_list \in Seq(Tasks)
  /\ task_count \in Nat
  /\ it \in Nat
  /\ pc \in [Tasks -> Places]
  /\ fault \in Faults

\* A walk only kills tasks of dead processes, and only picks a task that runs.
Sane(w) ==
  /\ w \in Walk
  /\ \A t \in Tasks : \/ w.state[t] = state[t]
                      \/ w.state[t] = "KILLED" /\ t \in Users /\ proc[t] = "KILLED"
  /\ w.next # NULL => /\ state[w.next] = "RUNNING"
                      /\ w.next \in Users => proc[w.next] # "KILLED"

LEMMA TurnSane ==
  ASSUME NEW w, Sane(w)
  PROVE  Sane(Turn(w))
<1> DEFINE r == Turn(w)
<1>1. w \in Walk
  BY DEF Sane
<1>2. /\ r \in Walk
      /\ \/ r = w
         \/ Halts(w, r)
         \/ \E i \in Stops(w) : Picks(w, i, r) \/ Buries(w, i, r)
  BY <1>1, TurnIs
<1> HIDE DEF r
<1>3. ASSUME r = w \/ Halts(w, r)
      PROVE  Sane(r)
  BY <1>2, <1>3 DEF Sane, Halts
<1>4. ASSUME NEW i \in Stops(w), Picks(w, i, r) \/ Buries(w, i, r)
      PROVE  Sane(r)
  <2> DEFINE t == w.list[i]
  <2>1. t \in Tasks
    BY <1>1, ElementOfSeq DEF Stops, Walk
  <2>2. CASE Picks(w, i, r)
    <3>1. r.state = w.state /\ r.next = t /\ w.state[t] = "RUNNING" /\ ~Dead(w, t)
      BY <2>2 DEF Picks
    <3> HIDE DEF t
    <3>2. state[t] = "RUNNING" /\ (t \in Users => proc[t] # "KILLED")
      BY <2>1, <3>1 DEF Sane, Dead
    <3> QED
      BY <1>2, <3>1, <3>2 DEF Sane
  <2>3. CASE Buries(w, i, r)
    <3>1. Dead(w, t) /\ r.state = [w.state EXCEPT ![t] = "KILLED"] /\ r.next = NULL
      BY <2>3 DEF Buries
    <3>2. w.state \in [Tasks -> States]
      BY <1>1 DEF Walk
    <3> HIDE DEF t
    <3>3. ASSUME NEW u \in Tasks
          PROVE  \/ r.state[u] = state[u]
                 \/ r.state[u] = "KILLED" /\ u \in Users /\ proc[u] = "KILLED"
      <4>1. CASE u = t
        BY <4>1, <3>1, <3>2 DEF Sane, Dead
      <4>2. CASE u # t
        BY <4>2, <3>1, <3>2 DEF Sane
      <4> QED
        BY <4>1, <4>2
    <3> QED
      BY <1>2, <3>1, <3>3 DEF Sane
  <2> QED
    BY <1>4, <2>2, <2>3
<1> QED
  BY <1>2, <1>3, <1>4 DEF r

\* The walk that get_next_task() begins with.
Start == [list |-> sched_tasks, state |-> state, next |-> NULL, fault |-> "none"]

LEMMA StartSane ==
  ASSUME TypeOK
  PROVE  Start \in Walk /\ Sane(Start)
  BY DEF TypeOK, Start, Walk, Sane, Faults

\* schedule() drops a killed current_task.
Drops(w) ==
  /\ w.fault = "none" /\ current_task \notin {w.next, NULL}
  /\ w.state[current_task] = "KILLED"

\* What schedule() does, in terms of the walk.
LEMMA ScheduleIs ==
  ASSUME TypeOK, Schedule
  PROVE  LET w == Turn(Turn(Start))
         IN /\ Sane(Turn(Start)) /\ Sane(w)
            /\ \E r \in Walk :
                 /\ \/ ~Drops(w) /\ r = w
                    \/ Drops(w) /\ r = ListRemove(w, current_task)
                 /\ Sane(r)
                 /\ sched_tasks' = r.list /\ state' = r.state /\ fault' = r.fault
                 /\ current_task' = IF r.fault = "none" THEN r.next ELSE current_task
<1> DEFINE w == Turn(Turn(Start))
           r == IF Drops(w) THEN ListRemove(w, current_task) ELSE w
<1>1. Sane(Turn(Start)) /\ Sane(w) /\ w \in Walk
  BY StartSane, TurnSane DEF Sane
<1>2. GetNextTask = {w}
  BY DEF GetNextTask, Start
<1>3. /\ sched_tasks' = r.list /\ state' = r.state /\ fault' = r.fault
      /\ current_task' = IF r.fault = "none" THEN r.next ELSE current_task
  BY <1>2 DEF Schedule, Drops
<1> HIDE DEF w
<1>4. CASE Drops(w)
  <2>1. r = ListRemove(w, current_task)
    BY <1>4
  <2> HIDE DEF r
  <2>2. r \in Walk /\ r.state = w.state /\ r.next = w.next
    BY <1>1, <2>1, ListRemoveIs
  <2>3. Sane(r)
    BY <1>1, <2>2 DEF Sane
  <2> QED
    BY <1>1, <1>3, <1>4, <2>1, <2>2, <2>3 DEF w
<1>5. CASE ~Drops(w)
  <2>1. r = w
    BY <1>5
  <2> HIDE DEF r
  <2> QED
    BY <1>1, <1>3, <1>5, <2>1 DEF w
<1> QED
  BY <1>4, <1>5

\* What every schedule() leaves behind.
LEMMA ScheduleSane ==
  ASSUME TypeOK, Schedule
  PROVE  /\ sched_tasks' \in Seq(Tasks) /\ state' \in [Tasks -> States] /\ fault' \in Faults
         /\ current_task' \in Tasks \cup {NULL}
         /\ \A t \in Tasks : \/ state'[t] = state[t]
                             \/ state'[t] = "KILLED" /\ t \in Users /\ proc[t] = "KILLED"
         /\ current_task' # current_task /\ current_task' # NULL =>
              /\ state[current_task'] = "RUNNING"
              /\ current_task' \in Users => proc[current_task'] # "KILLED"
<1>1. PICK r \in Walk :
                 /\ Sane(r)
                 /\ sched_tasks' = r.list /\ state' = r.state /\ fault' = r.fault
                 /\ current_task' = IF r.fault = "none" THEN r.next ELSE current_task
  BY ScheduleIs
<1> QED
  BY <1>1 DEF Sane, Walk, TypeOK

-----------------------------------------------------------------------------
\* Why the counter never drops to zero: two tasks are on the list for ever.
\* They run no program that exits and are not in a process that could.
Eternal == {Idle, Cleanup}

CountInv ==
  /\ Len(task_list) = (task_count + (IF pc[InitTask] = "count" THEN 1 ELSE 0))
                        - (IF pc[Cleanup] = "count" THEN 1 ELSE 0)
  /\ pc[Cleanup] = "remove" => it \in 1 .. Len(task_list) /\ task_list[it] \notin Eternal
  /\ \A t \in Eternal : /\ state[t] = "RUNNING"
                        /\ \E i \in 1 .. Len(task_list) : task_list[i] = t
                        /\ pc[t] # "kill"

SchedInv == TypeOK /\ CountInv

LEMMA EternalFacts ==
  /\ Eternal \subseteq Tasks /\ Eternal \cap Users = {} /\ InitTask \notin Eternal
  /\ InitTask \in Tasks /\ InitTask \notin Users /\ Idle # Cleanup /\ Users \subseteq Tasks
  /\ NULL \notin Tasks /\ Idle \in Eternal /\ Cleanup \in Eternal
  BY TasksAssumption DEF Eternal, Tasks

\* A list with two different tasks has two places.
LEMMA CountPositive == SchedInv => CountExact
<1> SUFFICES ASSUME SchedInv PROVE CountExact
  OBVIOUS
<1>1. PICK i \in 1 .. Len(task_list), j \in 1 .. Len(task_list) : task_list[i] = Idle /\ task_list[j] = Cleanup
  BY EternalFacts DEF SchedInv, CountInv
<1>2. i # j /\ Len(task_list) \in Nat
  BY <1>1, EternalFacts DEF SchedInv, TypeOK
<1>3. Len(task_list) >= 2
  BY <1>1, <1>2
<1>4. /\ task_count \in Nat
      /\ Len(task_list) = (task_count + (IF pc[InitTask] = "count" THEN 1 ELSE 0))
                            - (IF pc[Cleanup] = "count" THEN 1 ELSE 0)
  BY DEF SchedInv, TypeOK, CountInv
<1> QED
  BY <1>3, <1>4 DEF CountExact

LEMMA SchedInit == Init => SchedInv
<1> SUFFICES ASSUME Init PROVE SchedInv
  OBVIOUS
<1> USE EternalFacts DEF Init
<1>1. <<Cleanup, Idle, InitTask>> \in Seq(Tasks)
  BY DEF Eternal
<1>2. TypeOK
  BY <1>1 DEF TypeOK, States, Faults, Places
<1>3. ASSUME NEW t \in Eternal
      PROVE  \E i \in 1 .. Len(task_list) : task_list[i] = t
  <2>1. Len(task_list) = 3 /\ task_list[1] = Cleanup /\ task_list[2] = Idle
    OBVIOUS
  <2> QED
    BY <2>1 DEF Eternal
<1>4. Len(task_list) = 3 /\ pc[InitTask] = "run" /\ pc[Cleanup] = "run"
  OBVIOUS
<1>5. CountInv
  BY <1>3, <1>4 DEF CountInv
<1> QED
  BY <1>2, <1>5 DEF SchedInv

\* Interrupt handlers and yield(): only the scheduler's own data change.
LEMMA ScheduleStep ==
  ASSUME SchedInv, Schedule, UNCHANGED <<proc, task_list, task_count, it>>,
         irq_wait' = irq_wait, pc' \in [Tasks -> Places],
         \A t \in Tasks : pc'[t] = "count" <=> pc[t] = "count",
         pc'[Cleanup] = "remove" => pc[Cleanup] = "remove",
         \A t \in Tasks : pc'[t] = "kill" => pc[t] = "kill"
  PROVE  SchedInv'
<1>1. /\ sched_tasks' \in Seq(Tasks) /\ state' \in [Tasks -> States] /\ fault' \in Faults
      /\ current_task' \in Tasks \cup {NULL}
      /\ \A t \in Tasks : \/ state'[t] = state[t]
                          \/ state'[t] = "KILLED" /\ t \in Users /\ proc[t] = "KILLED"
  BY ScheduleSane DEF SchedInv
<1>2. TypeOK'
  BY <1>1 DEF SchedInv, TypeOK
<1>3. CountInv'
  <2>1. \A t \in Eternal : state'[t] = "RUNNING" /\ pc'[t] # "kill"
    BY <1>1, EternalFacts DEF SchedInv, CountInv
  <2>2. (pc'[InitTask] = "count" <=> pc[InitTask] = "count") /\ (pc'[Cleanup] = "count" <=> pc[Cleanup] = "count")
    BY EternalFacts
  <2> QED
    BY <2>1, <2>2 DEF SchedInv, CountInv
<1> QED
  BY <1>2, <1>3 DEF SchedInv

\* cleanup_task_func() deletes a dead task.
LEMMA VisitStep ==
  ASSUME SchedInv, CleanupVisit
  PROVE  SchedInv'
<1> DEFINE t == task_list[it]
<1> USE EternalFacts DEF SchedInv
<1>1. /\ it \in 1 .. Len(task_list) /\ Len(task_list) \in Nat /\ t \in Tasks
      /\ task_list \in Seq(Tasks) /\ task_count \in Nat /\ pc[Cleanup] = "run"
  BY ElementOfSeq DEF CleanupVisit, At, TypeOK
<1>2. UNCHANGED <<sched_tasks, current_task, irq_wait, task_list, task_count, heap_owner, fault>>
  BY DEF CleanupVisit
<1>3. CASE state[t] = "KILLED"
  <2>1. /\ state' = [state EXCEPT ![t] = "freed"]
        /\ proc' = [u \in Users |-> IF u = t THEN "freed" ELSE proc[u]]
        /\ pc' = [pc EXCEPT ![Cleanup] = "remove"]
        /\ it' = it
    BY <1>3 DEF CleanupVisit, Goto
  <2>2. t \notin Eternal
    BY <1>3 DEF CountInv
  <2>3. task_list'[it'] = t
    BY <1>2, <2>1
  <2> HIDE DEF t
  <2>4. TypeOK'
    BY <1>1, <1>2, <2>1 DEF TypeOK, States, Places
  <2>5. \A e \in Eternal : state'[e] = "RUNNING" /\ pc'[e] # "kill"
    BY <1>1, <2>1, <2>2 DEF TypeOK, CountInv
  <2>6. pc'[InitTask] = pc[InitTask] /\ pc'[Cleanup] = "remove"
    BY <2>1 DEF TypeOK
  <2>7. CountInv'
    BY <1>1, <1>2, <2>1, <2>2, <2>3, <2>5, <2>6 DEF CountInv
  <2> QED
    BY <2>4, <2>7
<1>4. CASE state[t] # "KILLED"
  <2>1. it' = it + 1 /\ UNCHANGED <<state, proc, pc>>
    BY <1>4 DEF CleanupVisit
  <2> QED
    BY <1>1, <1>2, <2>1 DEF TypeOK, CountInv
<1> QED
  BY <1>3, <1>4

\* ... and drops it from the list: the tasks that stay for ever are still there.
LEMMA RemoveStep ==
  ASSUME SchedInv, CleanupRemove
  PROVE  SchedInv'
<1> USE EternalFacts DEF SchedInv
<1>1. /\ it \in 1 .. Len(task_list) /\ Len(task_list) \in Nat
      /\ task_list[it] \notin Eternal
      /\ task_list \in Seq(Tasks) /\ task_count \in Nat /\ pc[Cleanup] = "remove"
  BY DEF CleanupRemove, At, TypeOK, CountInv
<1>2. /\ task_list' = RemoveAt(task_list, it)
      /\ pc' = [pc EXCEPT ![Cleanup] = "count"]
      /\ UNCHANGED <<sched_tasks, current_task, state, irq_wait, proc, task_count, it, heap_owner, fault>>
  BY DEF CleanupRemove, Goto
<1>3. task_list' \in Seq(Tasks) /\ Shorter(task_list, it, task_list')
  BY <1>1, <1>2, RemoveAtIs
<1>4. TypeOK'
  BY <1>2, <1>3 DEF TypeOK, Places
<1>5. ASSUME NEW e \in Eternal
      PROVE  /\ state'[e] = "RUNNING" /\ pc'[e] # "kill"
             /\ \E i \in 1 .. Len(task_list') : task_list'[i] = e
  <2>1. PICK i \in 1 .. Len(task_list) : task_list[i] = e
    BY DEF CountInv
  <2>2. i # it
    BY <2>1, <1>1
  <2>3. \E k \in 1 .. Len(task_list') : task_list'[k] = e
    <3>1. CASE i < it
      <4>1. i \in 1 .. Len(task_list) - 1
        BY <3>1, <1>1
      <4> QED
        BY <3>1, <4>1, <2>1, <1>3 DEF Shorter
    <3>2. CASE i > it
      <4>1. i - 1 \in 1 .. Len(task_list) - 1 /\ ~(i - 1 < it) /\ (i - 1) + 1 = i
        BY <3>2, <1>1
      <4> QED
        BY <4>1, <2>1, <1>3 DEF Shorter
    <3> QED
      BY <3>1, <3>2, <2>2, <1>1
  <2> QED
    BY <2>3, <1>2 DEF TypeOK, CountInv
<1>6. pc'[InitTask] = pc[InitTask] /\ pc'[Cleanup] = "count"
  BY <1>2 DEF TypeOK
<1>7. Len(task_list') = (task_count' + (IF pc'[InitTask] = "count" THEN 1 ELSE 0))
                          - (IF pc'[Cleanup] = "count" THEN 1 ELSE 0)
  <2>1. Len(task_list) = task_count + (IF pc[InitTask] = "count" THEN 1 ELSE 0)
    BY <1>1 DEF CountInv
  <2> QED
    BY <2>1, <1>1, <1>2, <1>3, <1>6 DEF Shorter
<1>8. CountInv'
  BY <1>5, <1>6, <1>7 DEF CountInv
<1> QED
  BY <1>4, <1>8

\* tl_insert() lists a new task and then counts it.
LEMMA CreateStep ==
  ASSUME SchedInv, NEW u \in Users, CreateUserTask(u)
  PROVE  SchedInv'
<1> USE EternalFacts DEF SchedInv
<1>1. /\ state' = [state EXCEPT ![u] = "RUNNING"] /\ proc' = [proc EXCEPT ![u] = "RUNNING"]
      /\ task_list' = Append(task_list, u) /\ pc' = [pc EXCEPT ![InitTask] = "count"]
      /\ UNCHANGED <<sched_tasks, current_task, irq_wait, task_count, it, heap_owner, fault>>
      /\ pc[InitTask] = "run"
  BY DEF CreateUserTask, At, Goto
<1>2. task_list \in Seq(Tasks) /\ u \in Tasks
  BY DEF TypeOK
<1>3. /\ task_list' \in Seq(Tasks) /\ Len(task_list') = Len(task_list) + 1
      /\ \A i \in 1 .. Len(task_list) : task_list'[i] = task_list[i]
  BY <1>1, <1>2, AppendProperties
<1>4. TypeOK'
  BY <1>1, <1>3 DEF TypeOK, States, Places
<1>5. ASSUME NEW e \in Eternal
      PROVE  /\ state'[e] = "RUNNING" /\ pc'[e] # "kill"
             /\ \E i \in 1 .. Len(task_list') : task_list'[i] = e
  <2>1. e # u /\ e # InitTask
    OBVIOUS
  <2>2. PICK i \in 1 .. Len(task_list) : task_list[i] = e
    BY DEF CountInv
  <2>3. i \in 1 .. Len(task_list')
    BY <1>2, <1>3
  <2> QED
    BY <2>1, <2>2, <2>3, <1>1, <1>3 DEF TypeOK, CountInv
<1>6. Len(task_list') = (task_count' + (IF pc'[InitTask] = "count" THEN 1 ELSE 0))
                          - (IF pc'[Cleanup] = "count" THEN 1 ELSE 0)
  BY <1>1, <1>3 DEF TypeOK, CountInv
<1>7. pc'[Cleanup] = "remove" =>
        it' \in 1 .. Len(task_list') /\ task_list'[it'] \notin Eternal
  BY <1>1, <1>2, <1>3 DEF TypeOK, CountInv
<1> QED
  BY <1>4, <1>5, <1>6, <1>7 DEF CountInv

\* Every other step changes one task's place, and states of tasks that may end.
LEMMA SchedStep == SchedInv /\ [Next]_vars => SchedInv'
<1> SUFFICES ASSUME SchedInv, [Next]_vars
             PROVE  SchedInv'
  OBVIOUS
<1> USE EternalFacts
<1>1. CASE UNCHANGED vars
  BY <1>1 DEF vars, SchedInv, TypeOK, CountInv
<1>2. CASE Timer
  BY <1>2, ScheduleStep DEF Timer, SchedInv, TypeOK
<1>3. ASSUME NEW t \in Tasks, Yield(t)
      PROVE  SchedInv'
  <2>1. Schedule /\ pc[t] = "yield" /\ pc' = [pc EXCEPT ![t] = "run"]
    BY <1>3 DEF Yield, At, Goto
  <2>2. /\ pc' \in [Tasks -> Places] /\ \A x \in Tasks : pc'[x] = "count" <=> pc[x] = "count"
        /\ pc'[Cleanup] = "remove" => pc[Cleanup] = "remove"
    BY <2>1 DEF SchedInv, TypeOK, Places
  <2>3. \A x \in Tasks : pc'[x] = "kill" => pc[x] = "kill"
    BY <2>1 DEF SchedInv, TypeOK
  <2>4. UNCHANGED <<proc, task_list, task_count, it>> /\ irq_wait' = irq_wait
    BY <1>3 DEF Yield
  <2> QED
    BY <2>1, <2>2, <2>3, <2>4, ScheduleStep
<1>4. ASSUME NEW t \in Tasks, HeapEnter(t) \/ HeapLeave(t)
      PROVE  SchedInv'
  BY <1>4 DEF HeapEnter, HeapLeave, SchedInv, TypeOK, CountInv
<1>5. ASSUME NEW t \in Tasks, IrqWait(t)
      PROVE  SchedInv'
  <2>1. /\ pc' = [pc EXCEPT ![t] = "yield"] /\ pc[t] = "run" /\ irq_wait' = [irq_wait EXCEPT ![t] = TRUE]
        /\ UNCHANGED <<sched_tasks, current_task, state, proc, task_list, task_count, it, heap_owner, fault>>
    BY <1>5 DEF IrqWait, At, Goto
  <2>2. TypeOK'
    BY <2>1 DEF SchedInv, TypeOK, Places
  <2>3. CountInv'
    BY <2>1 DEF SchedInv, TypeOK, CountInv
  <2> QED
    BY <2>2, <2>3 DEF SchedInv
<1>6. ASSUME NEW t \in Tasks, IrqSignal(t)
      PROVE  SchedInv'
  BY <1>6 DEF IrqSignal, SchedInv, TypeOK, CountInv
<1>7. ASSUME NEW t \in Tasks, TaskKill(t)
      PROVE  SchedInv'
  <2>1. /\ pc' = [pc EXCEPT ![t] = "yield"] /\ state' = [state EXCEPT ![t] = "KILLED"]
        /\ UNCHANGED <<sched_tasks, current_task, irq_wait, proc, task_list, task_count, it, heap_owner, fault>>
        /\ pc[t] = "kill" \/ (pc[t] = "run" /\ t = InitTask)
    BY <1>7 DEF TaskKill, At, Goto
  <2>2. TypeOK'
    BY <2>1 DEF SchedInv, TypeOK, Places, States
  <2>3. t \notin Eternal
    BY <2>1 DEF SchedInv, CountInv
  <2>4. pc'[InitTask] = "count" <=> pc[InitTask] = "count"
    BY <2>1 DEF SchedInv, TypeOK
  <2>5. CountInv'
    BY <2>1, <2>3, <2>4 DEF SchedInv, TypeOK, CountInv
  <2> QED
    BY <2>2, <2>5 DEF SchedInv
<1>8. ASSUME NEW u \in Users, CreateUserTask(u)
      PROVE  SchedInv'
  BY <1>8, CreateStep
<1>9. ASSUME NEW u \in Users, SysExit(u)
      PROVE  SchedInv'
  <2>1. /\ pc' = [pc EXCEPT ![u] = "kill"] /\ proc' = [proc EXCEPT ![u] = "KILLED"]
        /\ UNCHANGED <<sched_tasks, current_task, state, irq_wait, task_list, task_count, it, heap_owner, fault>>
    BY <1>9 DEF SysExit, At, Goto
  <2>2. TypeOK'
    BY <2>1 DEF SchedInv, TypeOK, Places, States
  <2>3. CountInv'
    BY <2>1 DEF SchedInv, TypeOK, CountInv
  <2> QED
    BY <2>2, <2>3 DEF SchedInv
<1>10. CASE CountTask
  <2>1. /\ pc[InitTask] = "count" /\ pc' = [pc EXCEPT ![InitTask] = "insert"] /\ task_count' = task_count + 1
        /\ UNCHANGED <<sched_tasks, current_task, state, irq_wait, proc, task_list, it, heap_owner, fault>>
    BY <1>10 DEF CountTask, At, Goto
  <2>2. TypeOK'
    BY <2>1 DEF SchedInv, TypeOK, Places
  <2>3. CountInv'
    BY <2>1 DEF SchedInv, TypeOK, CountInv
  <2> QED
    BY <2>2, <2>3 DEF SchedInv
<1>11. CASE SchedInsert
  <2>1. /\ pc[InitTask] = "insert" /\ pc' = [pc EXCEPT ![InitTask] = "run"]
        /\ sched_tasks' = Append(sched_tasks, Last(task_list))
        /\ UNCHANGED <<current_task, state, irq_wait, proc, task_list, task_count, it, heap_owner, fault>>
    BY <1>11 DEF SchedInsert, At, Goto
  <2>2. Last(task_list) \in Tasks
    BY ElementOfSeq DEF SchedInv, TypeOK, CountInv, Last
  <2>3. TypeOK'
    BY <2>1, <2>2, AppendProperties DEF SchedInv, TypeOK, Places
  <2>4. CountInv'
    BY <2>1 DEF SchedInv, TypeOK, CountInv
  <2> QED
    BY <2>3, <2>4 DEF SchedInv
<1>12. CASE CleanupLock
  BY <1>12 DEF CleanupLock, SchedInv, TypeOK, CountInv
<1>13. CASE CleanupVisit
  BY <1>13, VisitStep
<1>15. CASE CleanupRemove
  BY <1>15, RemoveStep
<1>16. CASE CleanupCount
  <2>1. /\ pc[Cleanup] = "count" /\ pc' = [pc EXCEPT ![Cleanup] = "run"] /\ task_count' = task_count - 1
        /\ UNCHANGED <<sched_tasks, current_task, state, irq_wait, proc, task_list, it, heap_owner, fault>>
    BY <1>16 DEF CleanupCount, At, Goto
  <2>2. task_count > 0
    BY CountPositive DEF CountExact
  <2>3. TypeOK'
    BY <2>1, <2>2 DEF SchedInv, TypeOK, Places
  <2>4. CountInv'
    BY <2>1, <2>2 DEF SchedInv, TypeOK, CountInv
  <2> QED
    BY <2>3, <2>4 DEF SchedInv
<1>14. CASE CleanupUnlock
  <2>1. /\ pc[Cleanup] = "run" /\ pc' = [pc EXCEPT ![Cleanup] = "yield"] /\ it' = 0
        /\ UNCHANGED <<sched_tasks, current_task, state, irq_wait, proc, task_list, task_count, heap_owner, fault>>
    BY <1>14 DEF CleanupUnlock, At, Goto
  <2>2. TypeOK'
    BY <2>1 DEF SchedInv, TypeOK, Places
  <2>3. CountInv'
    BY <2>1 DEF SchedInv, TypeOK, CountInv
  <2> QED
    BY <2>2, <2>3 DEF SchedInv
<1> QED
  BY <1>1, <1>2, <1>3, <1>4, <1>5, <1>6, <1>7, <1>8, <1>9, <1>10, <1>11, <1>12, <1>13, <1>14, <1>15, <1>16
  DEF Next, CleanupStep

\* The types and the count hold in every reachable state.
THEOREM SchedInvariant == Spec => []SchedInv
  BY SchedInit, SchedStep, PTL DEF Spec

\* task_count agrees with the task list between any two steps of tl_insert()
\* and cleanup_task_func(), and is never zero.
THEOREM TaskCountExact == Spec => []CountExact
  BY SchedInvariant, CountPositive, PTL

\* Only schedule() changes the running task.
LEMMA OnlySchedule ==
  ASSUME [Next]_vars, current_task' # current_task
  PROVE  Schedule
  BY DEF vars, Next, CleanupStep, Timer, Yield, HeapEnter, HeapLeave, IrqWait, IrqSignal, TaskKill,
         CreateUserTask, SysExit, CountTask, SchedInsert, CleanupLock, CleanupVisit,
         CleanupRemove, CleanupCount, CleanupUnlock

\* schedule() never picks a killed task, nor one whose process was killed while
\* it was preempted between the two stores of sys_exit().
THEOREM DeadNotScheduled == Spec => KilledNeverScheduled
<1> DEFINE A == \A t \in Tasks :
                  /\ current_task' = t /\ current_task # t
                  => state[t] = "RUNNING" /\ (t \in Users => proc[t] # "KILLED")
<1>1. SchedInv /\ [Next]_vars => A
  <2> SUFFICES ASSUME SchedInv, [Next]_vars, NEW t \in Tasks, current_task' = t, current_task # t
               PROVE  state[t] = "RUNNING" /\ (t \in Users => proc[t] # "KILLED")
    OBVIOUS
  <2>1. Schedule
    BY OnlySchedule
  <2> QED
    BY <2>1, ScheduleSane, EternalFacts DEF SchedInv
<1>2. SchedInv /\ [Next]_vars => [A]_vars
  BY <1>1
<1>3. Spec => [][A]_vars
  BY <1>2, SchedInvariant, PTL DEF Spec
<1> QED
  BY <1>3 DEF KilledNeverScheduled

-----------------------------------------------------------------------------
\* t is among the first n of the list s.
AtMost(s, t, n) == \E j \in 1 .. Len(s) : j <= n /\ s[j] = t

\* Removing another task does not push t back.
LEMMA CutKeepsPlace ==
  ASSUME NEW s \in Seq(Tasks), NEW c, NEW r, Cut(s, c, r), NEW t, t # c, NEW n \in Nat, AtMost(s, t, n)
  PROVE  AtMost(r, t, n)
<1>1. PICK p \in 1 .. Len(s) : s[p] = c /\ r \in Seq(Tasks) /\ Shorter(s, p, r)
  BY DEF Cut
<1>2. PICK j \in 1 .. Len(s) : j <= n /\ s[j] = t
  BY DEF AtMost
<1>3. Len(s) \in Nat /\ j # p /\ Len(r) = Len(s) - 1
  BY <1>1, <1>2 DEF Shorter
<1>4. CASE j < p
  <2>1. j \in 1 .. Len(s) - 1
    BY <1>3, <1>4
  <2> QED
    BY <2>1, <1>1, <1>2, <1>3, <1>4 DEF Shorter, AtMost
<1>5. CASE j > p
  <2>1. j - 1 \in 1 .. Len(s) - 1 /\ ~(j - 1 < p) /\ (j - 1) + 1 = j /\ j - 1 <= n
    BY <1>2, <1>3, <1>5
  <2>2. r[j - 1] = t
    BY <2>1, <1>1, <1>2 DEF Shorter
  <2> QED
    BY <2>1, <2>2, <1>3 DEF AtMost
<1> QED
  BY <1>3, <1>4, <1>5

\* A ready task that a turn neither picks nor kills has moved up.
LEMMA TurnMovesUp ==
  ASSUME NEW w \in Walk, NEW t \in Tasks, t # current_task,
         w.next = NULL, w.state[t] = "RUNNING", ~irq_wait[t],
         NEW n \in Nat, AtMost(w.list, t, n),
         NEW r, r = Turn(w), r.fault = "none", r.next # t, r.state[t] = "RUNNING"
  PROVE  n - 1 \in Nat /\ AtMost(r.list, t, n - 1)
<1>1. /\ r \in Walk
      /\ \/ r = w /\ (w.next # NULL \/ w.fault # "none")
         \/ Halts(w, r)
         \/ /\ w.next = NULL /\ w.fault = "none"
            /\ \E i \in Stops(w) : /\ \A m \in Stops(w) : i <= m
                                   /\ Picks(w, i, r) \/ Buries(w, i, r)
  BY TurnIs
<1>2. PICK i \in Stops(w) : (\A m \in Stops(w) : i <= m) /\ (Picks(w, i, r) \/ Buries(w, i, r))
  BY <1>1 DEF Halts
<1>3. PICK j \in 1 .. Len(w.list) : j <= n /\ w.list[j] = t
  BY DEF AtMost
<1>4. /\ w.list \in Seq(Tasks) /\ DOMAIN w.list = 1 .. Len(w.list) /\ Len(w.list) \in Nat
      /\ w.state \in [Tasks -> States]
  BY DEF Walk
<1>5. j \in Stops(w)
  BY <1>3, <1>4 DEF Stops
<1>6. i \in 1 .. Len(w.list) /\ i <= j
  BY <1>2, <1>4, <1>5 DEF Stops
<1>7. w.list[i] # t
  <2>1. CASE Picks(w, i, r)
    BY <2>1 DEF Picks
  <2>2. CASE Buries(w, i, r)
    BY <2>2, <1>4 DEF Buries
  <2> QED
    BY <1>2, <2>1, <2>2
<1>8. i < j /\ j - i \in 1 .. Len(w.list) /\ j - i <= n - 1 /\ n - 1 \in Nat /\ (j - i) + i = j
  BY <1>3, <1>4, <1>6, <1>7, SMTT(40)
<1> DEFINE s == RotateBy(w.list, i)
<1>9. s \in Seq(Tasks) /\ Len(s) = Len(w.list) /\ s[j - i] = t
  <2>1. /\ s \in Seq(Tasks) /\ Len(s) = Len(w.list)
        /\ \A k \in 1 .. Len(w.list) :
              s[k] = IF k + i <= Len(w.list) THEN w.list[k + i] ELSE w.list[k + i - Len(w.list)]
    BY <1>4, <1>6, RotateByIs
  <2> HIDE DEF s
  <2>2. s[j - i] = w.list[(j - i) + i]
    BY <2>1, <1>4, <1>8
  <2> QED
    BY <2>1, <2>2, <1>3, <1>8
<1> HIDE DEF s
<1>10. AtMost(s, t, n - 1)
  BY <1>8, <1>9 DEF AtMost
<1>11. CASE Picks(w, i, r)
  BY <1>8, <1>10, <1>11 DEF Picks, s
<1>12. CASE Buries(w, i, r)
  <2>1. Cut(s, current_task, r.list)
    BY <1>12 DEF Buries, s
  <2> QED
    BY <2>1, <1>8, <1>9, <1>10, CutKeepsPlace
<1> QED
  BY <1>2, <1>11, <1>12

\* A turn does not heal: a killed task stays killed, a fault stays a fault, and
\* once a task is found nothing changes any more.
LEMMA TurnKeeps ==
  ASSUME NEW w \in Walk, NEW r, r = Turn(w)
  PROVE  /\ w.fault # "none" => r.fault # "none"
         /\ w.next # NULL => (r = w \/ r.fault # "none")
         /\ \A t \in Tasks : w.state[t] = "KILLED" => r.state[t] = "KILLED"
<1>1. /\ r \in Walk
      /\ \/ r = w /\ (w.next # NULL \/ w.fault # "none")
         \/ Halts(w, r)
         \/ /\ w.next = NULL /\ w.fault = "none"
            /\ \E i \in Stops(w) : Picks(w, i, r) \/ Buries(w, i, r)
  BY TurnIs
<1>2. w.state \in [Tasks -> States]
  BY DEF Walk
<1>3. ASSUME NEW t \in Tasks, w.state[t] = "KILLED", NEW i \in Stops(w), Picks(w, i, r) \/ Buries(w, i, r)
      PROVE  r.state[t] = "KILLED"
  BY <1>2, <1>3 DEF Picks, Buries
<1> QED
  BY <1>1, <1>3 DEF Halts

\* Round robin: schedule() overtakes no ready task twice.  It moves up with
\* every other task that is picked, dead ones and removals included.
THEOREM NobodyBypassed == Spec => NoBypass
<1> DEFINE A == \A i \in DOMAIN sched_tasks :
                  LET t == sched_tasks[i]
                  IN /\ Ready(t) /\ t # current_task /\ t # current_task'
                     /\ current_task' # current_task /\ state'[t] = "RUNNING"
                     => \E j \in 1 .. i - 1 : j \in DOMAIN sched_tasks' /\ sched_tasks'[j] = t
<1>1. SchedInv /\ [Next]_vars => A
  <2> SUFFICES ASSUME SchedInv, [Next]_vars, NEW i \in DOMAIN sched_tasks,
                      NEW t, t = sched_tasks[i],
                      Ready(t), t # current_task, t # current_task',
                      current_task' # current_task, state'[t] = "RUNNING"
               PROVE  \E j \in 1 .. i - 1 : j \in DOMAIN sched_tasks' /\ sched_tasks'[j] = t
    BY Zenon
  <2> DEFINE v == Turn(Start)
             w == Turn(v)
  <2>1. Schedule /\ TypeOK
    BY OnlySchedule DEF SchedInv
  <2>2. t \in Tasks /\ i \in 1 .. Len(sched_tasks) /\ Len(sched_tasks) \in Nat /\ i \in Nat
    BY <2>1, ElementOfSeq DEF TypeOK
  <2>3. PICK r \in Walk :
          /\ \/ ~Drops(w) /\ r = w
             \/ Drops(w) /\ r = ListRemove(w, current_task)
          /\ sched_tasks' = r.list /\ state' = r.state
          /\ current_task' = IF r.fault = "none" THEN r.next ELSE current_task
    BY <2>1, ScheduleIs
  <2>4. Sane(v) /\ Sane(w) /\ v \in Walk /\ w \in Walk /\ Start \in Walk
    BY <2>1, ScheduleIs, StartSane DEF Sane
  <2> HIDE DEF v, w
  <2>5. r.fault = "none" /\ r.next = current_task' /\ r.state[t] = "RUNNING"
    BY <2>3
  <2>6. w.state = r.state /\ w.next = r.next /\ w.fault = "none"
    <3>1. CASE r = w
      BY <3>1, <2>5
    <3>2. CASE Drops(w) /\ r = ListRemove(w, current_task)
      BY <3>2, <2>4, ListRemoveIs DEF Drops
    <3> QED
      BY <3>1, <3>2, <2>3
  <2>7. v.fault = "none" /\ v.state[t] = "RUNNING"
    <3>1. (v.fault # "none" => w.fault # "none") /\ (v.state[t] = "KILLED" => w.state[t] = "KILLED")
      BY <2>2, <2>4, TurnKeeps DEF w
    <3>2. state[t] = "RUNNING"
      BY DEF Ready
    <3> QED
      BY <3>1, <3>2, <2>2, <2>4, <2>5, <2>6 DEF Sane
  <2>8. /\ Start.next = NULL /\ Start.state[t] = "RUNNING" /\ ~irq_wait[t]
        /\ AtMost(Start.list, t, i)
    BY <2>2 DEF Start, Ready, AtMost
  <2>9. AtMost(w.list, t, i - 1) /\ i - 1 \in Nat
    <3>1. CASE v.next = NULL
      <4>1. i - 1 \in Nat /\ AtMost(v.list, t, i - 1)
        BY <3>1, <2>2, <2>4, <2>7, <2>8, EternalFacts, TurnMovesUp DEF v
      <4>2. i - 1 - 1 \in Nat /\ AtMost(w.list, t, i - 1 - 1)
        BY <3>1, <4>1, <2>2, <2>4, <2>5, <2>6, <2>7, <2>8, TurnMovesUp DEF w
      <4>3. \A j \in Nat : j <= i - 1 - 1 => j <= i - 1
        BY <2>2
      <4> QED
        BY <4>1, <4>2, <4>3 DEF AtMost
    <3>2. CASE v.next # NULL
      <4>1. w = v
        BY <3>2, <2>4, <2>6, TurnKeeps DEF w
      <4>2. v.next # t
        BY <4>1, <2>5, <2>6
      <4> QED
        BY <4>1, <4>2, <2>2, <2>4, <2>7, <2>8, TurnMovesUp DEF v
    <3> QED
      BY <3>1, <3>2
  <2>10. AtMost(r.list, t, i - 1)
    <3>1. CASE r = w
      BY <3>1, <2>9
    <3>2. CASE r = ListRemove(w, current_task)
      <4>1. Cut(w.list, current_task, r.list) /\ w.list \in Seq(Tasks)
        BY <3>2, <2>4, <2>5, ListRemoveIs DEF Walk
      <4> QED
        BY <4>1, <2>9, CutKeepsPlace
    <3> QED
      BY <3>1, <3>2, <2>3
  <2>11. r.list \in Seq(Tasks)
    BY DEF Walk
  <2> QED
    BY <2>2, <2>3, <2>10, <2>11 DEF AtMost
<1>2. SchedInv /\ [Next]_vars => [A]_vars
  BY <1>1
<1>3. Spec => [][A]_vars
  BY <1>2, SchedInvariant, PTL DEF Spec
<1> QED
  BY <1>3 DEF NoBypass

-----------------------------------------------------------------------------
On(s, x) == \E i \in 1 .. Len(s) : s[i] = x

\* x is listed once at most.
Single(s, x) == \A i, j \in 1 .. Len(s) : s[i] = x /\ s[j] = x => i = j

LEMMA OnIsListed == ASSUME NEW s \in Seq(Tasks), NEW x PROVE On(s, x) <=> x \in Range(s)
<1>1. DOMAIN s = 1 .. Len(s)
  OBVIOUS
<1> QED
  BY <1>1 DEF On, Range

\* Rotating lists the same tasks as often as before.
LEMMA RotateKeeps ==
  ASSUME NEW s \in Seq(Tasks), NEW i \in 1 .. Len(s), NEW x
  PROVE  /\ On(RotateBy(s, i), x) => On(s, x)
         /\ Single(s, x) => Single(RotateBy(s, i), x)
<1> DEFINE r == RotateBy(s, i)
           at(j) == IF j + i <= Len(s) THEN j + i ELSE j + i - Len(s)
<1>1. /\ Len(r) = Len(s) /\ Len(s) \in Nat /\ i \in Nat
      /\ \A j \in 1 .. Len(s) : r[j] = IF j + i <= Len(s) THEN s[j + i] ELSE s[j + i - Len(s)]
  BY RotateByIs
<1> HIDE DEF r
<1>2. \A j \in 1 .. Len(s) : at(j) \in 1 .. Len(s) /\ r[j] = s[at(j)]
  BY <1>1
<1>3. \A j, k \in 1 .. Len(s) : at(j) = at(k) => j = k
  BY <1>1
<1> HIDE DEF at
<1>4. On(r, x) => On(s, x)
  BY <1>1, <1>2 DEF On
<1>5. ASSUME Single(s, x)
      PROVE  Single(r, x)
  <2> SUFFICES ASSUME NEW j \in 1 .. Len(s), NEW k \in 1 .. Len(s), r[j] = x, r[k] = x
               PROVE  j = k
    BY <1>1 DEF Single
  <2>1. at(j) \in 1 .. Len(s) /\ at(k) \in 1 .. Len(s) /\ s[at(j)] = x /\ s[at(k)] = x
    BY <1>2
  <2>2. at(j) = at(k)
    BY <1>5, <2>1 DEF Single
  <2> QED
    BY <1>3, <2>2
<1> QED
  BY <1>4, <1>5 DEF r

\* Removing a task lists no other anew, and a task that was listed once is gone.
LEMMA CutKeeps ==
  ASSUME NEW s \in Seq(Tasks), NEW c, NEW r, Cut(s, c, r), NEW x
  PROVE  /\ On(r, x) => On(s, x)
         /\ Single(s, x) => Single(r, x)
         /\ Single(s, c) => ~On(r, c)
<1>1. PICK p \in 1 .. Len(s) : s[p] = c /\ r \in Seq(Tasks) /\ Shorter(s, p, r)
  BY DEF Cut
<1> DEFINE at(j) == IF j < p THEN j ELSE j + 1
<1>2. Len(s) \in Nat /\ Len(r) = Len(s) - 1
  BY <1>1 DEF Shorter
<1>3. \A j \in 1 .. Len(r) : at(j) \in 1 .. Len(s) /\ r[j] = s[at(j)] /\ at(j) # p
  BY <1>1, <1>2 DEF Shorter
<1>4. \A j, k \in 1 .. Len(r) : at(j) = at(k) => j = k
  BY <1>1, <1>2
<1> HIDE DEF at
<1>5. On(r, x) => On(s, x)
  BY <1>3 DEF On
<1>6. Single(s, x) => Single(r, x)
  BY <1>3, <1>4 DEF Single
<1>7. Single(s, c) => ~On(r, c)
  BY <1>1, <1>3 DEF Single, On
<1> QED
  BY <1>5, <1>6, <1>7

LEMMA TurnKeepsList ==
  ASSUME NEW w \in Walk, NEW x
  PROVE  /\ On(Turn(w).list, x) => On(w.list, x)
         /\ Single(w.list, x) => Single(Turn(w).list, x)
<1> DEFINE r == Turn(w)
<1>1. /\ r \in Walk
      /\ \/ r = w
         \/ Halts(w, r)
         \/ \E i \in Stops(w) : Picks(w, i, r) \/ Buries(w, i, r)
  BY TurnIs
<1>2. w.list \in Seq(Tasks) /\ DOMAIN w.list = 1 .. Len(w.list)
  BY DEF Walk
<1> HIDE DEF r
<1>3. ASSUME NEW i \in Stops(w), Picks(w, i, r) \/ Buries(w, i, r)
      PROVE  (On(r.list, x) => On(w.list, x)) /\ (Single(w.list, x) => Single(r.list, x))
  <2> DEFINE s == RotateBy(w.list, i)
  <2>1. i \in 1 .. Len(w.list)
    BY <1>2 DEF Stops
  <2>2. s \in Seq(Tasks) /\ (On(s, x) => On(w.list, x)) /\ (Single(w.list, x) => Single(s, x))
    BY <1>2, <2>1, RotateKeeps, RotateByIs
  <2>3. r.list = s \/ Cut(s, current_task, r.list)
    BY <1>3 DEF Picks, Buries
  <2> HIDE DEF s
  <2>4. CASE r.list = s
    BY <2>2, <2>4
  <2>5. CASE Cut(s, current_task, r.list)
    BY <2>2, <2>5, CutKeeps
  <2> QED
    BY <2>3, <2>4, <2>5
<1>4. CASE r = w \/ Halts(w, r)
  BY <1>4 DEF Halts, r
<1> QED
  BY <1>1, <1>3, <1>4 DEF r

\* What schedule() does to the list, for a task x.
LEMMA ScheduleKeepsList ==
  ASSUME TypeOK, Schedule, NEW x \in Tasks
  PROVE  /\ On(sched_tasks', x) => On(sched_tasks, x)
         /\ Single(sched_tasks, x) => Single(sched_tasks', x)
         /\ Single(sched_tasks, x) /\ current_task = x /\ state[x] = "KILLED" =>
              /\ state'[x] = "KILLED"
              /\ fault' # "none" \/ (current_task' # x /\ ~On(sched_tasks', x))
<1> DEFINE v == Turn(Start)
           w == Turn(v)
<1>1. PICK r \in Walk :
          /\ \/ ~Drops(w) /\ r = w
             \/ Drops(w) /\ r = ListRemove(w, current_task)
          /\ Sane(r)
          /\ sched_tasks' = r.list /\ state' = r.state /\ fault' = r.fault
          /\ current_task' = IF r.fault = "none" THEN r.next ELSE current_task
  BY ScheduleIs
<1>2. Sane(v) /\ Sane(w) /\ v \in Walk /\ w \in Walk /\ Start \in Walk /\ Start.list = sched_tasks
  BY ScheduleIs, StartSane DEF Sane, Start
<1>3. /\ On(w.list, x) => On(sched_tasks, x)
      /\ Single(sched_tasks, x) => Single(w.list, x)
  BY <1>2, TurnKeepsList
<1> HIDE DEF v, w
<1>4. w.list \in Seq(Tasks)
  BY <1>2 DEF Walk
<1>5. CASE r = w /\ ~Drops(w)
  <2>1. ASSUME current_task = x, state[x] = "KILLED"
        PROVE  state'[x] = "KILLED" /\ fault' # "none"
    <3>1. w.state[x] = "KILLED" /\ w.next # x
      BY <1>2, <2>1, EternalFacts DEF Sane
    <3>2. w.fault # "none"
      BY <1>5, <2>1, <3>1, EternalFacts DEF Drops
    <3> QED
      BY <1>1, <1>5, <3>1, <3>2
  <2> QED
    BY <1>1, <1>3, <1>5, <2>1
<1>6. CASE r = ListRemove(w, current_task) /\ Drops(w)
  <2>1. /\ r.state = w.state /\ r.next = w.next
        /\ \/ r.list = w.list /\ r.fault # "none"
           \/ Cut(w.list, current_task, r.list)
    BY <1>2, <1>6, ListRemoveIs
  <2>2. (On(r.list, x) => On(w.list, x)) /\ (Single(w.list, x) => Single(r.list, x))
    BY <1>4, <2>1, CutKeeps
  <2>3. ASSUME Single(sched_tasks, x), current_task = x, state[x] = "KILLED"
        PROVE  state'[x] = "KILLED" /\ (fault' # "none" \/ (current_task' # x /\ ~On(sched_tasks', x)))
    <3>1. w.state[x] = "KILLED" /\ w.next # x
      BY <1>2, <2>3, EternalFacts DEF Sane
    <3>2. r.fault = "none" => ~On(r.list, x)
      BY <1>3, <1>4, <2>1, <2>3, CutKeeps
    <3> QED
      BY <1>1, <2>1, <3>1, <3>2
  <2> QED
    BY <1>1, <1>3, <2>2, <2>3
<1> QED
  BY <1>1, <1>5, <1>6

-----------------------------------------------------------------------------
\* No process has exited yet.
NoExit == \A u \in Users : proc[u] \notin {"KILLED", "freed"}

\* Until then only the init task can be dead: it is, between task_kill() and the
\* next schedule(), or it is off the list and not running.
InitGone ==
  /\ \A t \in Tasks : state[t] \in {"KILLED", "freed"} => t = InitTask
  /\ \A t \in Tasks : pc[t] # "kill"
  /\ \/ state[InitTask] = "RUNNING"
     \/ state[InitTask] = "KILLED" /\ current_task = InitTask /\ pc[InitTask] = "yield"
     \/ ~On(sched_tasks, InitTask) /\ current_task # InitTask
     \/ state[InitTask] = "KILLED" /\ fault # "none"
  /\ pc[InitTask] \in {"count", "insert"} =>
       state[InitTask] = "RUNNING" /\ task_list[Len(task_list)] # InitTask
  /\ pc[Cleanup] = "remove" => state[InitTask] = "freed"
  /\ Single(sched_tasks, InitTask)

\* A task that is still to be created has no process and does not run.
Unborn == \A u \in Users : state[u] = "none" => proc[u] = "none" /\ current_task # u

DanglingInv == Unborn /\ (NoExit => InitGone)

LEMMA DanglingImplies == SchedInv /\ DanglingInv => NoDanglingTask
<1> SUFFICES ASSUME SchedInv, DanglingInv, NoExit, NEW t \in Tasks, state[t] = "freed"
             PROVE  t \notin Listed /\ t # current_task
  BY DEF NoDanglingTask, NoExit
<1>1. t = InitTask /\ ~On(sched_tasks, InitTask) /\ current_task # InitTask
  BY EternalFacts DEF DanglingInv, InitGone
<1>2. sched_tasks \in Seq(Tasks)
  BY DEF SchedInv, TypeOK
<1> QED
  BY <1>1, <1>2, OnIsListed DEF Listed

LEMMA DanglingInit == Init => DanglingInv
<1> SUFFICES ASSUME Init PROVE InitGone
  BY EternalFacts DEF DanglingInv, Unborn, Init
<1> USE EternalFacts DEF Init
<1>1. /\ Len(sched_tasks) = 3 /\ sched_tasks[1] = Cleanup /\ sched_tasks[2] = Idle
      /\ sched_tasks[3] = InitTask
  OBVIOUS
<1>2. Single(sched_tasks, InitTask)
  <2>1. Cleanup # InitTask /\ Idle # InitTask
    BY DEF Eternal
  <2> HIDE DEF Init
  <2>2. \A i \in 1 .. 3 : i = 1 \/ i = 2 \/ i = 3
    OBVIOUS
  <2> QED
    BY <1>1, <2>1, <2>2 DEF Single
<1> QED
  BY <1>2 DEF InitGone

\* schedule() while no process has exited.
LEMMA DanglingSchedule ==
  ASSUME SchedInv, InitGone, NoExit, Schedule, fault = "none", proc' = proc, task_list' = task_list,
         \/ pc' = pc
         \/ \E t \in Tasks : current_task = t /\ pc[t] = "yield" /\ pc' = [pc EXCEPT ![t] = "run"]
  PROVE  InitGone'
<1> USE EternalFacts
<1>1. TypeOK
  BY DEF SchedInv
<1>2. /\ state' \in [Tasks -> States]
      /\ \A t \in Tasks : state'[t] = state[t]
      /\ current_task' # current_task /\ current_task' # NULL => state[current_task'] = "RUNNING"
  BY <1>1, ScheduleSane DEF NoExit
<1>3. /\ On(sched_tasks', InitTask) => On(sched_tasks, InitTask)
      /\ Single(sched_tasks', InitTask)
      /\ current_task = InitTask /\ state[InitTask] = "KILLED" =>
           fault' # "none" \/ (current_task' # InitTask /\ ~On(sched_tasks', InitTask))
  BY <1>1, ScheduleKeepsList DEF InitGone
<1>4. /\ \A t \in Tasks : pc'[t] # "kill"
      /\ pc'[InitTask] \in {"count", "insert"} => pc[InitTask] \in {"count", "insert"}
      /\ pc'[Cleanup] = "remove" => pc[Cleanup] = "remove"
  BY <1>1 DEF InitGone, TypeOK
<1>5. \/ state'[InitTask] = "RUNNING"
      \/ ~On(sched_tasks', InitTask) /\ current_task' # InitTask
      \/ state'[InitTask] = "KILLED" /\ fault' # "none"
  <2>1. CASE state[InitTask] = "RUNNING"
    BY <2>1, <1>2
  <2>2. CASE state[InitTask] = "KILLED" /\ current_task = InitTask
    BY <2>2, <1>2, <1>3
  <2>3. CASE state[InitTask] # "RUNNING" /\ ~On(sched_tasks, InitTask) /\ current_task # InitTask
    BY <2>3, <1>2, <1>3
  <2> QED
    BY <2>1, <2>2, <2>3 DEF InitGone
<1> QED
  BY <1>2, <1>3, <1>4, <1>5 DEF InitGone

LEMMA UnbornStep == SchedInv /\ Unborn /\ [Next]_vars => Unborn'
<1> SUFFICES ASSUME SchedInv, Unborn, [Next]_vars
             PROVE  Unborn'
  OBVIOUS
<1> USE EternalFacts
<1>1. TypeOK
  BY DEF SchedInv
<1>2. ASSUME Schedule, proc' = proc
      PROVE  Unborn'
  <2>1. /\ \A t \in Tasks : state'[t] = state[t] \/ state'[t] = "KILLED"
        /\ current_task' # current_task /\ current_task' # NULL => state[current_task'] = "RUNNING"
    BY <1>1, <1>2, ScheduleSane
  <2> QED
    BY <1>2, <2>1 DEF Unborn
<1>3. CASE Timer
  BY <1>2, <1>3 DEF Timer
<1>4. ASSUME NEW t \in Tasks, Yield(t)
      PROVE  Unborn'
  BY <1>2, <1>4 DEF Yield
<1>5. ASSUME NEW t \in Tasks, HeapEnter(t) \/ HeapLeave(t) \/ IrqWait(t) \/ IrqSignal(t)
      PROVE  Unborn'
  BY <1>5 DEF HeapEnter, HeapLeave, IrqWait, IrqSignal, Unborn
<1>6. ASSUME NEW t \in Tasks, TaskKill(t)
      PROVE  Unborn'
  BY <1>1, <1>6 DEF TaskKill, Unborn, TypeOK
<1>7. ASSUME NEW u \in Users, CreateUserTask(u)
      PROVE  Unborn'
  BY <1>1, <1>7 DEF CreateUserTask, Unborn, TypeOK
<1>8. ASSUME NEW u \in Users, SysExit(u)
      PROVE  Unborn'
  <2>1. current_task = u /\ proc' = [proc EXCEPT ![u] = "KILLED"] /\ state' = state /\ current_task' = current_task
    BY <1>8 DEF SysExit, At, Running
  <2> QED
    BY <1>1, <2>1 DEF Unborn, TypeOK
<1>9. CASE CountTask \/ SchedInsert \/ CleanupLock \/ CleanupRemove \/ CleanupCount \/ CleanupUnlock
           \/ UNCHANGED vars
  BY <1>9 DEF CountTask, SchedInsert, CleanupLock, CleanupRemove, CleanupCount, CleanupUnlock, vars, Unborn
<1>10. CASE CleanupVisit
  <2> DEFINE t == task_list[it]
  <2>1. /\ \/ UNCHANGED <<state, proc>>
           \/ /\ state[t] = "KILLED" /\ state' = [state EXCEPT ![t] = "freed"]
              /\ proc' = [u \in Users |-> IF u = t THEN "freed" ELSE proc[u]]
        /\ current_task' = current_task
    BY <1>10 DEF CleanupVisit
  <2> HIDE DEF t
  <2> QED
    BY <1>1, <2>1 DEF Unborn, TypeOK
<1> QED
  BY <1>3, <1>4, <1>5, <1>6, <1>7, <1>8, <1>9, <1>10 DEF Next, CleanupStep

\* An exit cannot be undone.
LEMMA ExitIsFinal == SchedInv /\ Unborn /\ [Next]_vars /\ NoExit' => NoExit
<1> SUFFICES ASSUME SchedInv, Unborn, [Next]_vars, NEW u \in Users, proc[u] \in {"KILLED", "freed"}
             PROVE  proc'[u] \in {"KILLED", "freed"}
  BY DEF NoExit
<1>1. proc \in [Users -> States] /\ state[u] # "none"
  BY DEF SchedInv, TypeOK, Unborn
<1>2. ASSUME NEW x \in Users, CreateUserTask(x)
      PROVE  proc'[u] = proc[u]
  BY <1>1, <1>2 DEF CreateUserTask
<1>3. ASSUME NEW x \in Users, SysExit(x)
      PROVE  proc'[u] \in {"KILLED", "freed"}
  BY <1>1, <1>3 DEF SysExit
<1>4. CASE CleanupVisit
  <2>1. proc' = proc \/ proc' = [x \in Users |-> IF x = task_list[it] THEN "freed" ELSE proc[x]]
    BY <1>4 DEF CleanupVisit
  <2> QED
    BY <2>1
<1>5. CASE proc' = proc
  BY <1>5
<1> QED
  BY <1>2, <1>3, <1>4, <1>5
  DEF vars, Next, CleanupStep, Timer, Yield, HeapEnter, HeapLeave, IrqWait, IrqSignal, TaskKill,
      CountTask, SchedInsert, CleanupLock, CleanupRemove, CleanupCount, CleanupUnlock

LEMMA DanglingStep == SchedInv /\ DanglingInv /\ [Next]_vars => DanglingInv'
<1> SUFFICES ASSUME SchedInv, Unborn, NoExit, InitGone, [Next]_vars, NoExit'
             PROVE  InitGone'
  BY UnbornStep, ExitIsFinal DEF DanglingInv
<1> USE EternalFacts
<1>1. TypeOK
  BY DEF SchedInv
<1>2. CASE UNCHANGED vars
  BY <1>2 DEF vars, InitGone
<1>3. CASE Timer
  BY <1>3, DanglingSchedule DEF Timer
<1>4. ASSUME NEW t \in Tasks, Yield(t)
      PROVE  InitGone'
  <2>1. /\ Schedule /\ fault = "none" /\ proc' = proc /\ task_list' = task_list
        /\ current_task = t /\ pc[t] = "yield" /\ pc' = [pc EXCEPT ![t] = "run"]
    BY <1>4 DEF Yield, At, Running, Goto
  <2> QED
    BY <2>1, DanglingSchedule
<1>5. ASSUME NEW t \in Tasks, HeapEnter(t) \/ HeapLeave(t) \/ IrqSignal(t)
      PROVE  InitGone'
  BY <1>5 DEF HeapEnter, HeapLeave, IrqSignal, InitGone
<1>6. ASSUME NEW t \in Tasks, IrqWait(t)
      PROVE  InitGone'
  <2>1. /\ pc' = [pc EXCEPT ![t] = "yield"] /\ pc[t] = "run"
        /\ UNCHANGED <<sched_tasks, current_task, state, proc, task_list, task_count, it, heap_owner, fault>>
    BY <1>6 DEF IrqWait, At, Goto
  <2> QED
    BY <1>1, <2>1 DEF InitGone, TypeOK
<1>7. ASSUME NEW t \in Tasks, TaskKill(t)
      PROVE  InitGone'
  <2>1. /\ pc' = [pc EXCEPT ![t] = "yield"] /\ state' = [state EXCEPT ![t] = "KILLED"]
        /\ UNCHANGED <<sched_tasks, current_task, irq_wait, proc, task_list, task_count, it, heap_owner, fault>>
        /\ pc[t] = "kill" \/ t = InitTask
        /\ current_task = t
    BY <1>7 DEF TaskKill, At, Running, Goto
  <2>2. t = InitTask
    BY <2>1 DEF InitGone
  <2>3. /\ \A x \in Tasks : state'[x] \in {"KILLED", "freed"} => x = InitTask
        /\ \A x \in Tasks : pc'[x] # "kill"
        /\ state'[InitTask] = "KILLED" /\ pc'[InitTask] = "yield"
    BY <1>1, <2>1, <2>2 DEF InitGone, TypeOK
  <2> QED
    BY <2>1, <2>2, <2>3 DEF InitGone
<1>8. ASSUME NEW u \in Users, CreateUserTask(u)
      PROVE  InitGone'
  <2>1. /\ state' = [state EXCEPT ![u] = "RUNNING"] /\ task_list' = Append(task_list, u)
        /\ pc' = [pc EXCEPT ![InitTask] = "count"] /\ pc[InitTask] = "run"
        /\ current_task = InitTask /\ fault = "none"
        /\ UNCHANGED <<sched_tasks, current_task, fault>>
    BY <1>8 DEF CreateUserTask, At, Running, Goto
  <2>2. Len(task_list') = Len(task_list) + 1 /\ task_list'[Len(task_list) + 1] = u
    BY <1>1, <2>1, AppendProperties DEF TypeOK
  <2>3. state[InitTask] = "RUNNING"
    BY <2>1 DEF InitGone
  <2>4. u # InitTask
    OBVIOUS
  <2> QED
    BY <1>1, <2>1, <2>2, <2>3, <2>4 DEF InitGone, TypeOK
<1>9. ASSUME NEW u \in Users, SysExit(u)
      PROVE  InitGone'
  <2>1. proc'[u] = "KILLED"
    BY <1>1, <1>9 DEF SysExit, TypeOK
  <2> QED
    BY <2>1 DEF NoExit
<1>10. CASE CountTask
  <2>1. /\ pc[InitTask] = "count" /\ pc' = [pc EXCEPT ![InitTask] = "insert"]
        /\ UNCHANGED <<sched_tasks, current_task, state, task_list, fault>>
    BY <1>10 DEF CountTask, At, Goto
  <2> QED
    BY <1>1, <2>1 DEF InitGone, TypeOK
<1>11. CASE SchedInsert
  <2>1. /\ pc[InitTask] = "insert" /\ pc' = [pc EXCEPT ![InitTask] = "run"]
        /\ sched_tasks' = Append(sched_tasks, task_list[Len(task_list)])
        /\ UNCHANGED <<current_task, state, task_list, fault>>
    BY <1>11 DEF SchedInsert, At, Goto, Last
  <2>2. state[InitTask] = "RUNNING" /\ task_list[Len(task_list)] # InitTask
    BY <2>1 DEF InitGone
  <2>3. task_list[Len(task_list)] \in Tasks /\ sched_tasks \in Seq(Tasks) /\ Len(sched_tasks) \in Nat
    BY <1>1, ElementOfSeq DEF TypeOK, SchedInv, CountInv
  <2>4. /\ Len(sched_tasks') = Len(sched_tasks) + 1
        /\ \A i \in 1 .. Len(sched_tasks) : sched_tasks'[i] = sched_tasks[i]
        /\ sched_tasks'[Len(sched_tasks) + 1] # InitTask
    BY <2>1, <2>2, <2>3, AppendProperties
  <2>5. Single(sched_tasks', InitTask)
    BY <2>3, <2>4 DEF InitGone, Single
  <2> QED
    BY <1>1, <2>1, <2>2, <2>5 DEF InitGone, TypeOK
<1>12. CASE CleanupLock
  BY <1>12 DEF CleanupLock, InitGone
<1>13. CASE CleanupVisit
  <2> DEFINE t == task_list[it]
  <2>1. t \in Tasks
    BY <1>1, <1>13, ElementOfSeq DEF CleanupVisit, TypeOK
  <2>2. /\ UNCHANGED <<sched_tasks, current_task, task_list, fault>>
        /\ current_task = Cleanup /\ fault = "none"
    BY <1>13 DEF CleanupVisit, At, Running
  <2>3. CASE state[t] = "KILLED"
    <3>1. state' = [state EXCEPT ![t] = "freed"] /\ pc' = [pc EXCEPT ![Cleanup] = "remove"]
      BY <1>13, <2>3 DEF CleanupVisit, Goto
    <3> HIDE DEF t
    <3>2. t = InitTask
      BY <2>1, <2>3 DEF InitGone
    <3>3. ~On(sched_tasks, InitTask) /\ current_task # InitTask /\ pc[InitTask] \notin {"count", "insert"}
      BY <2>2, <2>3, <3>2 DEF InitGone
    <3>4. pc'[InitTask] = pc[InitTask] /\ \A x \in Tasks : pc'[x] # "kill"
      BY <1>1, <3>1 DEF InitGone, TypeOK
    <3> QED
      BY <1>1, <2>2, <3>1, <3>2, <3>3, <3>4 DEF InitGone, TypeOK
  <2>4. CASE state[t] # "KILLED"
    <3>1. UNCHANGED <<state, pc>>
      BY <1>13, <2>4 DEF CleanupVisit
    <3> QED
      BY <2>2, <3>1 DEF InitGone
  <2> QED
    BY <2>3, <2>4
<1>14. CASE CleanupCount \/ CleanupUnlock
  <2>1. /\ pc' = [pc EXCEPT ![Cleanup] = "run"] \/ pc' = [pc EXCEPT ![Cleanup] = "yield"]
        /\ UNCHANGED <<sched_tasks, current_task, state, task_list, fault>>
    BY <1>14 DEF CleanupCount, CleanupUnlock, Goto
  <2> QED
    BY <1>1, <2>1 DEF InitGone, TypeOK
<1>15. CASE CleanupRemove
  <2>1. /\ pc' = [pc EXCEPT ![Cleanup] = "count"] /\ pc[Cleanup] = "remove"
        /\ task_list' = RemoveAt(task_list, it)
        /\ UNCHANGED <<sched_tasks, current_task, state, fault>>
    BY <1>15 DEF CleanupRemove, At, Goto
  <2>2. pc[InitTask] \notin {"count", "insert"}
    BY <2>1 DEF InitGone
  <2> QED
    BY <1>1, <2>1, <2>2 DEF InitGone, TypeOK
<1> QED
  BY <1>2, <1>3, <1>4, <1>5, <1>6, <1>7, <1>8, <1>9, <1>10, <1>11, <1>12, <1>13, <1>14, <1>15
  DEF Next, CleanupStep

\* Until a process exits the scheduler holds no pointer to a task that
\* cleanup_task_func() freed: schedule() drops the killed init task before the
\* cleanup task can run.
THEOREM NothingDangles == Spec => []NoDanglingTask
<1>1. Spec => []DanglingInv
  BY SchedInvariant, DanglingInit, DanglingStep, PTL DEF Spec
<1> QED
  BY <1>1, SchedInvariant, DanglingImplies, PTL
=============================================================================
