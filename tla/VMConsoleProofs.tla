-------------------------- MODULE VMConsoleProofs ---------------------------
(***************************************************************************)
(* Proofs about VMEngine and VMConsole: the engines' maps keep their       *)
(* types, names are distinct and checkpoints owned; behind the page too,   *)
(* late, repeated and unanswered commands included; and with an operator   *)
(* who waits, a command goes to the machine it was clicked for.            *)
(***************************************************************************)
EXTENDS VMConsole, SequenceTheorems, TLAPS

-----------------------------------------------------------------------------
(* The engines.                                                             *)

Checkpoint == [name : Snapshot, of : Name]

\* Maps of machines and of checkpoints, as the provers need them.
IsMachines(ms) == \E S \in SUBSET ID : ms \in [S -> Machine]

EnginesTyped ==
    /\ DOMAIN vms = Node
    /\ vms = [n \in Node |-> vms[n]]
    /\ \A n \in Node : IsMachines(vms[n])
    /\ checkpoints \in [Node -> [ID -> Seq(Checkpoint)]]

LEMMA MachinesElim ==
    ASSUME NEW ms, IsMachines(ms)
    PROVE  /\ DOMAIN ms \subseteq ID
           /\ \A id \in DOMAIN ms : ms[id] \in Machine
           /\ ms \in [DOMAIN ms -> Machine]
BY DEF IsMachines

LEMMA MachinesIntro ==
    ASSUME NEW S \in SUBSET ID, NEW ms \in [S -> Machine]
    PROVE  IsMachines(ms) /\ DOMAIN ms = S
BY DEF IsMachines

\* A map with one machine more, or another one for the same identifier.
LEMMA WithFacts ==
    ASSUME NEW ms, IsMachines(ms), NEW id \in ID, NEW vm \in Machine,
           NEW new, new = [k \in DOMAIN ms \cup {id} |-> IF k = id THEN vm ELSE ms[k]]
    PROVE  /\ IsMachines(new)
           /\ DOMAIN new = DOMAIN ms \cup {id}
           /\ new[id] = vm
           /\ \A k \in DOMAIN ms \ {id} : new[k] = ms[k]
<1>1. new \in [DOMAIN ms \cup {id} -> Machine]
  BY MachinesElim
<1>2. QED
  BY <1>1, MachinesElim, MachinesIntro

\* A map with one machine less.
LEMMA WithoutFacts ==
    ASSUME NEW ms, IsMachines(ms), NEW id,
           NEW new, new = [k \in DOMAIN ms \ {id} |-> ms[k]]
    PROVE  /\ IsMachines(new)
           /\ DOMAIN new = DOMAIN ms \ {id}
           /\ \A k \in DOMAIN ms \ {id} : new[k] = ms[k]
<1>1. new \in [DOMAIN ms \ {id} -> Machine]
  BY MachinesElim
<1>2. QED
  BY <1>1, MachinesElim, MachinesIntro

\* Taking one element out leaves the others.
LEMMA RemoveAtFacts ==
    ASSUME NEW S, NEW s \in Seq(S), NEW i \in DOMAIN s
    PROVE  /\ RemoveAt(s, i) \in Seq(S)
           /\ \A k \in DOMAIN RemoveAt(s, i) : \E l \in DOMAIN s : RemoveAt(s, i)[k] = s[l]
<1> DEFINE t == RemoveAt(s, i)
<1>1. /\ SubSeq(s, 1, i - 1) \in Seq(S) /\ SubSeq(s, i + 1, Len(s)) \in Seq(S)
      /\ Len(SubSeq(s, 1, i - 1)) = i - 1
      /\ Len(SubSeq(s, i + 1, Len(s))) = Len(s) - i
      /\ \A k \in 1..i - 1 : SubSeq(s, 1, i - 1)[k] = s[k]
      /\ \A k \in 1..Len(s) - i : SubSeq(s, i + 1, Len(s))[k] = s[k + i]
  OBVIOUS
<1>2. /\ t \in Seq(S) /\ Len(t) = Len(s) - 1
      /\ \A k \in 1..Len(t) : t[k] = IF k <= i - 1 THEN s[k] ELSE s[k + 1]
  <2> DEFINE a == SubSeq(s, 1, i - 1)
             b == SubSeq(s, i + 1, Len(s))
  <2>1. t = a \o b
    BY DEF RemoveAt
  <2>2. /\ a \in Seq(S) /\ b \in Seq(S) /\ i \in 1..Len(s) /\ Len(s) \in Nat
        /\ Len(a) = i - 1 /\ Len(b) = Len(s) - i
    BY <1>1
  <2>3. /\ \A k \in 1..i - 1 : a[k] = s[k]
        /\ \A k \in 1..Len(s) - i : b[k] = s[k + i]
    BY <1>1
  <2> HIDE DEF a, b, t
  <2>4. /\ t \in Seq(S) /\ Len(t) = Len(s) - 1
        /\ \A k \in 1..Len(s) - 1 : t[k] = IF k <= Len(a) THEN a[k] ELSE b[k - Len(a)]
    <3>1. /\ a \o b \in Seq(S) /\ Len(a \o b) = Len(a) + Len(b)
          /\ \A k \in 1..Len(a) + Len(b) :
                (a \o b)[k] = IF k <= Len(a) THEN a[k] ELSE b[k - Len(a)]
      BY <2>2, ConcatProperties, Zenon
    <3>2. Len(a) + Len(b) = Len(s) - 1
      BY <2>2
    <3>3. QED
      BY <2>1, <3>1, <3>2, Zenon
  <2>5. ASSUME NEW k \in 1..Len(t) PROVE t[k] = IF k <= i - 1 THEN s[k] ELSE s[k + 1]
    <3>1. CASE k <= i - 1
      BY <2>2, <2>3, <2>4, <3>1
    <3>2. CASE k > i - 1
      <4>1. k - (i - 1) \in 1..(Len(s) - i) /\ k - (i - 1) + i = k + 1
        BY <2>2, <2>4, <3>2
      <4>2. b[k - (i - 1)] = s[k + 1]
        BY <2>3, <4>1
      <4>3. QED
        BY <2>2, <2>4, <3>2, <4>2
    <3>3. QED
      BY <2>2, <3>1, <3>2
  <2>6. QED
    BY <2>2, <2>4, <2>5
<1> HIDE DEF t
<1>3. \A k \in DOMAIN t : \E l \in DOMAIN s : t[k] = s[l]
  <2>1. ASSUME NEW k \in DOMAIN t PROVE \E l \in DOMAIN s : t[k] = s[l]
    <3>1. k \in 1..Len(s) - 1 /\ DOMAIN s = 1..Len(s) /\ Len(s) \in Nat
      BY <1>2
    <3>2. t[k] = s[k] \/ t[k] = s[k + 1]
      BY <1>2
    <3>3. QED
      BY <3>1, <3>2
  <2>2. QED
    BY <2>1
<1>4. QED
  BY <1>2, <1>3 DEF t

-----------------------------------------------------------------------------
(* The invariant.                                                           *)

EnginesInv == EnginesTyped /\ NamesDistinct /\ CheckpointsOwned

LEMMA EnginesInitInv == EnginesInit => EnginesInv
<1> SUFFICES ASSUME EnginesInit PROVE EnginesInv
  OBVIOUS
<1>1. /\ vms = [n \in Node |-> newSimulatedEngine]
      /\ checkpoints = [n \in Node |-> [id \in ID |-> <<>>]]
  BY DEF EnginesInit
<1>2. newSimulatedEngine \in [{DemoID} -> Machine] /\ {DemoID} \subseteq ID
  BY EngineAssumption DEF newSimulatedEngine, Machine
<1>3. IsMachines(newSimulatedEngine) /\ DOMAIN newSimulatedEngine = {DemoID}
  BY <1>2, MachinesIntro
<1>4. EnginesTyped
  BY <1>1, <1>3 DEF EnginesTyped
<1>5. NamesDistinct /\ CheckpointsOwned
  BY <1>1, <1>3 DEF NamesDistinct, CheckpointsOwned
<1>6. QED
  BY <1>4, <1>5 DEF EnginesInv

-----------------------------------------------------------------------------
(* The steps, by what they change.                                          *)

\* A machine comes, changes or replaces another one, and no name of the node
\* is given twice.
LEMMA MachinesChange ==
    ASSUME EnginesInv, NEW n \in Node, NEW new, IsMachines(new),
           vms' = [vms EXCEPT ![n] = new], UNCHANGED checkpoints,
           \A k \in DOMAIN vms[n] :
              k \in DOMAIN new /\ (n \in Fresh => new[k].name = vms[n][k].name),
           \A a, b \in DOMAIN new : Fold[new[a].name] = Fold[new[b].name] => a = b
    PROVE  EnginesInv'
<1>1. /\ DOMAIN vms' = Node /\ vms' = [m \in Node |-> vms'[m]]
      /\ vms'[n] = new /\ \A m \in Node \ {n} : vms'[m] = vms[m]
  BY DEF EnginesInv, EnginesTyped
<1>2. EnginesTyped'
  BY <1>1 DEF EnginesInv, EnginesTyped, IsMachines
<1>3. NamesDistinct'
  <2>1. ASSUME NEW m \in Node, NEW a \in DOMAIN vms'[m], NEW b \in DOMAIN vms'[m],
               Fold[vms'[m][a].name] = Fold[vms'[m][b].name]
        PROVE  a = b
    <3>1. CASE m = n
      BY <1>1, <2>1, <3>1
    <3>2. CASE m # n
      BY <1>1, <2>1, <3>2 DEF EnginesInv, NamesDistinct
    <3>3. QED
      BY <3>1, <3>2
  <2>2. QED
    BY <2>1 DEF NamesDistinct
<1>4. CheckpointsOwned'
  <2>1. ASSUME NEW m \in Node, NEW id \in ID, NEW i \in DOMAIN checkpoints[m][id]
        PROVE  /\ id \in DOMAIN vms'[m]
               /\ m \in Fresh => checkpoints[m][id][i].of = vms'[m][id].name
    <3>1. /\ id \in DOMAIN vms[m]
          /\ m \in Fresh => checkpoints[m][id][i].of = vms[m][id].name
      BY DEF EnginesInv, CheckpointsOwned, Exists
    <3>2. QED
      BY <1>1, <3>1
  <2>2. QED
    BY <2>1 DEF CheckpointsOwned, Exists
<1>5. QED
  BY <1>2, <1>3, <1>4 DEF EnginesInv

\* The checkpoints of one machine that is there change.
LEMMA CheckpointsChange ==
    ASSUME EnginesInv, NEW n \in Node, NEW id \in ID, Exists(n, id),
           NEW new \in Seq(Checkpoint),
           n \in Fresh => \A i \in DOMAIN new : new[i].of = vms[n][id].name,
           checkpoints' = [checkpoints EXCEPT ![n][id] = new], UNCHANGED vms
    PROVE  EnginesInv'
<1>1. /\ checkpoints' \in [Node -> [ID -> Seq(Checkpoint)]]
      /\ checkpoints'[n][id] = new
      /\ \A m \in Node, k \in ID :
            ~(m = n /\ k = id) => checkpoints'[m][k] = checkpoints[m][k]
  BY DEF EnginesInv, EnginesTyped
<1>2. EnginesTyped'
  BY <1>1 DEF EnginesInv, EnginesTyped
<1>3. NamesDistinct'
  BY DEF EnginesInv, NamesDistinct
<1>4. ASSUME NEW m \in Node, NEW k \in ID, NEW i \in DOMAIN checkpoints'[m][k]
      PROVE  /\ k \in DOMAIN vms[m]
             /\ m \in Fresh => checkpoints'[m][k][i].of = vms[m][k].name
  <2>1. CASE m = n /\ k = id
    BY <1>1, <2>1 DEF Exists
  <2>2. CASE ~(m = n /\ k = id)
    BY <1>1, <2>2 DEF EnginesInv, CheckpointsOwned, Exists
  <2>3. QED
    BY <2>1, <2>2
<1>5. CheckpointsOwned'
  BY <1>4 DEF CheckpointsOwned, Exists
<1>6. QED
  BY <1>2, <1>3, <1>5 DEF EnginesInv

-----------------------------------------------------------------------------
(* The operations.                                                          *)

LEMMA CreateKeeps ==
    ASSUME EnginesInv, NEW n \in Node, NEW id \in ID, NEW name \in Name,
           NEW size \in Nat, NEW disk \in Nat, CreateVM(n, id, name, size, disk)
    PROVE  EnginesInv'
<1> DEFINE vm == [name |-> name, state |-> "STOPPED", size |-> size, disk |-> disk]
           new == [k \in DOMAIN vms[n] \cup {id} |-> IF k = id THEN vm ELSE vms[n][k]]
<1>1. /\ vms' = [vms EXCEPT ![n] = new] /\ UNCHANGED checkpoints
      /\ n \in Fresh => id \notin DOMAIN vms[n]
      /\ \A k \in DOMAIN vms[n] : Fold[vms[n][k].name] # Fold[name]
  BY DEF CreateVM, CanCreate, NameFree, NewID, Exists, With, EnginesInv, EnginesTyped
<1>2. IsMachines(vms[n]) /\ vm \in Machine /\ vm.name = name
  BY DEF EnginesInv, EnginesTyped, Machine
<1> HIDE DEF vm
<1>3. /\ IsMachines(new) /\ DOMAIN new = DOMAIN vms[n] \cup {id} /\ new[id] = vm
      /\ \A k \in DOMAIN vms[n] \ {id} : new[k] = vms[n][k]
  BY <1>2, WithFacts
<1> HIDE DEF new
<1>4. \A k \in DOMAIN vms[n] :
         k \in DOMAIN new /\ (n \in Fresh => new[k].name = vms[n][k].name)
  BY <1>1, <1>3
<1>5. \A a, b \in DOMAIN new : Fold[new[a].name] = Fold[new[b].name] => a = b
  BY <1>1, <1>2, <1>3 DEF EnginesInv, NamesDistinct
<1>6. QED
  BY <1>1, <1>3, <1>4, <1>5, MachinesChange

LEMMA CloneKeeps ==
    ASSUME EnginesInv, NEW n \in Node, NEW id \in ID, NEW src, NEW name \in Name,
           CloneVM(n, id, src, name)
    PROVE  EnginesInv'
<1> DEFINE vm == [vms[n][src] EXCEPT !.name = name, !.state = "STOPPED"]
           new == [k \in DOMAIN vms[n] \cup {id} |-> IF k = id THEN vm ELSE vms[n][k]]
<1>1. /\ vms' = [vms EXCEPT ![n] = new] /\ UNCHANGED checkpoints
      /\ n \in Fresh => id \notin DOMAIN vms[n]
      /\ src \in DOMAIN vms[n]
      /\ \A k \in DOMAIN vms[n] : Fold[vms[n][k].name] # Fold[name]
  BY DEF CloneVM, CanClone, NameFree, NewID, Exists, With, EnginesInv, EnginesTyped
<1>2. IsMachines(vms[n])
  BY DEF EnginesInv, EnginesTyped
<1>3. vm \in Machine /\ vm.name = name
  <2>1. vms[n][src] \in Machine
    BY <1>1, <1>2, MachinesElim
  <2>2. QED
    BY <2>1 DEF Machine
<1> HIDE DEF vm
<1>4. /\ IsMachines(new) /\ DOMAIN new = DOMAIN vms[n] \cup {id} /\ new[id] = vm
      /\ \A k \in DOMAIN vms[n] \ {id} : new[k] = vms[n][k]
  BY <1>2, <1>3, WithFacts
<1> HIDE DEF new
<1>5. \A k \in DOMAIN vms[n] :
         k \in DOMAIN new /\ (n \in Fresh => new[k].name = vms[n][k].name)
  BY <1>1, <1>4
<1>6. \A a, b \in DOMAIN new : Fold[new[a].name] = Fold[new[b].name] => a = b
  BY <1>1, <1>3, <1>4 DEF EnginesInv, NamesDistinct
<1>7. QED
  BY <1>1, <1>4, <1>5, <1>6, MachinesChange

\* A machine that is there changes, but not its name.
LEMMA ChangeKeeps ==
    ASSUME EnginesInv, NEW n \in Node, NEW id, Exists(n, id), NEW vm \in Machine,
           vm.name = vms[n][id].name,
           vms' = [vms EXCEPT ![n][id] = vm], UNCHANGED checkpoints
    PROVE  EnginesInv'
<1> DEFINE new == [vms[n] EXCEPT ![id] = vm]
<1>1. /\ vms' = [vms EXCEPT ![n] = new] /\ id \in DOMAIN vms[n] /\ IsMachines(vms[n])
  BY DEF Exists, EnginesInv, EnginesTyped
<1>2. new \in [DOMAIN vms[n] -> Machine] /\ DOMAIN vms[n] \subseteq ID
  BY <1>1, MachinesElim
<1>3. \A k \in DOMAIN vms[n] : new[k].name = vms[n][k].name
  BY <1>1
<1>4. IsMachines(new) /\ DOMAIN new = DOMAIN vms[n]
  BY <1>2, MachinesIntro
<1> HIDE DEF new
<1>5. \A a, b \in DOMAIN new : Fold[new[a].name] = Fold[new[b].name] => a = b
  BY <1>3, <1>4 DEF EnginesInv, NamesDistinct
<1>6. QED
  BY <1>1, <1>3, <1>4, <1>5, MachinesChange

LEMMA StateKeeps ==
    ASSUME EnginesInv, NEW n \in Node, NEW id,
           StartVM(n, id) \/ StopVM(n, id) \/ RestartVM(n, id)
    PROVE  EnginesInv'
<1>1. PICK s \in {"RUNNING", "STOPPED"} : SetState(n, id, s)
  BY DEF StartVM, StopVM, RestartVM
<1> DEFINE vm == [vms[n][id] EXCEPT !.state = s]
<1>2. Exists(n, id) /\ IsMachines(vms[n])
  BY <1>1 DEF SetState, EnginesInv, EnginesTyped
<1>3. vms[n][id] \in Machine
  BY <1>2, MachinesElim DEF Exists
<1>4. vm \in Machine /\ vm.name = vms[n][id].name
  BY <1>3 DEF Machine
<1>5. vms' = [vms EXCEPT ![n][id] = vm] /\ UNCHANGED checkpoints
  BY <1>1 DEF SetState
<1> HIDE DEF vm
<1>6. QED
  BY <1>2, <1>4, <1>5, ChangeKeeps

LEMMA ResizeKeeps ==
    ASSUME EnginesInv, NEW n \in Node, NEW id, NEW size \in Nat, ResizeVM(n, id, size)
    PROVE  EnginesInv'
<1> DEFINE vm == [vms[n][id] EXCEPT !.size = size]
<1>1. Exists(n, id) /\ IsMachines(vms[n])
  BY DEF ResizeVM, CanResize, EnginesInv, EnginesTyped
<1>2. vms[n][id] \in Machine
  BY <1>1, MachinesElim DEF Exists
<1>3. vm \in Machine /\ vm.name = vms[n][id].name
  BY <1>2 DEF Machine
<1>4. vms' = [vms EXCEPT ![n][id] = vm] /\ UNCHANGED checkpoints
  BY DEF ResizeVM
<1> HIDE DEF vm
<1>5. QED
  BY <1>1, <1>3, <1>4, ChangeKeeps

LEMMA ExpandKeeps ==
    ASSUME EnginesInv, NEW n \in Node, NEW id, NEW disk \in Nat, ExpandDisk(n, id, disk)
    PROVE  EnginesInv'
<1> DEFINE vm == [vms[n][id] EXCEPT !.disk = disk]
<1>1. Exists(n, id) /\ IsMachines(vms[n])
  BY DEF ExpandDisk, CanExpand, EnginesInv, EnginesTyped
<1>2. vms[n][id] \in Machine
  BY <1>1, MachinesElim DEF Exists
<1>3. vm \in Machine /\ vm.name = vms[n][id].name
  BY <1>2 DEF Machine
<1>4. vms' = [vms EXCEPT ![n][id] = vm] /\ UNCHANGED checkpoints
  BY DEF ExpandDisk
<1> HIDE DEF vm
<1>5. QED
  BY <1>1, <1>3, <1>4, ChangeKeeps

\* The machine goes, and its checkpoints with it.
LEMMA DeleteKeeps ==
    ASSUME EnginesInv, NEW n \in Node, NEW id \in ID, DeleteVM(n, id)
    PROVE  EnginesInv'
<1> DEFINE new == [k \in DOMAIN vms[n] \ {id} |-> vms[n][k]]
<1>1. /\ vms' = [vms EXCEPT ![n] = new]
      /\ checkpoints' = [checkpoints EXCEPT ![n][id] = <<>>]
      /\ IsMachines(vms[n])
  BY DEF DeleteVM, EnginesInv, EnginesTyped
<1>2. /\ IsMachines(new) /\ DOMAIN new = DOMAIN vms[n] \ {id}
      /\ \A k \in DOMAIN vms[n] \ {id} : new[k] = vms[n][k]
  BY <1>1, WithoutFacts
<1> HIDE DEF new
<1>3. /\ DOMAIN vms' = Node /\ vms' = [m \in Node |-> vms'[m]]
      /\ vms'[n] = new /\ \A m \in Node \ {n} : vms'[m] = vms[m]
  BY <1>1 DEF EnginesInv, EnginesTyped
<1>4. /\ checkpoints' \in [Node -> [ID -> Seq(Checkpoint)]]
      /\ checkpoints'[n][id] = <<>>
      /\ \A m \in Node, k \in ID :
            ~(m = n /\ k = id) => checkpoints'[m][k] = checkpoints[m][k]
  BY <1>1 DEF EnginesInv, EnginesTyped
<1>5. EnginesTyped'
  BY <1>2, <1>3, <1>4 DEF EnginesInv, EnginesTyped, IsMachines
<1>6. NamesDistinct'
  BY <1>2, <1>3 DEF EnginesInv, NamesDistinct
<1>7. ASSUME NEW m \in Node, NEW k \in ID, NEW i \in DOMAIN checkpoints'[m][k]
      PROVE  /\ k \in DOMAIN vms'[m]
             /\ m \in Fresh => checkpoints'[m][k][i].of = vms'[m][k].name
  <2>1. ~(m = n /\ k = id)
    BY <1>4
  <2>2. /\ k \in DOMAIN vms[m]
        /\ m \in Fresh => checkpoints'[m][k][i].of = vms[m][k].name
    BY <1>4, <2>1 DEF EnginesInv, CheckpointsOwned, Exists
  <2>3. QED
    BY <1>2, <1>3, <2>1, <2>2
<1>8. CheckpointsOwned'
  BY <1>7 DEF CheckpointsOwned, Exists
<1>9. QED
  BY <1>5, <1>6, <1>8 DEF EnginesInv

LEMMA CreateCheckpointKeeps ==
    ASSUME EnginesInv, NEW n \in Node, NEW id \in ID, NEW name \in Snapshot,
           CreateCheckpoint(n, id, name)
    PROVE  EnginesInv'
<1> DEFINE old == checkpoints[n][id]
           cp  == [name |-> name, of |-> vms[n][id].name]
           new == Append(old, cp)
<1>1. /\ checkpoints' = [checkpoints EXCEPT ![n][id] = new]
      /\ UNCHANGED vms /\ Exists(n, id) /\ IsMachines(vms[n])
      /\ old \in Seq(Checkpoint)
      /\ n \in Fresh => \A i \in DOMAIN old : old[i].of = vms[n][id].name
  BY DEF CreateCheckpoint, EnginesInv, EnginesTyped, CheckpointsOwned
<1>2. cp \in Checkpoint /\ cp.of = vms[n][id].name
  <2>1. vms[n][id] \in Machine
    BY <1>1, MachinesElim DEF Exists
  <2>2. QED
    BY <2>1 DEF Checkpoint, Machine
<1> HIDE DEF cp, old
<1>3. /\ new \in Seq(Checkpoint)
      /\ \A i \in DOMAIN new : new[i] = cp \/ (i \in DOMAIN old /\ new[i] = old[i])
  BY <1>1, <1>2
<1> HIDE DEF new
<1>4. QED
  BY <1>1, <1>2, <1>3, CheckpointsChange

LEMMA DeleteCheckpointKeeps ==
    ASSUME EnginesInv, NEW n \in Node, NEW id \in ID, NEW name,
           DeleteCheckpoint(n, id, name)
    PROVE  EnginesInv'
<1> DEFINE old == checkpoints[n][id]
<1>1. /\ UNCHANGED vms /\ Exists(n, id) /\ old \in Seq(Checkpoint)
      /\ Found(n, id, name) # {} /\ Found(n, id, name) \subseteq DOMAIN old
      /\ n \in Fresh => \A i \in DOMAIN old : old[i].of = vms[n][id].name
  BY DEF DeleteCheckpoint, HasCheckpoint, Found, EnginesInv, EnginesTyped, CheckpointsOwned
<1>2. PICK i \in Found(n, id, name) :
             checkpoints' = [checkpoints EXCEPT ![n][id] = RemoveAt(old, i)]
  BY DEF DeleteCheckpoint
<1> DEFINE new == RemoveAt(old, i)
<1>3. /\ new \in Seq(Checkpoint)
      /\ \A k \in DOMAIN new : \E l \in DOMAIN old : new[k] = old[l]
  BY <1>1, <1>2, RemoveAtFacts
<1>4. checkpoints' = [checkpoints EXCEPT ![n][id] = new]
  BY <1>2
<1> HIDE DEF new, old
<1>5. n \in Fresh => \A k \in DOMAIN new : new[k].of = vms[n][id].name
  BY <1>1, <1>3
<1>6. QED
  BY <1>1, <1>3, <1>4, <1>5, CheckpointsChange

LEMMA EnginesStutter == EnginesInv /\ UNCHANGED engines => EnginesInv'
BY DEF EnginesInv, EnginesTyped, engines, NamesDistinct, CheckpointsOwned, Exists,
       IsMachines

LEMMA EngineStepKeeps ==
    ASSUME EnginesInv, NEW n \in Node, EngineStep(n)
    PROVE  EnginesInv'
<1>1. PICK id \in ID :
        \/ \E name \in Name :
              \/ \E size \in Sizes, disk \in Disks : CreateVM(n, id, name, size, disk)
              \/ \E src \in ID : CloneVM(n, id, src, name)
        \/ StartVM(n, id) \/ StopVM(n, id) \/ RestartVM(n, id) \/ DeleteVM(n, id)
        \/ \E size \in Sizes : ResizeVM(n, id, size)
        \/ \E disk \in Disks : ExpandDisk(n, id, disk)
        \/ \E s \in Snapshot : \/ CreateCheckpoint(n, id, s)
                               \/ RestoreCheckpoint(n, id, s)
                               \/ DeleteCheckpoint(n, id, s)
  BY DEF EngineStep
<1>2. Sizes \subseteq Nat /\ Disks \subseteq Nat
  BY EngineAssumption
<1>3. ASSUME NEW name \in Name, NEW size \in Sizes, NEW disk \in Disks,
             CreateVM(n, id, name, size, disk)
      PROVE  EnginesInv'
  BY <1>2, <1>3, CreateKeeps
<1>4. ASSUME NEW name \in Name, NEW src \in ID, CloneVM(n, id, src, name)
      PROVE  EnginesInv'
  BY <1>4, CloneKeeps
<1>5. CASE StartVM(n, id) \/ StopVM(n, id) \/ RestartVM(n, id)
  BY <1>5, StateKeeps
<1>6. CASE DeleteVM(n, id)
  BY <1>6, DeleteKeeps
<1>7. ASSUME NEW size \in Sizes, ResizeVM(n, id, size) PROVE EnginesInv'
  BY <1>2, <1>7, ResizeKeeps
<1>8. ASSUME NEW disk \in Disks, ExpandDisk(n, id, disk) PROVE EnginesInv'
  BY <1>2, <1>8, ExpandKeeps
<1>9. ASSUME NEW s \in Snapshot, CreateCheckpoint(n, id, s) PROVE EnginesInv'
  BY <1>9, CreateCheckpointKeeps
<1>10. ASSUME NEW s \in Snapshot, RestoreCheckpoint(n, id, s) PROVE EnginesInv'
  BY <1>10, EnginesStutter DEF RestoreCheckpoint
<1>11. ASSUME NEW s \in Snapshot, DeleteCheckpoint(n, id, s) PROVE EnginesInv'
  BY <1>11, DeleteCheckpointKeeps
<1>12. QED
  BY <1>1, <1>3, <1>4, <1>5, <1>6, <1>7, <1>8, <1>9, <1>10, <1>11

-----------------------------------------------------------------------------
(* The engine alone, under any sequence of calls, never has two machines of *)
(* one name on a node, keeps no checkpoints of a machine that is gone, and  *)
(* none of another machine unless that was replaced by one that got its     *)
(* identifier (engine.go:546-573, 619-628, 650-668, 699-713, 751-781).      *)
THEOREM EnginesCorrect == EnginesSpec => [](NamesDistinct /\ CheckpointsOwned)
<1>1. EnginesInv /\ [\E n \in Node : EngineStep(n)]_engines => EnginesInv'
  BY EnginesStutter, EngineStepKeeps
<1>2. EnginesInv => NamesDistinct /\ CheckpointsOwned
  BY DEF EnginesInv
<1>3. QED
  BY EnginesInitInv, <1>1, <1>2, PTL DEF EnginesSpec

-----------------------------------------------------------------------------
(* Requests.                                                                *)

Named == {"CreateVM", "CloneVM"}
Sized == {"CreateVM", "ResizeVM", "ExpandDisk"}

\* What the handlers may rely on.
RequestTyped(r) ==
    /\ r.to.node \in Node \cup {None}
    /\ r.op \in Named => r.name \in Name
    /\ r.op \in Sized => r.number \in Nat
    /\ r.op = "CreateCheckpoint" => r.name \in Snapshot

Requests == pending \cup late \cup {a.req : a \in answers}

ConsoleInv ==
    /\ EnginesInv
    /\ node \in Node \cup {None}
    /\ \A r \in pending \cup late : RequestTyped(r)

\* A command does to the engines what the operations of VMEngine do.
LEMMA PerformKeeps ==
    ASSUME EnginesInv, NEW r, RequestTyped(r), ~Refused(r), Perform(r)
    PROVE  EnginesInv'
<1> DEFINE n == r.to.node
           id == r.to.vm
<1>1. n \in Node
  BY DEF Refused, RequestTyped
<1>2. IsMachines(vms[n])
  BY <1>1 DEF EnginesInv, EnginesTyped
<1>3. Exists(n, id) => id \in ID
  BY <1>2, MachinesElim DEF Exists
<1>4. ASSUME r.op = "CreateVM", NEW new \in ID, CreateVM(n, new, r.name, 1, r.number)
      PROVE  EnginesInv'
  BY <1>1, <1>4, CreateKeeps DEF RequestTyped, Named, Sized
<1>5. ASSUME r.op = "CloneVM", NEW new \in ID, CloneVM(n, new, id, r.name)
      PROVE  EnginesInv'
  BY <1>1, <1>5, CloneKeeps DEF RequestTyped, Named
<1>6. CASE StartVM(n, id) \/ StopVM(n, id) \/ RestartVM(n, id)
  BY <1>1, <1>6, StateKeeps
<1>7. CASE DeleteVM(n, id)
  BY <1>1, <1>3, <1>7, DeleteKeeps DEF DeleteVM
<1>8. CASE r.op = "ResizeVM" /\ ResizeVM(n, id, r.number)
  BY <1>1, <1>8, ResizeKeeps DEF RequestTyped, Sized
<1>9. CASE r.op = "ExpandDisk" /\ ExpandDisk(n, id, r.number)
  BY <1>1, <1>9, ExpandKeeps DEF RequestTyped, Sized
<1>10. CASE r.op = "CreateCheckpoint" /\ CreateCheckpoint(n, id, r.name)
  BY <1>1, <1>3, <1>10, CreateCheckpointKeeps DEF RequestTyped, CreateCheckpoint
<1>11. CASE RestoreCheckpoint(n, id, r.name)
  BY <1>11, EnginesStutter DEF RestoreCheckpoint
<1>12. CASE DeleteCheckpoint(n, id, r.name)
  BY <1>1, <1>3, <1>12, DeleteCheckpointKeeps DEF DeleteCheckpoint, HasCheckpoint
<1>13. QED
  BY <1>4, <1>5, <1>6, <1>7, <1>8, <1>9, <1>10, <1>11, <1>12 DEF Perform

\* What the page asks on its own account.
LEMMA FetchTyped ==
    ASSUME NEW op \in Listing, NEW to, to.node \in Node \cup {None}
    PROVE  RequestTyped(Fetch(op, to))
BY DEF RequestTyped, Fetch, Request, Listing, Named, Sized

LEMMA ConsoleInitInv == ConsoleInit => ConsoleInv
BY EnginesInitInv DEF ConsoleInit, ConsoleInv

\* A request is sent, or none; nothing is done.
LEMMA Posted ==
    ASSUME ConsoleInv, UNCHANGED <<engines, late>>, node' \in Node \cup {None},
           \/ pending' = pending
           \/ \E r : RequestTyped(r) /\ pending' = pending \cup {r}
    PROVE  ConsoleInv'
<1>1. EnginesInv'
  BY EnginesStutter DEF ConsoleInv
<1>2. \A r \in pending' \cup late' : RequestTyped(r)
  BY DEF ConsoleInv
<1>3. QED
  BY <1>1, <1>2 DEF ConsoleInv

LEMMA RowButtonKeeps ==
    ASSUME ConsoleInv, NEW id, NEW op, NEW name, NEW number, RowButton(id, op, name, number),
           op \in Named => name \in Name,
           op \in Sized => number \in Nat,
           op # "CreateCheckpoint"
    PROVE  ConsoleInv'
<1> DEFINE r == Request(op, At(node, id), name, number, At(table.at.node, id))
<1>1. RequestTyped(r)
  BY DEF RequestTyped, Request, At, ConsoleInv
<1>2. /\ UNCHANGED <<engines, late>> /\ node' \in Node \cup {None}
      /\ pending' = pending \cup {r}
  BY DEF RowButton, Click, Post, page, ConsoleInv
<1> HIDE DEF r
<1>3. QED
  BY <1>1, <1>2, Posted

LEMMA SnapshotButtonKeeps ==
    ASSUME ConsoleInv, NEW op, op \in {"RestoreCheckpoint", "DeleteCheckpoint"},
           SnapshotButton(op)
    PROVE  ConsoleInv'
<1>1. PICK s \in snapTable.snaps :
         Post(Request(op, At(node, snapVM), s, 0, snapTable.at))
  BY DEF SnapshotButton
<1>2. RequestTyped(Request(op, At(node, snapVM), s, 0, snapTable.at))
  BY DEF RequestTyped, Request, At, ConsoleInv, Named, Sized
<1>3. UNCHANGED <<engines, late>> /\ node' \in Node \cup {None}
  BY DEF SnapshotButton, Click, page, ConsoleInv
<1>4. QED
  BY <1>1, <1>2, <1>3, Posted DEF Post

\* The clicks.
LEMMA OperatorKeeps ==
    ASSUME ConsoleInv, Operator
    PROVE  ConsoleInv'
<1>0. Sizes \subseteq Nat /\ Disks \subseteq Nat
  BY EngineAssumption
<1>1. ASSUME NEW n \in Node, openVMModal(n) PROVE ConsoleInv'
  <2>1. RequestTyped(Fetch("ListVMs", At(n, None)))
    BY FetchTyped DEF Listing, At
  <2>2. UNCHANGED <<engines, late>> /\ node' \in Node \cup {None}
    BY <1>1 DEF openVMModal, Click
  <2>3. QED
    BY <1>1, <2>1, <2>2, Posted DEF openVMModal, Post
<1>2. CASE closeVMModal \/ closeSnapshotsModal
  <2>1. UNCHANGED <<engines, late, pending>> /\ node' \in Node \cup {None}
    BY <1>2 DEF closeVMModal, closeSnapshotsModal, network, ConsoleInv
  <2>2. QED
    BY <2>1, Posted
<1>3. CASE submitNewVM
  <2>1. PICK name \in Name, disk \in Disks :
           Post(Request("CreateVM", At(node, None), name, disk, At(node, None)))
    BY <1>3 DEF submitNewVM
  <2>2. RequestTyped(Request("CreateVM", At(node, None), name, disk, At(node, None)))
    BY <1>0 DEF RequestTyped, Request, At, ConsoleInv
  <2>3. UNCHANGED <<engines, late>> /\ node' \in Node \cup {None}
    BY <1>3 DEF submitNewVM, Click, page, ConsoleInv
  <2>4. QED
    BY <2>1, <2>2, <2>3, Posted DEF Post
<1>4. ASSUME NEW id, controlVM(id) \/ deleteVM(id) PROVE ConsoleInv'
  <2>1. PICK op \in {"StartVM", "StopVM", "RestartVM", "DeleteVM"} :
           RowButton(id, op, None, 0)
    BY <1>4 DEF controlVM, deleteVM
  <2>2. QED
    BY <2>1, RowButtonKeeps DEF Named, Sized
<1>5. ASSUME NEW id, submitResizeVM(id) PROVE ConsoleInv'
  BY <1>0, <1>5, RowButtonKeeps DEF submitResizeVM, Named, Sized
<1>6. ASSUME NEW id, submitExpandDisk(id) PROVE ConsoleInv'
  BY <1>0, <1>6, RowButtonKeeps DEF submitExpandDisk, Named, Sized
<1>7. ASSUME NEW id, submitCloneVM(id) PROVE ConsoleInv'
  BY <1>7, RowButtonKeeps DEF submitCloneVM, Named, Sized
<1>8. ASSUME NEW id, openSnapshotsModal(id) PROVE ConsoleInv'
  <2>1. RequestTyped(Fetch("ListCheckpoints", At(node, id)))
    BY FetchTyped DEF Listing, At, ConsoleInv
  <2>2. UNCHANGED <<engines, late>> /\ node' \in Node \cup {None}
    BY <1>8 DEF openSnapshotsModal, Click, ConsoleInv
  <2>3. QED
    BY <1>8, <2>1, <2>2, Posted DEF openSnapshotsModal, Post
<1>9. CASE submitNewSnapshot
  <2>1. PICK s \in Snapshot :
           Post(Request("CreateCheckpoint", At(node, snapVM), s, 0, At(node, snapVM)))
    BY <1>9 DEF submitNewSnapshot
  <2>2. RequestTyped(Request("CreateCheckpoint", At(node, snapVM), s, 0, At(node, snapVM)))
    BY DEF RequestTyped, Request, At, ConsoleInv, Named, Sized
  <2>3. UNCHANGED <<engines, late>> /\ node' \in Node \cup {None}
    BY <1>9 DEF submitNewSnapshot, Click, page, ConsoleInv
  <2>4. QED
    BY <2>1, <2>2, <2>3, Posted DEF Post
<1>10. CASE restoreSnapshot \/ deleteSnapshot
  BY <1>10, SnapshotButtonKeeps DEF restoreSnapshot, deleteSnapshot
<1>11. QED
  BY <1>1, <1>2, <1>3, <1>4, <1>5, <1>6, <1>7, <1>8, <1>9, <1>10 DEF Operator

\* The node at work, whether the proxy gets its answer or not.
LEMMA ProxyKeeps ==
    ASSUME ConsoleInv, Proxy \/ \E r \in late : HandleLate(r)
    PROVE  ConsoleInv'
<1>1. ASSUME NEW r \in pending \cup late,
             HandleCommand(r) \/ AnswerLost(r) \/ HandleLate(r),
             ~Refused(r), Perform(r)
      PROVE  EnginesInv'
  BY <1>1, PerformKeeps DEF ConsoleInv
<1>2. ASSUME UNCHANGED engines PROVE EnginesInv'
  BY <1>2, EnginesStutter DEF ConsoleInv
<1>3. EnginesInv'
  BY <1>1, <1>2 DEF Proxy, HandleRefused, HandleCommand, HandleListVMs,
     HandleListCheckpoints, Unreachable, AnswerLost, TimesOut, HandleLate
<1>4. node' = node /\ pending' \cup late' \subseteq pending \cup late
  BY DEF Proxy, HandleRefused, HandleCommand, HandleListVMs, HandleListCheckpoints,
         Unreachable, AnswerLost, TimesOut, HandleLate, Reply, page
<1>5. QED
  BY <1>3, <1>4 DEF ConsoleInv

\* The page takes an answer.
LEMMA AnswerKeeps ==
    ASSUME ConsoleInv, AnswerArrives
    PROVE  ConsoleInv'
<1>1. UNCHANGED <<engines, late>> /\ node' \in Node \cup {None}
  BY DEF AnswerArrives, Page, ShowVMs, ShowSnapshots, ReloadVMs, ReloadSnapshots,
         AlertError, Take, ConsoleInv
<1>2. /\ RequestTyped(Fetch("ListVMs", At(node, None)))
      /\ RequestTyped(Fetch("ListCheckpoints", At(node, snapVM)))
  BY FetchTyped DEF Listing, At, ConsoleInv
<1>3. \/ pending' = pending
      \/ \E r : RequestTyped(r) /\ pending' = pending \cup {r}
  BY <1>2 DEF AnswerArrives, Page, ShowVMs, ShowSnapshots, ReloadVMs, ReloadSnapshots,
              AlertError, Post
<1>4. QED
  BY <1>1, <1>3, Posted

LEMMA ConsoleStep == ConsoleInv /\ [Next]_vars => ConsoleInv'
<1>1. ConsoleInv /\ UNCHANGED vars => ConsoleInv'
  BY Posted DEF vars, page, network, ConsoleInv
<1>2. QED
  BY <1>1, OperatorKeeps, ProxyKeeps, AnswerKeeps DEF Next

(* Whatever operators click, however late nodes act and whichever answers   *)
(* are lost, the machines of a node have different names and checkpoints    *)
(* are kept only for machines that are there, and for the machine they were *)
(* taken of unless another one replaced it (engine.go:550-556, 625-626;     *)
(* main.go:472-478).                                                        *)
THEOREM EnginesBehindThePage == Spec => [](NamesDistinct /\ CheckpointsOwned)
<1>1. ConsoleInv => NamesDistinct /\ CheckpointsOwned
  BY DEF ConsoleInv, EnginesInv
<1>2. QED
  BY ConsoleInitInv, ConsoleStep, <1>1, PTL DEF Spec

-----------------------------------------------------------------------------
(* The page, in the hands of an operator who waits.                         *)

Loaded(tab) == tab \notin {Loading, Failed}

\* Every listing under way, and every table loaded, is of what the windows
\* are open on.
ListsWhatIsOpen(r) ==
    /\ r.op = "ListVMs" => r.to.node = node
    /\ r.op = "ListCheckpoints" => r.to = At(node, snapVM)

PageInv ==
    /\ snapVM # None => node # None
    /\ node # None /\ Loaded(table) => table.at.node = node
    /\ snapVM # None /\ Loaded(snapTable) => snapTable.at = At(node, snapVM)
    /\ \A r \in pending : ListsWhatIsOpen(r)
    /\ \A a \in answers : ListsWhatIsOpen(a.req)
    /\ ActsOnWhatItShows

LEMMA PageInitInv == ConsoleInit => PageInv
BY DEF ConsoleInit, PageInv, ActsOnWhatItShows

\* A command is sent: nothing else on the page changes.
LEMMA CommandSent ==
    ASSUME PageInv, UNCHANGED <<page, late, answers>>,
           NEW r, r.op \notin Listing, r.to = r.shown, pending' = pending \cup {r}
    PROVE  PageInv'
BY DEF PageInv, page, ListsWhatIsOpen, ActsOnWhatItShows, Listing, Loaded

LEMMA RowButtonActs ==
    ASSUME PageInv, NEW id, NEW op, NEW name, NEW number, RowButton(id, op, name, number),
           op \notin Listing
    PROVE  PageInv'
<1> DEFINE r == Request(op, At(node, id), name, number, At(table.at.node, id))
<1>1. table.at.node = node
  BY DEF RowButton, PageInv, Loaded
<1>2. r.op = op /\ r.to = r.shown
  BY <1>1 DEF Request
<1>3. UNCHANGED <<page, late, answers>> /\ pending' = pending \cup {r}
  BY DEF RowButton, Click, Post
<1> HIDE DEF r
<1>4. QED
  BY <1>2, <1>3, CommandSent

LEMMA SnapshotButtonActs ==
    ASSUME PageInv, NEW op, op \notin Listing, SnapshotButton(op)
    PROVE  PageInv'
<1>1. PICK s \in snapTable.snaps :
         Post(Request(op, At(node, snapVM), s, 0, snapTable.at))
  BY DEF SnapshotButton
<1> DEFINE r == Request(op, At(node, snapVM), s, 0, snapTable.at)
<1>2. snapTable.at = At(node, snapVM)
  BY DEF SnapshotButton, PageInv, Loaded
<1>3. r.op = op /\ r.to = r.shown
  BY <1>2 DEF Request
<1>4. UNCHANGED <<page, late, answers>> /\ pending' = pending \cup {r}
  BY <1>1 DEF SnapshotButton, Click, Post
<1> HIDE DEF r
<1>5. QED
  BY <1>3, <1>4, CommandSent

LEMMA OperatorActs ==
    ASSUME Patient, PageInv, Operator
    PROVE  PageInv'
<1>1. ASSUME NEW n \in Node, openVMModal(n) PROVE PageInv'
  <2> DEFINE r == Fetch("ListVMs", At(n, None))
  <2>1. /\ node' = n /\ UNCHANGED <<snapVM, snapTable, late, answers>>
        /\ table' = Loading /\ pending' = {r} /\ answers = {} /\ snapVM = None
    BY <1>1 DEF openVMModal, Click, Settled, Post, PageInv
  <2>2. r.op = "ListVMs" /\ r.to.node = n /\ r.to = r.shown
    BY DEF Fetch, Request, At
  <2> HIDE DEF r
  <2>3. QED
    BY <2>1, <2>2 DEF PageInv, ListsWhatIsOpen, ActsOnWhatItShows, Loaded
<1>2. CASE closeVMModal \/ closeSnapshotsModal
  BY <1>2 DEF closeVMModal, closeSnapshotsModal, network, PageInv, Settled,
              ListsWhatIsOpen, ActsOnWhatItShows, Loaded
<1>3. CASE submitNewVM
  <2>1. PICK name \in Name, disk \in Disks :
           Post(Request("CreateVM", At(node, None), name, disk, At(node, None)))
    BY <1>3 DEF submitNewVM
  <2> DEFINE r == Request("CreateVM", At(node, None), name, disk, At(node, None))
  <2>2. r.op \notin Listing /\ r.to = r.shown
    BY DEF Request, Listing
  <2>3. UNCHANGED <<page, late, answers>> /\ pending' = pending \cup {r}
    BY <1>3, <2>1 DEF submitNewVM, Click, Post
  <2> HIDE DEF r
  <2>4. QED
    BY <2>2, <2>3, CommandSent
<1>4. ASSUME NEW id, \/ controlVM(id) \/ deleteVM(id) \/ submitResizeVM(id)
                     \/ submitExpandDisk(id) \/ submitCloneVM(id)
      PROVE  PageInv'
  BY <1>4, RowButtonActs DEF controlVM, deleteVM, submitResizeVM, submitExpandDisk,
                             submitCloneVM, Listing
<1>5. ASSUME NEW id, openSnapshotsModal(id) PROVE PageInv'
  <2> DEFINE r == Fetch("ListCheckpoints", At(node, id))
  <2>1. /\ snapVM' = id /\ UNCHANGED <<node, table, late, answers>>
        /\ snapTable' = Loading /\ pending' = {r} /\ answers = {} /\ node # None
    BY <1>5 DEF openSnapshotsModal, Click, Settled, Post
  <2>2. r.op = "ListCheckpoints" /\ r.to = At(node, id) /\ r.to = r.shown
    BY DEF Fetch, Request
  <2> HIDE DEF r
  <2>3. QED
    BY <2>1, <2>2 DEF PageInv, ListsWhatIsOpen, ActsOnWhatItShows, Loaded
<1>6. CASE submitNewSnapshot
  <2>1. PICK s \in Snapshot :
           Post(Request("CreateCheckpoint", At(node, snapVM), s, 0, At(node, snapVM)))
    BY <1>6 DEF submitNewSnapshot
  <2> DEFINE r == Request("CreateCheckpoint", At(node, snapVM), s, 0, At(node, snapVM))
  <2>2. r.op \notin Listing /\ r.to = r.shown
    BY DEF Request, Listing
  <2>3. UNCHANGED <<page, late, answers>> /\ pending' = pending \cup {r}
    BY <1>6, <2>1 DEF submitNewSnapshot, Click, Post
  <2> HIDE DEF r
  <2>4. QED
    BY <2>2, <2>3, CommandSent
<1>7. CASE restoreSnapshot \/ deleteSnapshot
  BY <1>7, SnapshotButtonActs DEF restoreSnapshot, deleteSnapshot, Listing
<1>8. QED
  BY <1>1, <1>2, <1>3, <1>4, <1>5, <1>6, <1>7 DEF Operator

\* An answer goes to the page with the request it answers.
LEMMA ReplyActs ==
    ASSUME PageInv, NEW r, NEW answer, Reply(r, answer), answer.req = r,
           late' \in {late, late \cup {r}}
    PROVE  PageInv'
BY DEF PageInv, Reply, page, ListsWhatIsOpen, ActsOnWhatItShows, Loaded

LEMMA ProxyActs ==
    ASSUME PageInv, Proxy \/ \E r \in late : HandleLate(r)
    PROVE  PageInv'
<1>1. ASSUME NEW r, \/ HandleRefused(r) \/ HandleCommand(r)
                    \/ Unreachable(r) \/ AnswerLost(r) \/ TimesOut(r)
      PROVE  PageInv'
  BY <1>1, ReplyActs DEF HandleRefused, HandleCommand, Unreachable, AnswerLost, TimesOut,
                           Error, Done
<1>2. ASSUME NEW r, HandleListVMs(r) \/ HandleListCheckpoints(r) PROVE PageInv'
  BY <1>2, ReplyActs DEF HandleListVMs, HandleListCheckpoints
<1>3. ASSUME NEW r, HandleLate(r) PROVE PageInv'
  BY <1>3 DEF HandleLate, PageInv, page, ListsWhatIsOpen, ActsOnWhatItShows, Loaded
<1>4. QED
  BY <1>1, <1>2, <1>3 DEF Proxy

LEMMA AnswerActs ==
    ASSUME PageInv, AnswerArrives
    PROVE  PageInv'
<1>1. PICK a \in answers : Page(a)
  BY DEF AnswerArrives
<1>2. /\ answers' \subseteq answers /\ UNCHANGED <<node, snapVM, late>>
      /\ ListsWhatIsOpen(a.req)
  BY <1>1 DEF Page, ShowVMs, ShowSnapshots, ReloadVMs, ReloadSnapshots, AlertError,
              Take, PageInv
<1>3. \/ pending' = pending
      \/ pending' = pending \cup {Fetch("ListVMs", At(node, None))}
      \/ pending' = pending \cup {Fetch("ListCheckpoints", At(node, snapVM))}
  BY <1>1 DEF Page, ShowVMs, ShowSnapshots, ReloadVMs, ReloadSnapshots, AlertError, Post
<1>4. \A r \in pending' : ListsWhatIsOpen(r) /\ r.to = r.shown
  BY <1>3 DEF PageInv, ActsOnWhatItShows, ListsWhatIsOpen, Fetch, Request, At
<1>5. node # None /\ Loaded(table') => table'.at.node = node
  <2>1. table' \in {table, Loading, Failed} \/ table' = Machines(a.req.to, a.vms)
    BY <1>1 DEF Page, ShowVMs, ShowSnapshots, ReloadVMs, ReloadSnapshots, AlertError
  <2>2. table' = Machines(a.req.to, a.vms) => a.req.op = "ListVMs" \/ table' = table
    BY <1>1 DEF Page, ShowVMs, ShowSnapshots, ReloadVMs, ReloadSnapshots, AlertError,
                Machines, Loading
  <2>3. QED
    BY <1>2, <2>1, <2>2 DEF PageInv, Loaded, Machines, ListsWhatIsOpen
<1>6. snapVM # None /\ Loaded(snapTable') => snapTable'.at = At(node, snapVM)
  <2>1. snapTable' \in {snapTable, Loading, Failed} \/ snapTable' = Snapshots(a.req.to, a.snaps)
    BY <1>1 DEF Page, ShowVMs, ShowSnapshots, ReloadVMs, ReloadSnapshots, AlertError
  <2>2. snapTable' = Snapshots(a.req.to, a.snaps) =>
           a.req.op = "ListCheckpoints" \/ snapTable' = snapTable
    BY <1>1 DEF Page, ShowVMs, ShowSnapshots, ReloadVMs, ReloadSnapshots, AlertError,
                Snapshots, Loading
  <2>3. QED
    BY <1>2, <2>1, <2>2 DEF PageInv, Loaded, Snapshots, ListsWhatIsOpen
<1>7. QED
  BY <1>2, <1>4, <1>5, <1>6 DEF PageInv, ListsWhatIsOpen, ActsOnWhatItShows, Loaded

(* An operator who lets the page settle between clicks only sends commands  *)
(* to the machine the button stood next to: what remains stale is what he   *)
(* clicks on while answers are on their way (dashboard.go:1004-1057,        *)
(* 1099-1126, 1152, 1168, 1206, 1213).                                      *)
THEOREM PatientOperatorActs == Patient => (Spec => []ActsOnWhatItShows)
<1> SUFFICES ASSUME Patient PROVE Spec => []ActsOnWhatItShows
  OBVIOUS
<1>1. PageInv /\ UNCHANGED vars => PageInv'
  BY DEF PageInv, vars, page, network, ListsWhatIsOpen, ActsOnWhatItShows, Loaded
<1>2. PageInv /\ [Next]_vars => PageInv'
  BY <1>1, OperatorActs, ProxyActs, AnswerActs DEF Next
<1>3. PageInv => ActsOnWhatItShows
  BY DEF PageInv
<1>4. QED
  BY PageInitInv, <1>2, <1>3, PTL DEF Spec

-----------------------------------------------------------------------------
(* What the windows show.                                                   *)

OfCheckpoints == OnCheckpoints \cup {"RestoreCheckpoint"}

TableRight == table \in {Failed, Machines(At(node, None), vms[node])}

SnapsRight ==
    snapVM # None =>
        snapTable \in {Failed, Snapshots(At(node, snapVM), SnapshotNames(node, snapVM))}

\* There is one request or one answer under way, or nothing.
OneThing ==
    \/ Settled
    \/ answers = {} /\ \E r \in pending : pending = {r}
    \/ pending = {} /\ \E a \in answers : answers = {a}

\* A request has changed nothing yet: only a table it is to fill is not right.
RequestPending(r) ==
    /\ r.op = "ListVMs" => r.to = At(node, None)
    /\ r.op = "ListCheckpoints" => r.to = At(node, snapVM)
    /\ r.op # "ListVMs" => TableRight
    /\ r.op # "ListCheckpoints" => SnapsRight

\* The answers that fill a table, or make the page load it again.
OnTable(a) ==
    a.req.op = "ListVMs" \/ (a.ok /\ a.req.op \notin Listing \cup OnCheckpoints)
OnSnaps(a) ==
    a.req.op = "ListCheckpoints" \/ (a.ok /\ a.req.op \in OnCheckpoints)

\* An answer holds what the node has; no other table is wrong.
AnswerDue(a) ==
    /\ a.req.op = "ListVMs" /\ a.ok =>
          a.req.to = At(node, None) /\ a.vms = vms[node]
    /\ a.req.op = "ListCheckpoints" /\ a.ok =>
          a.req.to = At(node, snapVM) /\ a.snaps = SnapshotNames(node, snapVM)
    /\ OnTable(a) \/ TableRight
    /\ OnSnaps(a) \/ SnapsRight

ShownInv ==
    /\ ~unheard => late = {}
    /\ OneThing
    /\ node = None => Settled
    /\ snapVM # None => node # None
    /\ \A r \in pending : r.op \notin Listing \cup OfCheckpoints => snapVM = None
    /\ ~unheard /\ node # None =>
          /\ Settled => TableRight /\ SnapsRight
          /\ \A r \in pending : RequestPending(r)
          /\ \A a \in answers : AnswerDue(a)

LEMMA ShownInit == ConsoleInit => ShownInv
BY DEF ConsoleInit, ShownInv, OneThing, Settled

\* A command is sent: nothing has changed yet.
LEMMA CommandShows ==
    ASSUME ShownInv, Settled, node # None,
           UNCHANGED <<engines, page, late, answers, unheard>>,
           NEW r, r.op \notin Listing, r.op \in OfCheckpoints \/ snapVM = None,
           pending' = pending \cup {r}
    PROVE  ShownInv'
<1>1. pending' = {r} /\ answers' = {} /\ ~Settled'
  BY DEF Settled
<1>2. UNCHANGED <<vms, checkpoints, node, table, snapVM, snapTable>>
  BY DEF engines, page
<1>3. ~unheard => TableRight' /\ SnapsRight'
  BY <1>2 DEF ShownInv, TableRight, SnapsRight, SnapshotNames
<1>4. ~unheard => RequestPending(r)'
  BY <1>3 DEF RequestPending, Listing
<1>5. QED
  BY <1>1, <1>2, <1>4 DEF ShownInv, OneThing, page

LEMMA RowButtonShows ==
    ASSUME ShownInv, Settled, NEW id, NEW op, NEW name, NEW number,
           RowButton(id, op, name, number), op \notin Listing
    PROVE  ShownInv'
<1> DEFINE r == Request(op, At(node, id), name, number, At(table.at.node, id))
<1>1. r.op = op
  BY DEF Request
<1>2. /\ UNCHANGED <<engines, page, late, answers, unheard>>
      /\ node # None /\ snapVM = None /\ pending' = pending \cup {r}
  BY DEF RowButton, Click, Post
<1> HIDE DEF r
<1>3. QED
  BY <1>1, <1>2, CommandShows

LEMMA OperatorShows ==
    ASSUME Patient, ShownInv, Operator
    PROVE  ShownInv'
<1>0. Settled
  BY DEF Operator, openVMModal, closeVMModal, submitNewVM, controlVM, deleteVM,
         submitResizeVM, submitExpandDisk, submitCloneVM, RowButton, openSnapshotsModal,
         closeSnapshotsModal, submitNewSnapshot, restoreSnapshot, deleteSnapshot,
         SnapshotButton, Click
<1>1. ASSUME NEW n \in Node, openVMModal(n) PROVE ShownInv'
  <2>0. PICK r : r = Fetch("ListVMs", At(n, None))
    OBVIOUS
  <2>1. /\ node' = n /\ UNCHANGED <<snapVM, late, answers, unheard>>
        /\ pending' = {r} /\ answers' = {} /\ snapVM = None /\ n # None
    BY <1>0, <1>1, <2>0, ConsoleAssumption DEF openVMModal, Click, Settled, Post, ShownInv
  <2>2. r.op = "ListVMs" /\ r.to = At(n, None)
    BY <2>0 DEF Fetch, Request
  <2>3. RequestPending(r)'
    BY <2>1, <2>2 DEF RequestPending, SnapsRight
  <2>4. ~Settled' /\ OneThing'
    BY <2>1 DEF Settled, OneThing
  <2>5. QED
    BY <2>1, <2>2, <2>3, <2>4 DEF ShownInv, Listing
<1>2. CASE closeVMModal
  BY <1>0, <1>2 DEF closeVMModal, network, ShownInv, OneThing, Settled
<1>3. CASE closeSnapshotsModal
  <2>1. UNCHANGED <<vms, node, table, network, unheard>> /\ snapVM' = None
    BY <1>3 DEF closeSnapshotsModal, engines
  <2>2. ~unheard /\ node # None => TableRight' /\ SnapsRight'
    BY <1>0, <2>1 DEF ShownInv, TableRight, SnapsRight
  <2>3. QED
    BY <1>0, <2>1, <2>2 DEF network, ShownInv, OneThing, Settled
<1>4. CASE submitNewVM
  <2>1. PICK name \in Name, disk \in Disks :
           Post(Request("CreateVM", At(node, None), name, disk, At(node, None)))
    BY <1>4 DEF submitNewVM
  <2> DEFINE r == Request("CreateVM", At(node, None), name, disk, At(node, None))
  <2>2. r.op \notin Listing
    BY DEF Request, Listing
  <2>3. /\ UNCHANGED <<engines, page, late, answers, unheard>>
        /\ node # None /\ snapVM = None /\ pending' = pending \cup {r}
    BY <1>4, <2>1 DEF submitNewVM, Click, Post
  <2> HIDE DEF r
  <2>4. QED
    BY <1>0, <2>2, <2>3, CommandShows
<1>5. ASSUME NEW id, \/ controlVM(id) \/ deleteVM(id) \/ submitResizeVM(id)
                     \/ submitExpandDisk(id) \/ submitCloneVM(id)
      PROVE  ShownInv'
  BY <1>0, <1>5, RowButtonShows DEF controlVM, deleteVM, submitResizeVM,
     submitExpandDisk, submitCloneVM, Listing
<1>6. ASSUME NEW id, openSnapshotsModal(id) PROVE ShownInv'
  <2>0. PICK r : r = Fetch("ListCheckpoints", At(node, id))
    OBVIOUS
  <2>1. /\ snapVM' = id /\ UNCHANGED <<engines, node, table, late, answers, unheard>>
        /\ pending' = {r} /\ answers' = {} /\ node # None
    BY <1>0, <1>6, <2>0 DEF openSnapshotsModal, Click, Settled, Post
  <2>2. r.op = "ListCheckpoints" /\ r.to = At(node, id)
    BY <2>0 DEF Fetch, Request
  <2>3. ~unheard => RequestPending(r)'
    BY <1>0, <2>1, <2>2 DEF RequestPending, ShownInv, TableRight, engines
  <2>4. ~Settled' /\ OneThing'
    BY <2>1 DEF Settled, OneThing
  <2>5. QED
    BY <2>1, <2>2, <2>3, <2>4 DEF ShownInv, Listing
<1>7. CASE submitNewSnapshot
  <2>1. PICK s \in Snapshot :
           Post(Request("CreateCheckpoint", At(node, snapVM), s, 0, At(node, snapVM)))
    BY <1>7 DEF submitNewSnapshot
  <2> DEFINE r == Request("CreateCheckpoint", At(node, snapVM), s, 0, At(node, snapVM))
  <2>2. r.op \in OfCheckpoints /\ r.op \notin Listing
    BY DEF Request, Listing, OfCheckpoints, OnCheckpoints
  <2>3. /\ UNCHANGED <<engines, page, late, answers, unheard>>
        /\ node # None /\ pending' = pending \cup {r}
    BY <1>7, <2>1 DEF submitNewSnapshot, Click, Post
  <2> HIDE DEF r
  <2>4. QED
    BY <1>0, <2>2, <2>3, CommandShows
<1>8. ASSUME NEW op \in {"RestoreCheckpoint", "DeleteCheckpoint"}, SnapshotButton(op)
      PROVE  ShownInv'
  <2>1. PICK s \in snapTable.snaps :
           Post(Request(op, At(node, snapVM), s, 0, snapTable.at))
    BY <1>8 DEF SnapshotButton
  <2> DEFINE r == Request(op, At(node, snapVM), s, 0, snapTable.at)
  <2>2. r.op \in OfCheckpoints /\ r.op \notin Listing
    BY DEF Request, Listing, OfCheckpoints, OnCheckpoints
  <2>3. /\ UNCHANGED <<engines, page, late, answers, unheard>>
        /\ node # None /\ pending' = pending \cup {r}
    BY <1>8, <2>1 DEF SnapshotButton, Click, Post
  <2> HIDE DEF r
  <2>4. QED
    BY <1>0, <2>2, <2>3, CommandShows
<1>9. QED
  BY <1>1, <1>2, <1>3, <1>4, <1>5, <1>6, <1>7, <1>8
     DEF Operator, restoreSnapshot, deleteSnapshot

\* The one request is answered; whether its tables are right is for the
\* answer to say.
LEMMA ReplyShows ==
    ASSUME ShownInv, NEW r, NEW a, Reply(r, a),
           ~unheard' => late' = {},
           ~unheard' => (RequestPending(r) => AnswerDue(a)'),
           unheard => unheard'
    PROVE  ShownInv'
<1>1. pending = {r} /\ answers = {} /\ ~Settled
  BY DEF Reply, ShownInv, OneThing, Settled
<1>2. pending' = {} /\ answers' = {a} /\ ~Settled' /\ OneThing' /\ UNCHANGED <<node, snapVM>>
  BY <1>1 DEF Reply, page, Settled, OneThing
<1>3. node # None
  BY <1>1 DEF ShownInv
<1>4. ~unheard' => AnswerDue(a)'
  BY <1>1, <1>3 DEF ShownInv
<1>5. QED
  BY <1>2, <1>3, <1>4 DEF ShownInv

\* Commands on checkpoints leave the machines alone.
LEMMA PerformShows ==
    ASSUME NEW r, Perform(r)
    PROVE  /\ r.op \in OnCheckpoints => UNCHANGED vms
           /\ r.op = "RestoreCheckpoint" => UNCHANGED engines
BY DEF Perform, OnCheckpoints, CreateCheckpoint, DeleteCheckpoint, RestoreCheckpoint

LEMMA ProxyShows ==
    ASSUME ShownInv, Proxy \/ \E r \in late : HandleLate(r)
    PROVE  ShownInv'
<1>1. ASSUME NEW r \in pending, HandleRefused(r) \/ Unreachable(r) PROVE ShownInv'
  <2>1. /\ Reply(r, Error(r)) /\ UNCHANGED <<vms, checkpoints, late, unheard>>
        /\ UNCHANGED <<node, table, snapVM, snapTable>>
    BY <1>1 DEF HandleRefused, Unreachable, engines, Reply, page
  <2>2. RequestPending(r) => AnswerDue(Error(r))'
    BY <2>1 DEF RequestPending, AnswerDue, OnTable, OnSnaps, Error, TableRight,
                SnapsRight, SnapshotNames
  <2>3. ~unheard' => late' = {}
    BY <2>1 DEF ShownInv
  <2>4. QED
    BY <2>1, <2>2, <2>3, ReplyShows
<1>2. ASSUME NEW r \in pending, HandleCommand(r) PROVE ShownInv'
  <2>1. /\ Reply(r, Done(r)) /\ Perform(r) /\ r.op \notin Listing
        /\ UNCHANGED <<late, unheard, node, table, snapVM, snapTable>>
    BY <1>2 DEF HandleCommand, Reply, page
  <2>2. /\ r.op \in OnCheckpoints => UNCHANGED vms
        /\ r.op = "RestoreCheckpoint" => UNCHANGED <<vms, checkpoints>>
        /\ r.op \notin OfCheckpoints => snapVM = None
    BY <1>2, <2>1, PerformShows DEF engines, ShownInv
  <2>3. RequestPending(r) => TableRight /\ SnapsRight
    BY <2>1 DEF RequestPending, Listing
  <2>4. r.op \in OnCheckpoints /\ TableRight => TableRight'
    BY <2>1, <2>2 DEF TableRight
  <2>5. r.op \notin OnCheckpoints /\ SnapsRight => SnapsRight'
    BY <2>1, <2>2 DEF SnapsRight, SnapshotNames, OfCheckpoints
  <2>6. Done(r).req = r /\ Done(r).ok
    BY DEF Done
  <2>7. RequestPending(r) => AnswerDue(Done(r))'
    BY <2>1, <2>3, <2>4, <2>5, <2>6 DEF AnswerDue, OnTable, OnSnaps, Listing
  <2>8. ~unheard' => late' = {}
    BY <2>1 DEF ShownInv
  <2>9. QED
    BY <2>1, <2>7, <2>8, ReplyShows
<1>3. ASSUME NEW r \in pending, HandleListVMs(r) PROVE ShownInv'
  <2>0. PICK a : a = [req |-> r, ok |-> TRUE, vms |-> vms[r.to.node]]
    OBVIOUS
  <2>1. /\ Reply(r, a) /\ r.op = "ListVMs"
        /\ UNCHANGED <<vms, checkpoints, late, unheard, node, table, snapVM, snapTable>>
    BY <1>3, <2>0 DEF HandleListVMs, engines, Reply, page
  <2>2. a.req = r /\ a.ok /\ a.vms = vms[r.to.node]
    BY <2>0
  <2>3. RequestPending(r) => AnswerDue(a)'
    BY <2>1, <2>2 DEF RequestPending, AnswerDue, OnTable, OnSnaps, SnapsRight,
                      SnapshotNames, At
  <2>4. ~unheard' => late' = {}
    BY <2>1 DEF ShownInv
  <2>5. QED
    BY <2>1, <2>3, <2>4, ReplyShows
<1>4. ASSUME NEW r \in pending, HandleListCheckpoints(r) PROVE ShownInv'
  <2>0. PICK a : a = [req |-> r, ok |-> TRUE, snaps |-> SnapshotNames(r.to.node, r.to.vm)]
    OBVIOUS
  <2>1. /\ Reply(r, a) /\ r.op = "ListCheckpoints"
        /\ UNCHANGED <<vms, checkpoints, late, unheard, node, table, snapVM, snapTable>>
    BY <1>4, <2>0 DEF HandleListCheckpoints, engines, Reply, page
  <2>2. a.req = r /\ a.ok /\ a.snaps = SnapshotNames(r.to.node, r.to.vm)
    BY <2>0
  <2>3. RequestPending(r) => AnswerDue(a)'
    BY <2>1, <2>2 DEF RequestPending, AnswerDue, OnTable, OnSnaps, TableRight,
                      SnapshotNames, At
  <2>4. ~unheard' => late' = {}
    BY <2>1 DEF ShownInv
  <2>5. QED
    BY <2>1, <2>3, <2>4, ReplyShows
<1>5. ASSUME NEW r \in pending, TimesOut(r) PROVE ShownInv'
  BY <1>5, ReplyShows DEF TimesOut
<1>6. ASSUME NEW r \in pending, AnswerLost(r) PROVE ShownInv'
  BY <1>6, ReplyShows DEF AnswerLost
<1>7. ASSUME NEW r \in late, HandleLate(r) PROVE ShownInv'
  BY <1>7 DEF HandleLate, page, ShownInv, OneThing, Settled
<1>8. QED
  BY <1>1, <1>2, <1>3, <1>4, <1>5, <1>6, <1>7 DEF Proxy

LEMMA AnswerShows ==
    ASSUME ShownInv, AnswerArrives
    PROVE  ShownInv'
<1>1. PICK a \in answers : Page(a)
  BY DEF AnswerArrives
<1>2. /\ pending = {} /\ answers = {a} /\ answers' = {} /\ node # None
      /\ UNCHANGED <<vms, checkpoints, node, snapVM, late, unheard>>
  BY <1>1 DEF Page, ShowVMs, ShowSnapshots, ReloadVMs, ReloadSnapshots, AlertError,
              Take, engines, ShownInv, OneThing, Settled
<1>3. ~unheard => AnswerDue(a)
  BY <1>2 DEF ShownInv
<1>4. ASSUME pending' = {}, AnswerDue(a) => TableRight' /\ SnapsRight'
      PROVE  ShownInv'
  BY <1>2, <1>3, <1>4 DEF ShownInv, OneThing, Settled
<1>5. CASE ShowVMs(a)
  BY <1>2, <1>4, <1>5 DEF ShowVMs, AnswerDue, OnSnaps, TableRight, SnapsRight,
                          SnapshotNames, OnCheckpoints
<1>6. CASE ShowSnapshots(a)
  <2>1. /\ a.req.op = "ListCheckpoints" /\ table' = table /\ pending' = {}
        /\ snapTable' = IF a.ok THEN Snapshots(a.req.to, a.snaps) ELSE Failed
    BY <1>2, <1>6 DEF ShowSnapshots
  <2>2. SnapshotNames(node, snapVM)' = SnapshotNames(node, snapVM)
    BY <1>2 DEF SnapshotNames
  <2>3. AnswerDue(a) => TableRight'
    BY <1>2, <2>1 DEF AnswerDue, OnTable, TableRight, Listing
  <2>4. AnswerDue(a) => SnapsRight'
    BY <1>2, <2>1, <2>2 DEF AnswerDue, SnapsRight
  <2>5. QED
    BY <1>4, <2>1, <2>3, <2>4
<1>7. CASE AlertError(a)
  BY <1>2, <1>4, <1>7 DEF AlertError, AnswerDue, OnTable, OnSnaps, TableRight,
                          SnapsRight, SnapshotNames, Listing
<1>8. ASSUME NEW r, r.op \in Listing, pending' = {r}, AnswerDue(a) => RequestPending(r)'
      PROVE  ShownInv'
  BY <1>2, <1>3, <1>8 DEF ShownInv, OneThing, Settled
<1>9. CASE ReloadVMs(a)
  <2>0. PICK r : r = Fetch("ListVMs", At(node, None))
    OBVIOUS
  <2>1. r.op = "ListVMs" /\ r.to = At(node, None) /\ pending' = {r} /\ snapTable' = snapTable
    BY <1>2, <1>9, <2>0 DEF ReloadVMs, Post, Fetch, Request
  <2>2. AnswerDue(a) => RequestPending(r)'
    BY <1>2, <1>9, <2>1 DEF ReloadVMs, AnswerDue, OnSnaps, RequestPending, SnapsRight,
                            SnapshotNames, Listing
  <2>3. QED
    BY <1>8, <2>1, <2>2 DEF Listing
<1>10. CASE ReloadSnapshots(a)
  <2>0. PICK r : r = Fetch("ListCheckpoints", At(node, snapVM))
    OBVIOUS
  <2>1. /\ r.op = "ListCheckpoints" /\ r.to = At(node, snapVM)
        /\ pending' = {r} /\ table' = table
    BY <1>2, <1>10, <2>0 DEF ReloadSnapshots, Post, Fetch, Request
  <2>2. AnswerDue(a) => RequestPending(r)'
    BY <1>2, <1>10, <2>1 DEF ReloadSnapshots, AnswerDue, OnTable, RequestPending,
                             TableRight, OnCheckpoints
  <2>3. QED
    BY <1>8, <2>1, <2>2 DEF Listing
<1>11. QED
  BY <1>1, <1>5, <1>6, <1>7, <1>9, <1>10 DEF Page

(* Once the page is still, and as long as the proxy got the answer to every *)
(* request a node acted on, the windows show what the node has: every       *)
(* command makes the page load again what the command changes               *)
(* (dashboard.go:1004-1057, 1099-1126).                                     *)
THEOREM PageShowsTheNode == Patient => (Spec => []ShowsTheNode)
<1> SUFFICES ASSUME Patient PROVE Spec => []ShowsTheNode
  OBVIOUS
<1>1. ShownInv /\ UNCHANGED vars => ShownInv'
  BY DEF vars, page, network, engines, ShownInv, OneThing, Settled, RequestPending,
         AnswerDue, OnTable, OnSnaps, TableRight, SnapsRight, SnapshotNames
<1>2. ShownInv /\ [Next]_vars => ShownInv'
  BY <1>1, OperatorShows, ProxyShows, AnswerShows DEF Next
<1>3. ShownInv => ShowsTheNode
  BY DEF ShownInv, ShowsTheNode, TableRight, SnapsRight
<1>4. QED
  BY ShownInit, <1>2, <1>3, PTL DEF Spec
=============================================================================
