------------------------------ MODULE MainProofs ------------------------------
(***************************************************************************)
(* Proofs about module Main, for any finite set of executions.             *)
(*                                                                         *)
(* The properties speak of the kernel's table (owner) and of the children. *)
(* What carries them is how far each main has come: up to its place in     *)
(* set-up it has made and attached everything (InOrder), what it has an id *)
(* for is its own (OwnIds, Held), what it owns it has an id for            *)
(* (Accounted), and it forks only with all seven ids in its hands and      *)
(* destroys only when both children are gone (Serving).                    *)
(***************************************************************************)
EXTENDS Main, TLAPS

\* The place of each step in main.
Place ==
    [config |-> 1, config_sem |-> 2, all_drones |-> 3, stack |-> 4,
     all_drones_sem |-> 5, gate_sem |-> 6, gate_fifo |-> 7,
     operator |-> 8, commander |-> 9]

SettingUp == Objects \cup Children

Closing == {"wait_commander", "wait_operator", "destroy", "exited", "killed"}

Types ==
    /\ owner \in [Keys -> Instances \cup {Nobody}]
    /\ main_pc \in [Instances -> {"start"} \cup SettingUp \cup Closing]
    /\ ids \in [Instances -> [Objects -> Instances \cup {Nobody}]]
    /\ attached \in [Instances -> SUBSET Segments]
    /\ stack_key \in [Instances -> {"stack", NoKey}]
    /\ children \in [Instances -> [Children -> {"none", "running", "ended"}]]

\* An id stands for an object the instance itself made...
OwnIds == \A m \in Instances, o \in Objects : ids[m][o] \in {Nobody, m}

\* ...which is still there...
Held ==
    \A m \in Instances, o \in Objects : ids[m][o] = m => owner[KeyOf(m, o)] = m

\* ...and what an instance made and has not removed it has an id for.
Accounted ==
    \A m \in Instances, k \in Keys : owner[k] = m =>
        \E o \in Objects : ids[m][o] = m /\ KeyOf(m, o) = k

\* In set-up everything before the place of main is made and attached, and
\* nothing behind it.
InOrder ==
    \A m \in Instances, o \in Objects :
        /\ main_pc[m] = "start" => ids[m][o] = Nobody
        /\ (main_pc[m] \in SettingUp /\ Place[o] < Place[main_pc[m]]) =>
               ids[m][o] = m /\ (o \in Segments => o \in attached[m])
        /\ (main_pc[m] \in SettingUp /\ Place[o] > Place[main_pc[m]]) =>
               ids[m][o] = Nobody

\* So there is at most one segment without a pointer to it.
OneUnattached ==
    \A m \in Instances : \A o, p \in Segments \ attached[m] :
        (ids[m][o] = m /\ ids[m][p] = m) => o = p

\* A child runs only between its fork and the waitpid for it, or on after its
\* main was killed, and until then nothing is destroyed.
Serving ==
    \A m \in Instances, c \in Children : children[m][c] = "running" =>
        /\ \A o \in Objects : ids[m][o] = m
        /\ main_pc[m] \in {"commander", "wait_commander", "wait_operator", "killed"}
        /\ c = "commander" => main_pc[m] \in {"wait_commander", "killed"}

\* An instance that has exited has no ids but those of segments without a
\* pointer.
Cleared ==
    \A m \in Instances, o \in Objects :
        (main_pc[m] = "exited" /\ ids[m][o] = m) => o \in Segments \ attached[m]

MainInv ==
    /\ Types /\ OwnIds /\ Held /\ Accounted
    /\ InOrder /\ OneUnattached /\ Serving /\ Cleared

-----------------------------------------------------------------------------
(* Facts about the constants.                                              *)

\* main goes one place further with every step.
LEMMA NextPlace ==
    ASSUME NEW s \in SettingUp
    PROVE  /\ After[s] \in SettingUp \cup {"wait_commander"}
           /\ After[s] \in SettingUp => Place[After[s]] = Place[s] + 1
           /\ Place[s] \in 1..9
           /\ s = "commander" <=> After[s] = "wait_commander"
  BY DEF After, Place, SettingUp, Objects, Segments, Semaphores, Children

\* No two steps have the same place, and the children come last.
LEMMA Places ==
    ASSUME NEW s \in SettingUp, NEW t \in SettingUp
    PROVE  /\ Place[s] = Place[t] => s = t
           /\ s \in Objects /\ t \in Children => Place[s] < Place[t]
  BY DEF Place, SettingUp, Objects, Segments, Semaphores, Children

\* The key of an object, and that two objects of one instance have two keys.
LEMMA KeysDiffer ==
    ASSUME Types, NEW m \in Instances, NEW o \in Objects
    PROVE  /\ KeyOf(m, o) \in Keys
           /\ \A p \in Objects : KeyOf(m, o) = KeyOf(m, p) => o = p
  BY DEF KeyOf, Types, Keys, NoKey, Objects, Segments, Semaphores

LEMMA NobodyIsNone == ASSUME NEW m \in Instances PROVE m # Nobody
  BY InstancesAssumption

-----------------------------------------------------------------------------
(* Every step keeps the invariant.                                         *)

\* Steps that only take an instance from one place to another.
LEMMA MovesKeep ==
    ASSUME MainInv, NEW m \in Instances,
           ProcessArgv(m) \/ CreateFails(m) \/ (\E c \in Children : JoinChild(m, c))
               \/ MainExit(m) \/ Kill(m)
    PROVE  MainInv'
  <1> USE DEF MainInv
  <1>1. UNCHANGED <<owner, ids, attached, stack_key, children>>
    BY DEF ProcessArgv, CreateFails, JoinChild, MainExit, Kill
  <1>2. PICK to \in {"config"} \cup Closing : main_pc' = [main_pc EXCEPT ![m] = to]
    BY DEF ProcessArgv, CreateFails, JoinChild, MainExit, Kill, Advance, Closing
  <1>3. Types'
    BY <1>1, <1>2 DEF Types, SettingUp, Objects, Segments
  <1>4. OwnIds' /\ Held' /\ Accounted' /\ OneUnattached'
    BY <1>1 DEF OwnIds, Held, Accounted, OneUnattached, KeyOf
  <1>5. to = "config" => \A o \in Objects : ids[m][o] = Nobody
    BY <1>2 DEF ProcessArgv, CreateFails, JoinChild, MainExit, Kill, Advance, InOrder, Types
  <1>6. InOrder'
    <2>1. ASSUME NEW o \in Objects, to = "config" PROVE ~(Place[o] < Place[to])
      BY <2>1 DEF Place, Objects, Segments, Semaphores
    <2>2. to # "config" => to \notin SettingUp /\ to # "start"
      BY DEF Closing, SettingUp, Objects, Segments, Semaphores, Children
    <2> QED BY <1>1, <1>2, <1>5, <2>1, <2>2 DEF InOrder, Types
  <1>7. Serving'
    <2> SUFFICES ASSUME NEW c \in Children, children[m][c] = "running"
                 PROVE  /\ to \in {"commander", "wait_commander", "wait_operator", "killed"}
                        /\ c = "commander" => to \in {"wait_commander", "killed"}
      BY <1>1, <1>2 DEF Serving, Types
    <2> QED BY <1>2 DEF Serving, ProcessArgv, CreateFails, JoinChild, MainExit, Kill,
                 Advance, Types, Children, Objects, Segments, Semaphores
  <1>8. Cleared'
    <2> SUFFICES ASSUME NEW o \in Objects, to = "exited", ids[m][o] = m
                 PROVE  o \in Segments \ attached[m]
      BY <1>1, <1>2 DEF Cleared, Types
    <2>1. CASE ProcessArgv(m)
      BY <2>1, NobodyIsNone DEF ProcessArgv, InOrder
    <2>2. CASE MainExit(m)
      BY <2>2, NobodyIsNone DEF MainExit, Due
    <2>3. main_pc'[m] = "exited"
      BY <1>2 DEF Types
    <2>4. ~CreateFails(m) /\ ~Kill(m) /\ \A c \in Children : ~JoinChild(m, c)
      BY <2>3 DEF CreateFails, JoinChild, Kill, Advance, Types
    <2> QED BY <2>1, <2>2, <2>4
  <1> QED BY <1>3, <1>4, <1>6, <1>7, <1>8

\* A fork happens with everything made; the end of a child disturbs nothing.
LEMMA ChildrenKeep ==
    ASSUME MainInv, NEW m \in Instances, NEW c \in Children,
           CreatChild(m, c) \/ ChildEnds(m, c)
    PROVE  MainInv'
  <1> USE DEF MainInv
  <1>1. UNCHANGED <<owner, ids, attached, stack_key>>
    BY DEF CreatChild, ChildEnds
  <1>2. OwnIds' /\ Held' /\ Accounted' /\ OneUnattached'
    BY <1>1 DEF OwnIds, Held, Accounted, OneUnattached, KeyOf
  <1>3. CASE ChildEnds(m, c)
    <2>1. /\ main_pc' = main_pc
          /\ children' = [children EXCEPT ![m][c] = "ended"]
      BY <1>3 DEF ChildEnds
    <2>2. Types'
      BY <1>1, <2>1 DEF Types
    <2>3. InOrder' /\ Cleared'
      BY <1>1, <2>1 DEF InOrder, Cleared
    <2>4. Serving'
      BY <1>1, <2>1 DEF Serving, Types
    <2> QED BY <1>2, <2>2, <2>3, <2>4
  <1>4. CASE CreatChild(m, c)
    <2>1. /\ main_pc[m] = c
          /\ main_pc' = [main_pc EXCEPT ![m] = After[c]]
          /\ children' = [children EXCEPT ![m][c] = "running"]
      BY <1>4 DEF CreatChild, Advance
    <2>2. \/ c = "operator" /\ After[c] = "commander"
          \/ c = "commander" /\ After[c] = "wait_commander"
      BY DEF Children, After
    <2>3. \A o \in Objects : ids[m][o] = m /\ (o \in Segments => o \in attached[m])
      BY <2>1, Places DEF InOrder, SettingUp
    <2>4. Types'
      BY <1>1, <2>1, <2>2 DEF Types, SettingUp, Closing, Children
    <2>5. InOrder'
      <3>1. ASSUME NEW o \in Objects, After[c] \in SettingUp PROVE ~(Place[o] > Place[After[c]])
        BY <2>2, <3>1 DEF Place, Objects, Segments, Semaphores, SettingUp, Children
      <3>2. After[c] # "start"
        BY <2>2
      <3> QED BY <1>1, <2>1, <2>3, <3>1, <3>2 DEF InOrder, Types
    <2>6. Serving'
      <3> SUFFICES ASSUME NEW n \in Instances, NEW d \in Children, children'[n][d] = "running"
                   PROVE  /\ \A o \in Objects : ids[n][o] = n
                          /\ main_pc'[n] \in {"commander", "wait_commander", "wait_operator", "killed"}
                          /\ d = "commander" => main_pc'[n] \in {"wait_commander", "killed"}
        BY <1>1 DEF Serving
      <3>1. CASE n # m
        BY <2>1, <3>1 DEF Serving, Types
      <3>2. CASE n = m /\ d = c
        BY <2>1, <2>2, <2>3, <3>2 DEF Types
      <3>3. CASE n = m /\ d # c
        <4>1. children[m][d] = "running"
          BY <2>1, <3>3 DEF Types
        <4> QED BY <2>1, <2>2, <3>3, <4>1 DEF Serving, Types, Children
      <3> QED BY <3>1, <3>2, <3>3
    <2>7. Cleared'
      BY <1>1, <2>1, <2>2 DEF Cleared, Types
    <2> QED BY <1>2, <2>4, <2>5, <2>6, <2>7
  <1> QED BY <1>3, <1>4

\* An object comes into being under a free key: nobody else's is touched.
LEMMA MakeKeeps ==
    ASSUME MainInv, NEW m \in Instances, NEW o \in Objects, NEW k \in Keys,
           Make(m, o, k), ids[m][o] = Nobody, KeyOf(m, o)' = k,
           \A n \in Instances, p \in Objects : (n # m \/ p # o) => KeyOf(n, p)' = KeyOf(n, p)
    PROVE  OwnIds' /\ Held' /\ Accounted'
  <1> USE DEF MainInv
  <1>1. /\ owner[k] = Nobody
        /\ owner' = [owner EXCEPT ![k] = m]
        /\ ids' = [ids EXCEPT ![m][o] = m]
    BY DEF Make
  <1>2. OwnIds'
    BY <1>1 DEF OwnIds, Types
  <1>3. Held'
    <2> SUFFICES ASSUME NEW n \in Instances, NEW p \in Objects, ids'[n][p] = n
                 PROVE  owner'[KeyOf(n, p)'] = n
      BY DEF Held, KeyOf
    <2>1. CASE n = m /\ p = o
      BY <1>1, <2>1 DEF Types
    <2>2. CASE n # m \/ p # o
      <3>1. ids[n][p] = n
        BY <1>1, <2>2 DEF Types
      <3>2. owner[KeyOf(n, p)] = n
        BY <3>1 DEF Held
      <3> QED BY <1>1, <2>2, <3>2, NobodyIsNone, KeysDiffer DEF Types
    <2> QED BY <2>1, <2>2
  <1>4. Accounted'
    <2> SUFFICES ASSUME NEW n \in Instances, NEW l \in Keys, owner'[l] = n
                 PROVE  \E p \in Objects : ids'[n][p] = n /\ KeyOf(n, p)' = l
      BY DEF Accounted, KeyOf
    <2>1. CASE l = k
      BY <1>1, <2>1 DEF Types
    <2>2. CASE l # k
      <3>1. owner[l] = n
        BY <1>1, <2>2 DEF Types
      <3>2. PICK p \in Objects : ids[n][p] = n /\ KeyOf(n, p) = l
        BY <3>1 DEF Accounted
      <3>3. n # m \/ p # o
        BY <3>2, NobodyIsNone
      <3> QED BY <1>1, <3>2, <3>3 DEF Types
    <2> QED BY <2>1, <2>2
  <1> QED BY <1>2, <1>3, <1>4

\* In set-up no child runs yet.
LEMMA NoChildYet ==
    ASSUME MainInv, NEW m \in Instances, main_pc[m] \in Objects
    PROVE  \A c \in Children : children[m][c] # "running"
  BY DEF MainInv, Serving, Objects, Segments, Semaphores

\* shm_create: the segment is made, main has not moved.
LEMMA CreateSegmentKeeps ==
    ASSUME MainInv, NEW m \in Instances, NEW o \in Segments, NEW k \in Keys,
           CreateSegment(m, o, k)
    PROVE  MainInv'
  <1> USE DEF MainInv
  <1>0. o \in Objects
    BY DEF Objects
  <1>1. /\ main_pc[m] = o
        /\ ids[m][o] = Nobody
        /\ k = o \/ (o = "stack" /\ k = NoKey)
        /\ owner' = [owner EXCEPT ![k] = m]
        /\ ids' = [ids EXCEPT ![m][o] = m]
        /\ stack_key' = [stack_key EXCEPT ![m] = IF o = "stack" THEN k ELSE @]
        /\ UNCHANGED <<main_pc, attached, children>>
    BY DEF CreateSegment, Make
  <1>2. Types'
    BY <1>0, <1>1 DEF Types
  <1>3. /\ KeyOf(m, o)' = k
        /\ \A n \in Instances, p \in Objects : (n # m \/ p # o) => KeyOf(n, p)' = KeyOf(n, p)
    BY <1>0, <1>1 DEF KeyOf, Types
  <1>4. OwnIds' /\ Held' /\ Accounted'
    BY <1>0, <1>1, <1>3, MakeKeeps DEF CreateSegment
  <1>5. o \in SettingUp /\ Place[o] \in 1..9
    BY <1>0, NextPlace DEF SettingUp
  <1>6. InOrder'
    <2>1. ~(Place[o] > Place[o]) /\ ~(Place[o] < Place[o]) /\ o # "start"
      BY <1>5 DEF SettingUp, Objects, Segments, Semaphores, Children
    <2> SUFFICES ASSUME NEW n \in Instances, NEW p \in Objects
                 PROVE  /\ main_pc[n] = "start" => ids'[n][p] = Nobody
                        /\ (main_pc[n] \in SettingUp /\ Place[p] < Place[main_pc[n]]) =>
                               ids'[n][p] = n /\ (p \in Segments => p \in attached[n])
                        /\ (main_pc[n] \in SettingUp /\ Place[p] > Place[main_pc[n]]) =>
                               ids'[n][p] = Nobody
      BY <1>1 DEF InOrder
    <2>2. CASE n = m /\ p = o
      BY <1>1, <2>1, <2>2
    <2>3. CASE n # m \/ p # o
      <3>1. ids'[n][p] = ids[n][p]
        BY <1>1, <2>3 DEF Types
      <3> QED BY <3>1 DEF InOrder
    <2> QED BY <2>2, <2>3
  <1>7. OneUnattached'
    <2>1. ASSUME NEW p \in Segments \ attached[m], ids[m][p] = m PROVE FALSE
      <3>1. p \in SettingUp /\ p \in Objects /\ Place[p] \in 1..9
        BY NextPlace DEF SettingUp, Objects
      <3>2. ~(Place[p] < Place[o]) /\ ~(Place[p] > Place[o])
        BY <1>1, <1>5, <2>1, <3>1, NobodyIsNone DEF InOrder
      <3>3. p = o
        BY <1>5, <3>1, <3>2, Places
      <3> QED BY <1>1, <2>1, <3>3, NobodyIsNone
    <2>2. \A p \in Segments \ attached[m] : ids'[m][p] = m => p = o
      BY <1>1, <2>1 DEF Types, Objects
    <2>3. \A n \in Instances : n # m => ids'[n] = ids[n]
      BY <1>1 DEF Types
    <2> QED BY <1>1, <2>2, <2>3 DEF OneUnattached
  <1>8. Serving'
    BY <1>0, <1>1, NoChildYet DEF Serving, Types
  <1>9. Cleared'
    BY <1>0, <1>1 DEF Cleared, Types, Objects, Segments, Semaphores
  <1> QED BY <1>2, <1>4, <1>6, <1>7, <1>8, <1>9

\* main goes on from an object it has made, and attached if it is a segment.
LEMMA AdvanceInOrder ==
    ASSUME MainInv, NEW m \in Instances, NEW o \in Objects,
           main_pc[m] = o, main_pc' = [main_pc EXCEPT ![m] = After[o]],
           ids'[m][o] = m, o \in Segments => o \in attached'[m],
           \A n \in Instances, p \in Objects : (n # m \/ p # o) =>
               ids'[n][p] = ids[n][p] /\ (p \in attached[n] => p \in attached'[n])
    PROVE  InOrder'
  <1> USE DEF MainInv
  <1>1. /\ o \in SettingUp
        /\ After[o] \in SettingUp
        /\ After[o] # "start"
        /\ Place[After[o]] = Place[o] + 1
        /\ Place[o] \in 1..9
    BY NextPlace DEF SettingUp, Objects, Segments, Semaphores, Children
  <1> SUFFICES ASSUME NEW n \in Instances, NEW p \in Objects
               PROVE  /\ main_pc'[n] = "start" => ids'[n][p] = Nobody
                      /\ (main_pc'[n] \in SettingUp /\ Place[p] < Place[main_pc'[n]]) =>
                             ids'[n][p] = n /\ (p \in Segments => p \in attached'[n])
                      /\ (main_pc'[n] \in SettingUp /\ Place[p] > Place[main_pc'[n]]) =>
                             ids'[n][p] = Nobody
    BY DEF InOrder
  <1>2. CASE n # m
    <2>1. main_pc'[n] = main_pc[n]
      BY <1>2 DEF Types
    <2> QED BY <1>2, <2>1 DEF InOrder
  <1>3. CASE n = m
    <2>1. main_pc'[m] = After[o]
      BY DEF Types
    <2>2. p \in SettingUp /\ Place[p] \in 1..9
      BY NextPlace DEF SettingUp
    <2>3. CASE p = o
      BY <1>1, <1>3, <2>1, <2>2, <2>3
    <2>4. CASE p # o
      <3>1. Place[p] # Place[o]
        BY <1>1, <2>2, <2>4, Places
      <3>2. Place[p] < Place[After[o]] => Place[p] < Place[o]
        BY <1>1, <2>2, <3>1
      <3>3. Place[p] > Place[After[o]] => Place[p] > Place[o]
        BY <1>1, <2>2
      <3>4. /\ Place[p] < Place[o] => ids[m][p] = m /\ (p \in Segments => p \in attached[m])
            /\ Place[p] > Place[o] => ids[m][p] = Nobody
        BY <1>1 DEF InOrder
      <3> QED BY <1>1, <1>3, <2>1, <2>4, <3>2, <3>3, <3>4
    <2> QED BY <2>3, <2>4
  <1> QED BY <1>2, <1>3

\* shm_attach.
LEMMA AttachSegmentKeeps ==
    ASSUME MainInv, NEW m \in Instances, NEW o \in Segments, AttachSegment(m, o)
    PROVE  MainInv'
  <1> USE DEF MainInv
  <1>0. o \in Objects
    BY DEF Objects
  <1>1. /\ main_pc[m] = o
        /\ ids[m][o] # Nobody
        /\ attached' = [attached EXCEPT ![m] = @ \cup {o}]
        /\ main_pc' = [main_pc EXCEPT ![m] = After[o]]
        /\ UNCHANGED <<owner, ids, stack_key, children>>
    BY DEF AttachSegment, Advance
  <1>2. ids[m][o] = m
    BY <1>0, <1>1 DEF OwnIds
  <1>3. After[o] \in SettingUp /\ After[o] \notin Closing
    BY DEF After, Segments, SettingUp, Objects, Semaphores, Closing
  <1>4. Types'
    BY <1>1, <1>3 DEF Types
  <1>5. OwnIds' /\ Held' /\ Accounted'
    BY <1>1 DEF OwnIds, Held, Accounted, KeyOf
  <1>6. InOrder'
    BY <1>0, <1>1, <1>2, AdvanceInOrder DEF Types
  <1>7. OneUnattached'
    BY <1>1 DEF OneUnattached, Types
  <1>8. Serving'
    BY <1>0, <1>1, NoChildYet DEF Serving, Types
  <1>9. Cleared'
    <2>1. After[o] # "exited" /\ o # "exited"
      BY <1>3 DEF Closing, Segments
    <2> QED BY <1>1, <2>1 DEF Cleared, Types
  <1> QED BY <1>4, <1>5, <1>6, <1>7, <1>8, <1>9

\* semaphore_create and fifo_sem_create.
LEMMA CreateOtherKeeps ==
    ASSUME MainInv, NEW m \in Instances, NEW o \in Objects \ Segments,
           CreateSemaphore(m, o) \/ (o = "gate_fifo" /\ CreateFifo(m))
    PROVE  MainInv'
  <1> USE DEF MainInv
  <1>1. /\ main_pc[m] = o
        /\ Make(m, o, o)
        /\ main_pc' = [main_pc EXCEPT ![m] = After[o]]
        /\ UNCHANGED <<attached, stack_key, children>>
    BY DEF CreateSemaphore, CreateFifo, Advance
  <1>2. /\ owner[o] = Nobody
        /\ owner' = [owner EXCEPT ![o] = m]
        /\ ids' = [ids EXCEPT ![m][o] = m]
    BY <1>1 DEF Make
  <1>3. After[o] \in SettingUp /\ After[o] \notin Closing
    BY DEF After, Segments, SettingUp, Objects, Semaphores, Closing, Children
  <1>4. Types'
    BY <1>1, <1>2, <1>3 DEF Types
  <1>5. o \in Keys /\ o # "stack"
    BY DEF Keys, Segments
  <1>6. /\ KeyOf(m, o) = o
        /\ \A n \in Instances, p \in Objects : KeyOf(n, p)' = KeyOf(n, p)
    BY <1>1, <1>5 DEF KeyOf
  <1>7. ids[m][o] = Nobody
    BY <1>2, <1>6, NobodyIsNone DEF OwnIds, Held
  <1>8. OwnIds' /\ Held' /\ Accounted'
    BY <1>1, <1>5, <1>6, <1>7, MakeKeeps
  <1>9. InOrder'
    BY <1>1, <1>2, AdvanceInOrder DEF Types
  <1>10. OneUnattached'
    BY <1>1, <1>2 DEF OneUnattached, Types, Objects
  <1>11. Serving'
    BY <1>1, <1>2, NoChildYet DEF Serving, Types
  <1>12. Cleared'
    <2>1. After[o] # "exited" /\ o # "exited"
      BY <1>3 DEF Closing, Objects, Segments, Semaphores
    <2> QED BY <1>1, <1>2, <2>1 DEF Cleared, Types
  <1> QED BY <1>4, <1>8, <1>9, <1>10, <1>11, <1>12

\* A semaphore_create that fails leaves the kernel's table as it found it:
\* IPC_RMID removes the set just made, or for -1 nothing at all.
LEMMA SetvalCleansUp ==
    ASSUME Types, NEW m \in Instances, NEW o \in Semaphores, SetvalFails(m, o)
    PROVE  CreateFails(m)
  <1>1. o \in Keys /\ o \in Objects
    BY DEF Keys, Objects
  <1>2. owner \in [Keys -> Instances \cup {Nobody}] /\ m # Nobody
    BY NobodyIsNone DEF Types
  <1>3. PICK id \in {m, Nobody} :
            /\ id = m => owner[o] = Nobody
            /\ owner' = Removed(IF id = m THEN [owner EXCEPT ![o] = m] ELSE owner, o, id)
    BY DEF SetvalFails
  <1>4. CASE id = m
    <2>1. owner' = [[owner EXCEPT ![o] = m] EXCEPT ![o] = Nobody]
      BY <1>1, <1>2, <1>3, <1>4 DEF Removed
    <2> QED BY <1>1, <1>2, <1>3, <1>4, <2>1 DEF SetvalFails, CreateFails
  <1>5. CASE id = Nobody
    <2>1. owner' = [owner EXCEPT ![o] = owner[o]]
      BY <1>1, <1>2, <1>3, <1>5 DEF Removed
    <2> QED BY <1>1, <1>2, <2>1 DEF SetvalFails, CreateFails
  <1> QED BY <1>3, <1>4, <1>5

\* A segment, a semaphore or the pipe that close_main removes is its own.
LEMMA DestroysOwn ==
    ASSUME MainInv, NEW m \in Instances, NEW o \in Objects, Destroy(m, o)
    PROVE  /\ ids[m][o] = m
           /\ owner[KeyOf(m, o)] = m
           /\ owner' = [owner EXCEPT ![KeyOf(m, o)] = Nobody]
  <1>1. ids[m][o] = m
    BY DEF MainInv, OwnIds, Destroy, Due
  <1>2. owner[KeyOf(m, o)] = m
    BY <1>1 DEF MainInv, Held
  <1>3. o = "gate_fifo" => KeyOf(m, o) = o
    BY DEF KeyOf
  <1> QED BY <1>1, <1>2, <1>3 DEF Destroy, Removed, MainInv, Types

LEMMA DestroyKeeps ==
    ASSUME MainInv, NEW m \in Instances, NEW o \in Objects, Destroy(m, o)
    PROVE  MainInv'
  <1> USE DEF MainInv
  <1>1. /\ main_pc[m] = "destroy"
        /\ ids' = [ids EXCEPT ![m][o] = Nobody]
        /\ attached' = [attached EXCEPT ![m] = @ \ {o}]
        /\ UNCHANGED <<main_pc, stack_key, children>>
    BY DEF Destroy
  <1>2. /\ ids[m][o] = m
        /\ owner[KeyOf(m, o)] = m
        /\ owner' = [owner EXCEPT ![KeyOf(m, o)] = Nobody]
    BY DestroysOwn
  <1>3. \A n \in Instances, p \in Objects : KeyOf(n, p)' = KeyOf(n, p)
    BY <1>1 DEF KeyOf
  <1>4. Types'
    BY <1>1, <1>2 DEF Types
  <1>5. OwnIds'
    BY <1>1 DEF OwnIds, Types
  <1>6. Held'
    <2> SUFFICES ASSUME NEW n \in Instances, NEW p \in Objects, ids'[n][p] = n
                 PROVE  owner'[KeyOf(n, p)] = n
      BY <1>3 DEF Held
    <2>1. n # m \/ p # o
      BY <1>1, NobodyIsNone DEF Types
    <2>2. ids[n][p] = n
      BY <1>1, <2>1 DEF Types
    <2>3. owner[KeyOf(n, p)] = n /\ KeyOf(n, p) \in Keys
      BY <2>2, KeysDiffer DEF Held
    <2>4. KeyOf(n, p) # KeyOf(m, o)
      BY <1>2, <2>1, <2>3, KeysDiffer
    <2> QED BY <1>2, <2>3, <2>4 DEF Types
  <1>7. Accounted'
    <2> SUFFICES ASSUME NEW n \in Instances, NEW k \in Keys, owner'[k] = n
                 PROVE  \E p \in Objects : ids'[n][p] = n /\ KeyOf(n, p) = k
      BY <1>3 DEF Accounted
    <2>1. k # KeyOf(m, o) /\ owner[k] = n
      BY <1>2, NobodyIsNone, KeysDiffer DEF Types
    <2>2. PICK p \in Objects : ids[n][p] = n /\ KeyOf(n, p) = k
      BY <2>1 DEF Accounted
    <2>3. n # m \/ p # o
      BY <2>1, <2>2
    <2> QED BY <1>1, <2>2, <2>3 DEF Types
  <1>8. \A n \in Instances : n # m => ids'[n] = ids[n] /\ attached'[n] = attached[n]
    BY <1>1 DEF Types
  <1>9. \A p \in Objects : ids'[m][p] = m =>
            ids[m][p] = m /\ (p \in attached[m] <=> p \in attached'[m])
    BY <1>1, NobodyIsNone DEF Types
  <1>10. "destroy" \notin SettingUp
    BY DEF SettingUp, Objects, Segments, Semaphores, Children
  <1>11. InOrder'
    BY <1>1, <1>8, <1>10 DEF InOrder
  <1>12. OneUnattached'
    BY <1>8, <1>9 DEF OneUnattached, Objects
  <1>13. Serving'
    BY <1>1, <1>8 DEF Serving
  <1>14. Cleared'
    BY <1>1, <1>8 DEF Cleared
  <1> QED BY <1>4, <1>5, <1>6, <1>7, <1>11, <1>12, <1>13, <1>14

-----------------------------------------------------------------------------
(* The theorems.                                                           *)

LEMMA InitInv == MainInit => MainInv
  <1> SUFFICES ASSUME MainInit PROVE MainInv
    OBVIOUS
  <1> USE DEF MainInit
  <1>1. Types
    BY DEF Types
  <1>2. OwnIds /\ Held /\ Accounted /\ OneUnattached /\ Cleared
    BY NobodyIsNone DEF OwnIds, Held, Accounted, OneUnattached, Cleared, Objects
  <1>3. InOrder /\ Serving
    BY DEF InOrder, Serving, SettingUp, Objects, Segments, Semaphores, Children
  <1> QED BY <1>1, <1>2, <1>3 DEF MainInv

LEMMA StepInv == MainInv /\ [MainNext]_mainVars => MainInv'
  <1> SUFFICES ASSUME MainInv, [MainNext]_mainVars PROVE MainInv'
    OBVIOUS
  <1>1. CASE UNCHANGED mainVars
    BY <1>1 DEF mainVars, MainInv, Types, OwnIds, Held, Accounted, InOrder, OneUnattached,
         Serving, Cleared, KeyOf
  <1>2. ASSUME NEW m \in Instances, MainDo(m) PROVE MainInv'
    <2>1. \A o \in Semaphores : o \in Objects \ Segments
      BY DEF Semaphores, Objects, Segments
    <2>2. "gate_fifo" \in Objects \ Segments
      BY DEF Objects, Segments
    <2>3. \A o \in Semaphores : SetvalFails(m, o) => CreateFails(m)
      BY SetvalCleansUp DEF MainInv
    <2> QED BY <1>2, <2>1, <2>2, <2>3, MovesKeep, ChildrenKeep, CreateSegmentKeeps,
             AttachSegmentKeeps, CreateOtherKeeps, DestroyKeeps DEF MainDo
  <1>3. ASSUME NEW m \in Instances, Kill(m) PROVE MainInv'
    BY <1>3, MovesKeep
  <1>4. ASSUME NEW m \in Instances, NEW c \in Children, ChildEnds(m, c) PROVE MainInv'
    BY <1>4, ChildrenKeep
  <1> QED BY <1>1, <1>2, <1>3, <1>4 DEF MainNext, AllEnded

LEMMA MainInvariant == MainSpec => []MainInv
  BY InitInv, StepInv, PTL DEF MainSpec

\* An operator or a commander never runs without the seven objects of its own
\* main, whatever other executions do and whichever main is killed: main forks
\* with everything made, waits for both before it destroys (main.c:433,
\* main.c:449), and nobody removes what another made.
THEOREM Served == MainSpec => []ChildrenServed
  <1>1. MainInv => ChildrenServed
    BY DEF MainInv, Serving, Held, ChildrenServed
  <1> QED BY <1>1, MainInvariant, PTL

\* What a main that was not killed leaves behind is at most the one segment
\* it made and could not attach (main.c:466, main.c:478, main.c:491).
THEOREM LeftBehind == MainSpec => []LeavesUnattachedOnly
  <1>1. MainInv => LeavesUnattachedOnly
    <2> SUFFICES ASSUME MainInv, NEW m \in Instances, main_pc[m] = "exited",
                        NEW k \in Keys, NEW l \in Keys, owner[k] = m, owner[l] = m
                 PROVE  /\ k = l
                        /\ \E o \in Segments \ attached[m] : ids[m][o] = m /\ k = KeyOf(m, o)
      BY DEF LeavesUnattachedOnly
    <2>1. PICK o \in Objects : ids[m][o] = m /\ KeyOf(m, o) = k
      BY DEF MainInv, Accounted
    <2>2. PICK p \in Objects : ids[m][p] = m /\ KeyOf(m, p) = l
      BY DEF MainInv, Accounted
    <2>3. o \in Segments \ attached[m] /\ p \in Segments \ attached[m]
      BY <2>1, <2>2 DEF MainInv, Cleared
    <2>4. o = p
      BY <2>1, <2>2, <2>3 DEF MainInv, OneUnattached
    <2> QED BY <2>1, <2>2, <2>3, <2>4
  <1> QED BY <1>1, MainInvariant, PTL

\* An object disappears only in the close_main of the instance that made it,
\* the pipe included, although fifo_sem_destroy removes it by its name
\* (fifo.c:223).
THEOREM OwnDestroyed == MainSpec => OnlyOwnDestroyed
  <1> DEFINE Removal == \A k \in Keys : (owner[k] # Nobody /\ owner'[k] # owner[k]) =>
                            owner'[k] = Nobody /\ main_pc[owner[k]] = "destroy"
  <1>1. MainInv /\ [MainNext]_mainVars => [Removal]_mainVars
    <2> SUFFICES ASSUME MainInv, MainNext, NEW k \in Keys,
                        owner[k] # Nobody, owner'[k] # owner[k]
                 PROVE  owner'[k] = Nobody /\ main_pc[owner[k]] = "destroy"
      OBVIOUS
    <2>0. owner \in [Keys -> Instances \cup {Nobody}]
      BY DEF MainInv, Types
    <2>1. ASSUME NEW m \in Instances, NEW o, NEW l \in Keys, Make(m, o, l) PROVE FALSE
      BY <2>0, <2>1 DEF Make
    <2>2. ASSUME NEW m \in Instances, NEW o \in Objects, Destroy(m, o)
          PROVE  owner'[k] = Nobody /\ main_pc[owner[k]] = "destroy"
      <3>1. main_pc[m] = "destroy"
        BY <2>2 DEF Destroy
      <3>2. owner[KeyOf(m, o)] = m /\ owner' = [owner EXCEPT ![KeyOf(m, o)] = Nobody]
        BY <2>2, DestroysOwn
      <3> QED BY <2>0, <3>1, <3>2
    <2>3. \A o \in Objects : o \in Keys
      BY DEF Keys
    <2>4. PICK m \in Instances :
              (\E o \in Objects, l \in Keys : Make(m, o, l)) \/ (\E o \in Objects : Destroy(m, o))
      <3>1. Segments \subseteq Objects /\ Semaphores \subseteq Objects /\ "gate_fifo" \in Objects
        BY DEF Objects
      <3>2. \A m \in Instances, o \in Semaphores : SetvalFails(m, o) => CreateFails(m)
        BY SetvalCleansUp DEF MainInv
      <3> QED BY <2>3, <3>1, <3>2 DEF MainNext, MainDo, ProcessArgv, AttachSegment,
           CreateSegment, CreateSemaphore, CreateFifo, CreateFails, CreatChild,
           JoinChild, MainExit, Kill, ChildEnds, AllEnded, mainVars
    <2> QED BY <2>1, <2>2, <2>4
  <1> QED BY <1>1, MainInvariant, PTL DEF MainSpec, OnlyOwnDestroyed
=============================================================================
