------------------------- MODULE NodeThreadsProofs --------------------------
(***************************************************************************)
(* The two threads of a node beside its execution loop.                    *)
(*                                                                         *)
(* command_queue (CommandQueue) loses no command, doubles none and keeps   *)
(* their order, for every size of the buffer that is larger than the       *)
(* number of callers.                                                      *)
(*                                                                         *)
(* The failure detector (Heartbeat) has its reasons, whatever machines     *)
(* join, crash and answer, for every number of descriptors.                *)
(***************************************************************************)
EXTENDS CommandQueue, Heartbeat, FiniteSetTheorems, SequenceTheorems, TLAPS

\* What the two threads have in hand at which line.
HandInv ==
    /\ new_command # None <=> accept_pc \in {"lock", "enqueue"}
    /\ cmd # None <=> exec_pc \in {"found", "run"}

\* The thread between lock and unlock is the one that holds the mutex.
MutexInv ==
    /\ accept_pc \in {"enqueue", "unlock"} <=> mutex = "accept thread"
    /\ exec_pc \in {"dequeue", "found", "empty"} <=> mutex = "execution loop"

\* The two threads are never both between lock and unlock, where they read and
\* write the indices: what makes enqueue and dequeue one step each.
MutualExclusion ==
    ~(accept_pc \in {"enqueue", "unlock"} /\ exec_pc \in {"dequeue", "found", "empty"})

\* OnePlace without its last part, which follows from the others.
Apart ==
    /\ \A i, j \in 1 .. Held : Content[i] = Content[j] => i = j
    /\ \A i \in 1 .. Held : Content[i] \notin connected \cup {new_command, cmd, None}
    /\ connected \cap {new_command, cmd} = {}
    /\ new_command = cmd => cmd = None

\* The inductive invariant.
IInv == TypeOK /\ HandInv /\ MutexInv /\ Apart

-----------------------------------------------------------------------------
(* The ring of the indices *)

\* How many slots there are from index f up to index l, the one before l
\* included, and the i-th of them.
Between(f, l) == (l - f) % TotalSize
Slot(f, i) == (f + i - 1) % TotalSize
After(f) == (f + 1) % TotalSize

\* The remainders the indices need.
LEMMA Remainders ==
    ASSUME NEW f \in Index, NEW l \in Index
    PROVE  /\ TotalSize \in Nat \ {0}
           /\ Between(f, l) = IF f <= l THEN l - f ELSE l - f + TotalSize
           /\ After(f) = IF f + 1 = TotalSize THEN 0 ELSE f + 1
           /\ \A i \in 1 .. TotalSize :
                 Slot(f, i) = IF f + i - 1 < TotalSize THEN f + i - 1
                                                      ELSE f + i - 1 - TotalSize
<1>1. TotalSize \in Nat \ {0}
  BY SizeAssumption DEF Index
<1>2. Between(f, l) = IF f <= l THEN l - f ELSE l - f + TotalSize
  BY <1>1 DEF Between, Index
<1>3. After(f) = IF f + 1 = TotalSize THEN 0 ELSE f + 1
  BY <1>1 DEF After, Index
<1>4. ASSUME NEW i \in 1 .. TotalSize
      PROVE  Slot(f, i) = IF f + i - 1 < TotalSize THEN f + i - 1
                                                  ELSE f + i - 1 - TotalSize
  BY <1>1 DEF Slot, Index
<1> QED
  BY <1>1, <1>2, <1>3, <1>4

\* The slots in use are slots, and none of them is the next free one.
LEMMA SlotsInUse ==
    ASSUME NEW f \in Index, NEW l \in Index
    PROVE  /\ Between(f, l) \in 0 .. TotalSize - 1
           /\ Between(f, l) = 0 <=> f = l
           /\ \A i \in 1 .. Between(f, l) : Slot(f, i) \in Index /\ Slot(f, i) # l
           /\ f # l => Slot(f, 1) = f
           /\ After(f) \in Index
<1>1. Between(f, l) \in 0 .. TotalSize - 1 /\ (Between(f, l) = 0 <=> f = l)
  BY Remainders DEF Index
<1>2. ASSUME NEW i \in 1 .. Between(f, l) PROVE Slot(f, i) \in Index /\ Slot(f, i) # l
  <2>1. i \in 1 .. TotalSize
    BY <1>1, Remainders
  <2> QED
    BY <1>1, <2>1, Remainders DEF Index
<1>3. 1 \in 1 .. TotalSize
  BY Remainders
<1>4. Slot(f, 1) = f /\ After(f) \in Index
  BY <1>3, Remainders DEF Index
<1> QED
  BY <1>1, <1>2, <1>4

\* The index of the next free slot moves on: one more slot in use, the last.
LEMMA OneMoreSlot ==
    ASSUME NEW f \in Index, NEW l \in Index, Between(f, l) < TotalSize - 1
    PROVE  /\ Between(f, After(l)) = Between(f, l) + 1
           /\ Slot(f, Between(f, l) + 1) = l
<1>1. Between(f, l) \in 0 .. TotalSize - 1 /\ After(l) \in Index
  BY SlotsInUse
<1>2. Between(f, l) + 1 \in 1 .. TotalSize
  BY <1>1, Remainders
<1>3. Slot(f, Between(f, l) + 1) = l
  BY <1>1, <1>2, Remainders DEF Index
<1>4. Between(f, After(l)) = Between(f, l) + 1
  <2> DEFINE m == After(l)
  <2>1. m \in Index /\ m = IF l + 1 = TotalSize THEN 0 ELSE l + 1
    BY <1>1, Remainders
  <2> HIDE DEF m
  <2>2. /\ Between(f, m) = IF f <= m THEN m - f ELSE m - f + TotalSize
        /\ Between(f, l) = IF f <= l THEN l - f ELSE l - f + TotalSize
    BY <2>1, Remainders
  <2>3. TotalSize \in Nat \ {0} /\ f \in 0 .. TotalSize - 1 /\ l \in 0 .. TotalSize - 1
    BY Remainders DEF Index
  <2>4. Between(f, m) = Between(f, l) + 1
    BY <2>1, <2>2, <2>3
  <2> QED
    BY <2>4 DEF m
<1> QED
  BY <1>3, <1>4

\* The index of the first slot in use moves on: one slot less.
LEMMA OneSlotLess ==
    ASSUME NEW f \in Index, NEW l \in Index, f # l
    PROVE  /\ Between(After(f), l) = Between(f, l) - 1
           /\ \A i \in 1 .. Between(f, l) - 1 : Slot(After(f), i) = Slot(f, i + 1)
<1>1. Between(f, l) \in 1 .. TotalSize - 1 /\ After(f) \in Index
  BY SlotsInUse
<1>2. Between(After(f), l) = Between(f, l) - 1
  BY <1>1, Remainders DEF Index
<1>3. ASSUME NEW i \in 1 .. Between(f, l) - 1
      PROVE  Slot(After(f), i) = Slot(f, i + 1)
  <2>1. i \in 1 .. TotalSize /\ i + 1 \in 1 .. TotalSize
    BY <1>1, Remainders
  <2> DEFINE g == After(f)
  <2>2. g \in Index /\ g = IF f + 1 = TotalSize THEN 0 ELSE f + 1
    BY <1>1, Remainders
  <2> HIDE DEF g
  <2>3. /\ Slot(g, i) = IF g + i - 1 < TotalSize THEN g + i - 1
                                                ELSE g + i - 1 - TotalSize
        /\ Slot(f, i + 1) = IF f + (i + 1) - 1 < TotalSize
                            THEN f + (i + 1) - 1 ELSE f + (i + 1) - 1 - TotalSize
    BY <2>1, <2>2, Remainders
  <2>4. TotalSize \in Nat \ {0} /\ f \in 0 .. TotalSize - 1
    BY Remainders DEF Index
  <2>5. Slot(g, i) = Slot(f, i + 1)
    BY <2>1, <2>2, <2>3, <2>4
  <2> QED
    BY <2>5 DEF g
<1> QED
  BY <1>2, <1>3

-----------------------------------------------------------------------------
(* What is in the buffer *)

\* The buffer in terms of its slots.
LEMMA Slots ==
    ASSUME TypeOK
    PROVE  /\ Held = Between(first_ocupied_space, last_free_space)
           /\ Held \in 0 .. TotalSize - 1
           /\ \A i \in 1 .. Held : /\ Content[i] = array[Slot(first_ocupied_space, i)]
                                   /\ Content[i] \in Caller \cup {None}
<1>1. first_ocupied_space \in Index /\ last_free_space \in Index
      /\ array \in [Index -> Caller \cup {None}]
  BY DEF TypeOK
<1>2. Held = Between(first_ocupied_space, last_free_space)
  BY DEF Held, Between
<1>3. \A i \in 1 .. Held : Content[i] = array[Slot(first_ocupied_space, i)]
  BY DEF Content, Slot
<1> QED
  BY <1>1, <1>2, <1>3, SlotsInUse

\* The buffer is a sequence of callers.
IsSequence == Content \in Seq(Caller) /\ Len(Content) = Held

LEMMA ContentType == ASSUME TypeOK, Apart PROVE IsSequence
<1>1. Held \in Nat /\ \A i \in 1 .. Held : Content[i] \in Caller
  BY Slots DEF Apart
<1>2. Content \in [1 .. Held -> Caller]
  BY <1>1 DEF Content
<1> HIDE DEF Content
<1> QED
  BY <1>1, <1>2 DEF IsSequence

\* Commands of callers X that are not in the buffer leave room in it: there are
\* never more commands than callers.
LEMMA RoomLeft ==
    ASSUME TypeOK, Apart, NEW X \in SUBSET Caller,
           \A i \in 1 .. Held : Content[i] \notin X
    PROVE  /\ IsFiniteSet(X) /\ Cardinality(X) \in Nat
           /\ Held + Cardinality(X) < TotalSize
<1> DEFINE C == {Content[i] : i \in 1 .. Held}
<1>1. /\ Held \in Nat /\ Content \in [1 .. Held -> Caller]
      /\ \A i, j \in 1 .. Held : Content[i] = Content[j] => i = j
  <2>1. Held \in Nat /\ \A i \in 1 .. Held : Content[i] \in Caller
    BY Slots DEF Apart
  <2> QED
    BY <2>1 DEF Apart, Content
<1> HIDE DEF Held, Content
<1>2. C \subseteq Caller /\ C \cap X = {}
  BY <1>1
<1>3. IsFiniteSet(Caller) /\ IsFiniteSet(C) /\ IsFiniteSet(X)
  BY <1>2, CallerAssumption, FS_Subset
<1>4. Cardinality(C) = Held
  <2>1. Content \in Bijection(1 .. Held, C)
    BY <1>1 DEF Bijection, Injection, Surjection, IsInjective
  <2>2. ExistsBijection(1 .. Held, C)
    BY <2>1 DEF ExistsBijection
  <2> HIDE DEF C
  <2> QED
    BY <1>1, <2>2, FS_CountingElements
<1> HIDE DEF C
<1>5. Cardinality(C \cup X) = Cardinality(C) + Cardinality(X)
  <2>1. Cardinality(C \cap X) = 0
    BY <1>2, FS_EmptySet
  <2>2. Cardinality(C \cup X) = Cardinality(C) + Cardinality(X) - Cardinality(C \cap X)
    BY <1>3, FS_Union
  <2>3. Cardinality(C) \in Nat /\ Cardinality(X) \in Nat
    BY <1>3, FS_CardinalityType
  <2> QED
    BY <2>1, <2>2, <2>3
<1>6. Cardinality(C \cup X) <= Cardinality(Caller)
  BY <1>2, CallerAssumption, FS_Subset
<1>7. Cardinality(C) \in Nat /\ Cardinality(X) \in Nat /\ Cardinality(Caller) \in Nat
  BY <1>3, FS_CardinalityType
<1> QED
  BY <1>3, <1>4, <1>5, <1>6, <1>7, SizeAssumption

\* OnePlace is no more than Apart.
LEMMA ApartSuffices == ASSUME TypeOK, Apart PROVE OnePlace
<1>1. connected \in SUBSET Caller /\ \A i \in 1 .. Held : Content[i] \notin connected
  BY DEF TypeOK, Apart
<1>2. Held + Cardinality(connected) < TotalSize
  BY <1>1, RoomLeft
<1> QED
  BY <1>2 DEF Apart, OnePlace

-----------------------------------------------------------------------------
(* The two steps that change the buffer *)

\* enqueue appends the command in hand: its slot is none of those in use, and
\* the indices do not come to be equal.
LEMMA EnqueueStep ==
    ASSUME IInv, Enqueue
    PROVE  /\ new_command \in Caller
           /\ array' \in [Index -> Caller \cup {None}]
           /\ last_free_space' \in Index
           /\ Held' = Held + 1
           /\ \A i \in 1 .. Held : Content'[i] = Content[i]
           /\ Content'[Held + 1] = new_command
<1> DEFINE f == first_ocupied_space
           l == last_free_space
<1>1. /\ f \in Index /\ l \in Index /\ f' = f /\ l' = After(l)
      /\ array \in [Index -> Caller \cup {None}]
      /\ array' = [array EXCEPT ![l] = new_command]
      /\ new_command \in Caller
  BY DEF IInv, TypeOK, HandInv, Enqueue, After
<1>2. Held < TotalSize - 1
  <2>1. TypeOK /\ Apart /\ {new_command} \in SUBSET Caller
    BY <1>1 DEF IInv
  <2>2. \A i \in 1 .. Held : Content[i] \notin {new_command}
    BY <2>1 DEF Apart
  <2>3. Held + Cardinality({new_command}) < TotalSize
    BY <2>1, <2>2, RoomLeft
  <2>4. Cardinality({new_command}) = 1
    BY FS_Singleton
  <2> QED
    BY <2>3, <2>4, Slots, Remainders, <1>1 DEF IInv
<1>3. /\ Held = Between(f, l) /\ Held \in Nat
      /\ \A i \in 1 .. Held : Content[i] = array[Slot(f, i)]
  BY Slots DEF IInv
<1>4. Held' = Between(f, After(l)) /\ After(l) \in Index
  BY <1>1, SlotsInUse DEF Held, Between
<1>5. Held' = Held + 1 /\ Slot(f, Held + 1) = l
  BY <1>1, <1>2, <1>3, <1>4, OneMoreSlot
<1>6. \A i \in 1 .. Held' : Content'[i] = array'[Slot(f, i)]
  BY <1>1 DEF Content, Slot
<1>7. \A i \in 1 .. Held : Slot(f, i) \in Index /\ Slot(f, i) # l
  BY <1>1, <1>3, SlotsInUse
<1> HIDE DEF f, l, Held, Content
<1>8. array' \in [Index -> Caller \cup {None}]
  BY <1>1
<1>9. ASSUME NEW i \in 1 .. Held PROVE Content'[i] = Content[i]
  BY <1>1, <1>3, <1>5, <1>6, <1>7
<1>10. Content'[Held + 1] = new_command
  BY <1>1, <1>3, <1>5, <1>6
<1> QED
  BY <1>1, <1>4, <1>5, <1>8, <1>9, <1>10 DEF l

\* dequeue takes the first command, and the others move up.
LEMMA DequeueStep ==
    ASSUME IInv, Dequeue
    PROVE  /\ first_ocupied_space' \in Index
           /\ Held \in Nat \ {0} /\ Held' = Held - 1
           /\ cmd' = Content[1] /\ cmd = None
           /\ \A i \in 1 .. Held - 1 : Content'[i] = Content[i + 1]
<1> DEFINE f == first_ocupied_space
           l == last_free_space
<1>1. /\ f \in Index /\ l \in Index /\ f # l /\ f' = After(f) /\ l' = l
      /\ array' = array /\ cmd' = array[f] /\ cmd = None
  BY DEF IInv, TypeOK, HandInv, Dequeue, NotEmpty, After
<1>2. /\ Held = Between(f, l) /\ Held \in Nat
      /\ \A i \in 1 .. Held : Content[i] = array[Slot(f, i)]
  BY Slots DEF IInv
<1>3. Held # 0 /\ Slot(f, 1) = f /\ After(f) \in Index
  BY <1>1, <1>2, SlotsInUse
<1>4. Held' = Between(After(f), l)
  BY <1>1 DEF Held, Between
<1>5. /\ Held' = Held - 1
      /\ \A i \in 1 .. Held - 1 : Slot(After(f), i) = Slot(f, i + 1)
  BY <1>1, <1>2, <1>4, OneSlotLess
<1>6. \A i \in 1 .. Held' : Content'[i] = array[Slot(After(f), i)]
  BY <1>1 DEF Content, Slot
<1> HIDE DEF f, l, Held, Content
<1>7. cmd' = Content[1]
  BY <1>1, <1>2, <1>3
<1>8. ASSUME NEW i \in 1 .. Held - 1 PROVE Content'[i] = Content[i + 1]
  BY <1>2, <1>5, <1>6
<1> QED
  BY <1>1, <1>2, <1>3, <1>5, <1>7, <1>8 DEF f

\* Every other step leaves the buffer as it is.
LEMMA BufferKept ==
    ASSUME UNCHANGED <<array, last_free_space, first_ocupied_space>>
    PROVE  Held' = Held /\ Content' = Content
<1>1. Held' = Held
  BY DEF Held
<1> QED
  BY <1>1 DEF Content

-----------------------------------------------------------------------------
(* The inductive invariant *)

LEMMA InitHolds == Init => IInv
<1> SUFFICES ASSUME Init PROVE IInv
  OBVIOUS
<1>1. 0 \in Index
  <2>1. Cardinality(Caller) \in Nat
    BY CallerAssumption, FS_CardinalityType
  <2> QED
    BY <2>1, SizeAssumption DEF Index
<1>2. TypeOK /\ HandInv /\ MutexInv
  BY <1>1, CallerAssumption DEF Init, TypeOK, HandInv, MutexInv
<1>3. Held = 0
  BY <1>1, <1>2, SlotsInUse, Slots DEF Init
<1>4. Apart
  BY <1>3 DEF Apart, Init
<1> QED
  BY <1>2, <1>4 DEF IInv

\* The steps of the threads keep what they have in hand and the mutex straight.
LEMMA ThreadsStep == IInv /\ [Next]_vars => HandInv' /\ MutexInv'
<1> SUFFICES ASSUME IInv, [Next]_vars PROVE HandInv' /\ MutexInv'
  OBVIOUS
<1>a. ASSUME Dequeue PROVE cmd' # None
  <2>1. 1 \in 1 .. Held /\ cmd' = Content[1]
    BY <1>a, DequeueStep
  <2> QED
    BY <2>1 DEF IInv, Apart
<1> USE CallerAssumption DEF IInv, TypeOK, HandInv, MutexInv
<1>1. CASE UNCHANGED vars
  BY <1>1 DEF vars
<1>2. ASSUME NEW c \in Caller, Connect(c) PROVE HandInv' /\ MutexInv'
  BY <1>2 DEF Connect
<1>3. ASSUME NEW c \in Caller, Accept(c) PROVE HandInv' /\ MutexInv'
  BY <1>3 DEF Accept
<1>4. CASE LockToEnqueue
  BY <1>4 DEF LockToEnqueue
<1>5. CASE Enqueue
  BY <1>5 DEF Enqueue
<1>6. CASE UnlockEnqueue
  BY <1>6 DEF UnlockEnqueue
<1>7. CASE LockToDequeue
  BY <1>7 DEF LockToDequeue
<1>8. CASE Dequeue
  BY <1>a, <1>8 DEF Dequeue
<1>9. CASE SleepLocked
  BY <1>9 DEF SleepLocked
<1>10. CASE UnlockDequeue
  BY <1>10 DEF UnlockDequeue
<1>11. CASE Run
  BY <1>11 DEF Run
<1> QED
  BY <1>1, <1>2, <1>3, <1>4, <1>5, <1>6, <1>7, <1>8, <1>9, <1>10, <1>11
  DEF Next, AcceptStep, ExecStep

\* No step loses a command, doubles one or overtakes the free slot.
LEMMA PlacesStep == IInv /\ [Next]_vars => TypeOK' /\ Apart'
<1> SUFFICES ASSUME IInv, [Next]_vars PROVE TypeOK' /\ Apart'
  OBVIOUS
<1>a. TypeOK /\ Apart /\ HandInv
  BY DEF IInv
<1>c. Held \in Nat /\ \A i \in 1 .. Held : Content[i] \in Caller
  BY <1>a, Slots DEF Apart
<1>b. ASSUME UNCHANGED <<array, last_free_space, first_ocupied_space>>
      PROVE  Held' = Held /\ Content' = Content
  BY <1>b, BufferKept
<1> HIDE DEF Held, Content
<1>1. CASE UNCHANGED vars
  BY <1>a, <1>b, <1>1 DEF vars, TypeOK, Apart
<1>2. ASSUME NEW c \in Caller, Connect(c) PROVE TypeOK' /\ Apart'
  BY <1>a, <1>b, <1>2, CallerAssumption DEF Connect, TypeOK, Waiting, Apart
<1>3. ASSUME NEW c \in Caller, Accept(c) PROVE TypeOK' /\ Apart'
  <2>1. /\ c \in connected /\ connected' = connected \ {c}
        /\ new_command = None /\ new_command' = c /\ cmd' = cmd
        /\ Held' = Held /\ Content' = Content
    BY <1>a, <1>b, <1>3 DEF Accept, HandInv
  <2>2. TypeOK'
    BY <1>a, <1>3 DEF Accept, TypeOK
  <2>3. connected \subseteq Caller /\ c # cmd
    BY <1>a, <2>1 DEF Apart, TypeOK
  <2>4. \A i \in 1 .. Held : Content[i] # c
    BY <1>a, <2>1 DEF Apart
  <2>5. connected' \cap {new_command', cmd'} = {} /\ (new_command' = cmd' => cmd' = None)
    BY <1>a, <2>1, <2>3 DEF Apart
  <2> QED
    BY <1>a, <2>1, <2>2, <2>4, <2>5 DEF Apart
<1>4. CASE LockToEnqueue
  BY <1>a, <1>b, <1>4 DEF LockToEnqueue, TypeOK, Apart
<1>5. CASE Enqueue
  <2>1. TypeOK'
    BY <1>a, <1>5, EnqueueStep DEF Enqueue, TypeOK
  <2>2. \A i \in 1 .. Held + 1 : i \in 1 .. Held \/ i = Held + 1
    BY <1>c
  <2>3. /\ new_command \in Caller /\ Held' = Held + 1
        /\ \A i \in 1 .. Held : Content'[i] = Content[i]
        /\ Content'[Held + 1] = new_command
        /\ new_command' = None /\ connected' = connected /\ cmd' = cmd
    BY <1>5, EnqueueStep DEF Enqueue
  <2>4. \A i, j \in 1 .. Held' : Content'[i] = Content'[j] => i = j
    BY <1>a, <2>2, <2>3 DEF Apart
  <2>5. \A i \in 1 .. Held' : Content'[i] \notin connected' \cup {new_command', cmd', None}
    <3>1. new_command \notin connected \cup {cmd, None}
      BY <1>a, <2>3, CallerAssumption DEF Apart
    <3> QED
      BY <1>a, <2>2, <2>3, <3>1 DEF Apart
  <2>6. connected' \cap {new_command', cmd'} = {} /\ (new_command' = cmd' => cmd' = None)
    <3>1. connected \subseteq Caller /\ connected \cap {new_command, cmd} = {}
      BY <1>a DEF Apart, TypeOK
    <3> QED
      BY <2>3, <3>1, CallerAssumption
  <2> QED
    BY <2>1, <2>4, <2>5, <2>6 DEF Apart
<1>6. CASE UnlockEnqueue
  BY <1>a, <1>b, <1>6 DEF UnlockEnqueue, TypeOK, Apart
<1>7. CASE LockToDequeue
  BY <1>a, <1>b, <1>7 DEF LockToDequeue, TypeOK, Apart
<1>8. CASE Dequeue
  <2>1. /\ Held \in Nat \ {0} /\ Held' = Held - 1
        /\ cmd' = Content[1] /\ cmd = None
        /\ \A i \in 1 .. Held - 1 : Content'[i] = Content[i + 1]
        /\ new_command' = new_command /\ connected' = connected
    BY <1>8, DequeueStep DEF Dequeue
  <2>2. cmd' \in Caller
    BY <1>c, <2>1
  <2>3. TypeOK'
    BY <1>a, <1>8, <2>2, DequeueStep DEF Dequeue, TypeOK
  <2>4. 1 \in 1 .. Held /\ \A i \in 1 .. Held - 1 : i + 1 \in 1 .. Held /\ i + 1 # 1 /\ i \in Int
    BY <2>1
  <2>5. \A i, j \in 1 .. Held' : Content'[i] = Content'[j] => i = j
    <3>1. ASSUME NEW i \in 1 .. Held', NEW j \in 1 .. Held', Content'[i] = Content'[j]
          PROVE  i + 1 = j + 1
      BY <1>a, <2>1, <2>4, <3>1 DEF Apart
    <3> QED
      BY <2>1, <3>1
  <2>6. \A i \in 1 .. Held' : Content'[i] \notin connected' \cup {new_command', cmd', None}
    BY <1>a, <2>1, <2>4 DEF Apart
  <2>7. connected' \cap {new_command', cmd'} = {} /\ (new_command' = cmd' => cmd' = None)
    BY <1>a, <2>1, <2>4 DEF Apart
  <2> QED
    BY <2>3, <2>5, <2>6, <2>7 DEF Apart
<1>9. CASE SleepLocked
  BY <1>a, <1>b, <1>9 DEF SleepLocked, TypeOK, Apart
<1>10. CASE UnlockDequeue
  BY <1>a, <1>b, <1>10 DEF UnlockDequeue, TypeOK, Apart
<1>11. CASE Run
  <2>1. /\ connected' = connected /\ new_command' = new_command /\ cmd' = None
        /\ Held' = Held /\ Content' = Content
    BY <1>b, <1>11 DEF Run
  <2>2. TypeOK'
    BY <1>a, <1>11 DEF Run, TypeOK
  <2>3. connected' \cap {new_command', cmd'} = {}
    BY <1>a, <2>1, CallerAssumption DEF Apart, TypeOK
  <2> QED
    BY <1>a, <2>1, <2>2, <2>3 DEF Apart
<1> QED
  BY <1>1, <1>2, <1>3, <1>4, <1>5, <1>6, <1>7, <1>8, <1>9, <1>10, <1>11
  DEF Next, AcceptStep, ExecStep

LEMMA NextStep == IInv /\ [Next]_vars => IInv'
BY ThreadsStep, PlacesStep DEF IInv

\* In every reachable state the inductive invariant holds.
THEOREM Invariance == Spec => []IInv
<1>1. Init => IInv
  BY InitHolds
<1>2. IInv /\ [Next]_vars => IInv'
  BY NextStep
<1> QED
  BY <1>1, <1>2, PTL DEF Spec

-----------------------------------------------------------------------------
(* Theorems *)

\* The variables, the buffer and its two indices are what their declarations
\* say, however often the indices have gone round.
THEOREM TypeCorrect == Spec => []TypeOK
<1>1. IInv => TypeOK
  BY DEF IInv
<1> QED
  BY <1>1, Invariance, PTL

\* No command is lost or doubled between accept and the end of its handler, and
\* the buffer, which has no test for being full, always has a slot left.
THEOREM NoCommandLost == Spec => []OnePlace
<1>1. IInv => OnePlace
  BY ApartSuffices DEF IInv
<1> QED
  BY <1>1, Invariance, PTL

\* enqueue and dequeue never run at the same time.
THEOREM MutexExcludes == Spec => []MutualExclusion
<1>1. IInv => MutualExclusion
  BY DEF IInv, MutexInv, MutualExclusion
<1> QED
  BY <1>1, Invariance, PTL

-----------------------------------------------------------------------------
(* The buffer implements a queue *)

LEMMA QueueInit == Init => Fifo!Init
<1> SUFFICES ASSUME Init PROVE Fifo!Init
  OBVIOUS
<1>1. IInv
  BY InitHolds
<1>2. Held = 0 /\ Content \in Seq(Caller) /\ Len(Content) = Held
  BY <1>1, Slots, SlotsInUse, ContentType DEF IInv, TypeOK, Init, IsSequence
<1>3. Content = <<>>
  BY <1>2, EmptySeq
<1> QED
  BY <1>3 DEF Fifo!Init, Init

\* Enqueue is Put, Dequeue is Take, Run is Finish, and nothing else is seen.
LEMMA QueueStep ==
    IInv /\ IInv' /\ [Next]_vars => [Fifo!Next]_<<Content, cmd>>
<1>a. IInv => IsSequence
  BY ContentType DEF IInv
<1>b. IInv' => IsSequence'
  BY <1>a, PTL
<1> SUFFICES ASSUME IInv, IInv', [Next]_vars PROVE [Fifo!Next]_<<Content, cmd>>
  OBVIOUS
<1>1. Content \in Seq(Caller) /\ Len(Content) = Held
  BY <1>a DEF IsSequence
<1>2. Content' \in Seq(Caller) /\ Len(Content') = Held'
  BY <1>b DEF IsSequence
<1>3. CASE Enqueue
  <2>1. /\ new_command \in Caller /\ Held' = Held + 1
        /\ \A i \in 1 .. Held : Content'[i] = Content[i]
        /\ Content'[Held + 1] = new_command /\ cmd' = cmd
    BY <1>3, EnqueueStep DEF Enqueue
  <2>2. /\ Append(Content, new_command) \in Seq(Caller)
        /\ Len(Append(Content, new_command)) = Held + 1
        /\ \A i \in 1 .. Held : Append(Content, new_command)[i] = Content[i]
        /\ Append(Content, new_command)[Held + 1] = new_command
    BY <1>1, <2>1, AppendProperties
  <2>3. Held \in Nat
    BY <1>1, LenProperties
  <2>4. \A i \in 1 .. Held + 1 : Content'[i] = Append(Content, new_command)[i]
    BY <2>1, <2>2, <2>3
  <2>5. Content' = Append(Content, new_command)
    BY <1>2, <2>1, <2>2, <2>4, SeqEqual
  <2> QED
    BY <2>1, <2>5 DEF Fifo!Next, Fifo!Put
<1>4. CASE Dequeue
  <2>1. /\ Held \in Nat \ {0} /\ Held' = Held - 1
        /\ cmd' = Content[1] /\ cmd = None
        /\ \A i \in 1 .. Held - 1 : Content'[i] = Content[i + 1]
    BY <1>4, DequeueStep
  <2>2. Content # <<>>
    BY <1>1, <2>1, EmptySeq
  <2>3. /\ Tail(Content) \in Seq(Caller) /\ Len(Tail(Content)) = Held - 1
        /\ \A i \in 1 .. Held - 1 : Tail(Content)[i] = Content[i + 1]
        /\ Head(Content) = Content[1]
    BY <1>1, <2>2, HeadTailProperties
  <2>4. Content' = Tail(Content)
    BY <1>2, <2>1, <2>3, SeqEqual
  <2> QED
    BY <2>1, <2>2, <2>3, <2>4 DEF Fifo!Next, Fifo!Take
<1>5. CASE Run
  BY <1>5, BufferKept DEF Run, IInv, HandInv, Fifo!Next, Fifo!Finish
<1>6. ASSUME UNCHANGED <<array, last_free_space, first_ocupied_space, cmd>>
      PROVE  UNCHANGED <<Content, cmd>>
  BY <1>6, BufferKept
<1> QED
  BY <1>3, <1>4, <1>5, <1>6
  DEF Next, AcceptStep, ExecStep, Connect, Accept, LockToEnqueue, UnlockEnqueue,
      LockToDequeue, SleepLocked, UnlockDequeue, vars

\* Commands are run in the order in which they were accepted, each once: the
\* ring buffer and its two threads implement a queue, which is what DhtExec takes
\* for granted of them.
THEOREM QueueImplemented == Spec => Ordered
<1>1. Init => Fifo!Init
  BY QueueInit
<1>2. IInv /\ IInv' /\ [Next]_vars => [Fifo!Next]_<<Content, cmd>>
  BY QueueStep
<1> QED
  BY <1>1, <1>2, Invariance, PTL DEF Spec, Ordered, Fifo!Spec, Fifo!vars

-----------------------------------------------------------------------------
(* The failure detector *)

USE DEF MaxFailedAttempts, ListLen

ListTypeOK == list \in Seq(Successor) /\ Len(list) <= ListLen

CountsTypeOK ==
    /\ up \subseteq Successor
    /\ failed \in 0 .. MaxFailedAttempts
    /\ missed \in 0 .. MaxFailedAttempts
    /\ open \in 0 .. Descriptors

\* What is counted against the node in front is what was lost of its probes.
CountsMissed == own /\ open < Descriptors => failed <= missed

RepairsWhenFull ==
    thread \in {"repairing", "calling", "stuck"} => failed = MaxFailedAttempts /\ target = Nobody

WatchInv == ListTypeOK /\ CountsTypeOK /\ CountsMissed /\ RepairsWhenFull

-----------------------------------------------------------------------------

LEMMA WatchInitHolds == WatchInit => WatchInv
  BY StartAssumption, BoundAssumption
  DEF WatchInit, WatchInv, ListTypeOK, CountsTypeOK, CountsMissed, RepairsWhenFull

\* Every step but those of the list leaves a list of its type.
LEMMA ListStep == ListTypeOK /\ [WatchNext]_watchVars => ListTypeOK'
<1> SUFFICES ASSUME ListTypeOK, [WatchNext]_watchVars
             PROVE  ListTypeOK'
  OBVIOUS
<1>1. CASE UNCHANGED list
  BY <1>1 DEF ListTypeOK
<1>2. CASE Repair
  BY <1>2 DEF Repair, ListTypeOK
<1>3. ASSUME NEW x \in Successor, Join(x)
      PROVE  ListTypeOK'
  <2>1. CASE Len(list) < ListLen
    BY <1>3, <2>1 DEF Join, ListTypeOK
  <2>2. CASE ~(Len(list) < ListLen)
    <3>1. SubSeq(list, 1, ListLen - 1) \in Seq(Successor)
          /\ Len(SubSeq(list, 1, ListLen - 1)) = ListLen - 1
      BY <2>2 DEF ListTypeOK
    <3> QED
      BY <1>3, <2>2, <3>1 DEF Join, ListTypeOK
  <2> QED
    BY <2>1, <2>2
<1>4. ASSUME NEW i \in 2 .. ListLen, Deprecate(i)
      PROVE  ListTypeOK'
  <2>1. SubSeq(list, 1, i - 1) \in Seq(Successor) /\ Len(SubSeq(list, 1, i - 1)) = i - 1
    BY <1>4 DEF Deprecate, ListTypeOK
  <2>2. SubSeq(list, i + 1, Len(list)) \in Seq(Successor)
        /\ Len(SubSeq(list, i + 1, Len(list))) = Len(list) - i
    BY <1>4 DEF Deprecate, ListTypeOK
  <2> QED
    BY <1>4, <2>1, <2>2 DEF Deprecate, ListTypeOK
<1>5. CASE Found
  <2> DEFINE m == IF Len(list) < ListLen THEN Len(list) ELSE ListLen - 1
             nearest == SubSeq(list, 1, m)
  <2>1. list \in Seq(Successor) /\ m \in 0 .. Len(list) /\ m <= 2
    BY LenProperties DEF ListTypeOK
  <2>2. nearest \in Seq(Successor) /\ Len(nearest) = m
    BY <2>1
  <2>3. list' = nearest \/ \E x \in Successor : list' = Append(nearest, x)
    BY <1>5 DEF Found
  <2> HIDE DEF nearest, m
  <2>4. ASSUME NEW x \in Successor, list' = Append(nearest, x)
        PROVE  ListTypeOK'
    BY <2>1, <2>2, <2>4, AppendProperties DEF ListTypeOK
  <2>5. CASE list' = nearest
    BY <2>1, <2>2, <2>5 DEF ListTypeOK
  <2> QED
    BY <2>3, <2>4, <2>5
<1> QED
  BY <1>1, <1>2, <1>3, <1>4, <1>5
  DEF WatchNext, watchVars, HeartBeat, RepairStep, Others, Probe, Reached, Lost, Refused, Count,
      Call, LeaveOut, Answer, NoAnswer, Repaired, Alone, Crash, CrashBehind, ReplaceBehind

LEMMA CountsStep ==
  CountsTypeOK /\ CountsMissed /\ RepairsWhenFull /\ [WatchNext]_watchVars
    => CountsTypeOK' /\ CountsMissed' /\ RepairsWhenFull'
<1> SUFFICES ASSUME CountsTypeOK, CountsMissed, RepairsWhenFull, [WatchNext]_watchVars
             PROVE  CountsTypeOK' /\ CountsMissed' /\ RepairsWhenFull'
  OBVIOUS
<1> USE StartAssumption, BoundAssumption DEF CountsTypeOK, CountsMissed, RepairsWhenFull, OneMore, More
<1>1. CASE Probe
  BY <1>1 DEF Probe
<1>2. CASE Reached
  BY <1>2 DEF Reached
<1>3. CASE Lost
  <2>1. own' => own
    BY <1>3, Zenon DEF Lost
  <2>2. Count /\ missed' = More(missed) /\ target # Nobody
    BY <1>3 DEF Lost
  <2> QED
    BY <2>1, <2>2 DEF Count
<1>4. CASE Refused
  <2>1. own' => own /\ open = Descriptors
    BY <1>4, Zenon DEF Refused
  <2>2. Count /\ missed' = missed /\ target # Nobody
    BY <1>4 DEF Refused
  <2> QED
    BY <2>1, <2>2 DEF Count
<1>5. CASE Repair
  <2>1. ~own'
    BY <1>5 DEF Repair
  <2>2. failed' = failed /\ missed' = 0 /\ UNCHANGED <<up, open, target>>
    BY <1>5 DEF Repair
  <2> QED
    BY <1>5, <2>1, <2>2 DEF Repair
<1>6. CASE Alone
  BY <1>6 DEF Alone
<1>7. ASSUME NEW x \in Successor, Crash(x)
      PROVE  CountsTypeOK' /\ CountsMissed' /\ RepairsWhenFull'
  BY <1>7 DEF Crash
<1>8. ASSUME NEW x \in Successor, Join(x)
      PROVE  CountsTypeOK' /\ CountsMissed' /\ RepairsWhenFull'
  BY <1>8 DEF Join
<1>9. ASSUME NEW i \in 2 .. ListLen, Deprecate(i)
      PROVE  CountsTypeOK' /\ CountsMissed' /\ RepairsWhenFull'
  BY <1>9 DEF Deprecate
<1>10. CASE UNCHANGED watchVars
  BY <1>10 DEF watchVars
<1>11. CASE Call \/ LeaveOut \/ Found \/ Answer \/ NoAnswer \/ Repaired
  <2>1. UNCHANGED <<up, failed, missed, target>> /\ own' = own
    BY <1>11 DEF Call, LeaveOut, Found, Answer, NoAnswer, Repaired
  <2>2. open' \in 0 .. Descriptors /\ open' >= open
    BY <1>11 DEF Call, LeaveOut, Found, Answer, NoAnswer, Repaired, Connected
  <2>3. thread = "calling"
    BY <1>11 DEF Call, LeaveOut, Found, Answer, NoAnswer, Repaired, Connected
  <2>4. CountsMissed'
    BY <2>1, <2>2
  <2> QED
    BY <2>1, <2>2, <2>3, <2>4
<1>12. CASE CrashBehind \/ ReplaceBehind
  BY <1>12 DEF CrashBehind, ReplaceBehind
<1> QED
  BY <1>1, <1>2, <1>3, <1>4, <1>5, <1>6, <1>7, <1>8, <1>9, <1>10, <1>11, <1>12
  DEF WatchNext, HeartBeat, RepairStep, Others

LEMMA WatchInvariance == WatchSpec => []WatchInv
<1>1. WatchInv /\ [WatchNext]_watchVars => WatchInv'
  BY ListStep, CountsStep DEF WatchInv
<1> QED
  BY WatchInitHolds, <1>1, PTL DEF WatchSpec

-----------------------------------------------------------------------------

\* Of the steps that change the list only a repair takes a running node from
\* its front.
LEMMA OnlyRepairDrops ==
  ASSUME ListTypeOK, [WatchNext]_watchVars, thread = "repairing",
         list # <<>>, list' = Tail(list), Head(list) \in up
  PROVE  Repair
<1>1. /\ list \in Seq(Successor)
      /\ Len(list) \in Nat /\ 1 <= Len(list) /\ Len(list) <= 3
      /\ list' = Tail(list) /\ Len(list') = Len(list) - 1
  <2>1. list \in Seq(Successor) /\ Len(list) <= 3
    BY DEF ListTypeOK
  <2>2. Len(list) \in Nat /\ Len(list) >= 1
    BY <2>1, EmptySeq, LenProperties
  <2>3. Len(Tail(list)) = Len(list) - 1
    BY <2>1, HeadTailProperties
  <2> QED
    BY <2>1, <2>2, <2>3
<1>2. \A i \in 1 .. Len(list) - 1 : list'[i] = list[i + 1]
  BY <1>1
<1>3. list' # list
  <2>1. ASSUME list' = list PROVE FALSE
    <3>1. Len(list') = Len(list)
      BY <2>1
    <3> QED
      BY <1>1, <3>1
  <2> QED
    BY <2>1
<1>4. ASSUME NEW x \in Successor, Join(x)
      PROVE  FALSE
  <2>1. CASE Len(list) < ListLen
    BY <1>1, <1>4, <2>1 DEF Join, ListTypeOK
  <2>2. CASE ~(Len(list) < ListLen)
    <3>1. SubSeq(list, 1, ListLen - 1) \in Seq(Successor)
          /\ Len(SubSeq(list, 1, ListLen - 1)) = ListLen - 1
      BY <2>2 DEF ListTypeOK
    <3> QED
      BY <1>1, <1>4, <2>2, <3>1 DEF Join, ListTypeOK
  <2> QED
    BY <2>1, <2>2
<1>5. ASSUME NEW i \in 2 .. ListLen, Deprecate(i)
      PROVE  FALSE
  <2>1. i \in 2 .. Len(list) /\ list[i] \notin up
    BY <1>5 DEF Deprecate
  <2>2. \A k \in 1 .. i - 1 : list'[k] = list[k]
    <3>1. \A k \in 1 .. i - 1 : SubSeq(list, 1, i - 1)[k] = list[k]
      BY <2>1 DEF ListTypeOK
    <3>2. SubSeq(list, 1, i - 1) \in Seq(Successor) /\ Len(SubSeq(list, 1, i - 1)) = i - 1
      BY <2>1 DEF ListTypeOK
    <3>3. SubSeq(list, i + 1, Len(list)) \in Seq(Successor)
      BY <2>1 DEF ListTypeOK
    <3>4. list' = SubSeq(list, 1, i - 1) \o SubSeq(list, i + 1, Len(list))
      BY <1>5 DEF Deprecate
    <3> HIDE DEF ListTypeOK, WatchNext, watchVars
    <3>5. ASSUME NEW s \in Seq(Successor), NEW t \in Seq(Successor)
          PROVE  \A k \in 1 .. Len(s) : (s \o t)[k] = s[k]
      OBVIOUS
    <3> DEFINE s == SubSeq(list, 1, i - 1)
               t == SubSeq(list, i + 1, Len(list))
    <3>6. \A k \in 1 .. Len(s) : (s \o t)[k] = s[k]
      BY <3>2, <3>3, <3>5
    <3>7. \A k \in 1 .. i - 1 : (s \o t)[k] = list[k]
      BY <3>1, <3>2, <3>6
    <3> QED
      BY <3>4, <3>7, Zenon
  <2>3. \A k \in 1 .. i - 1 : list[k] = list[k + 1]
    BY <1>1, <1>2, <2>1, <2>2
  <2>4. list[1] = list[i]
    <3>1. CASE i = 2
      BY <2>3, <3>1
    <3>2. CASE i = 3
      <4>1. list[1] = list[2] /\ list[2] = list[3]
        BY <2>3, <3>2
      <4> QED
        BY <3>2, <4>1
    <3> QED
      BY <3>1, <3>2
  <2> QED
    BY <2>1, <2>4 DEF ListTypeOK
<1> QED
  BY <1>3, <1>4, <1>5
  DEF WatchNext, watchVars, HeartBeat, RepairStep, Others, Probe, Reached, Lost, Refused, Count,
      Call, LeaveOut, Found, Connected, Answer, NoAnswer, Repaired, Alone, Crash, CrashBehind,
      ReplaceBehind

\* A running successor is taken for down only after three lost probes of its
\* own, a failure that was another's, or with no descriptor left.
THEOREM AlarmsHaveReasons == WatchSpec => NoFalseAlarm
<1>1. ASSUME WatchInv, [WatchNext]_watchVars, thread = "repairing",
             list # <<>>, list' = Tail(list)
      PROVE  \/ Head(list) \notin up
             \/ missed >= MaxFailedAttempts
             \/ ~own
             \/ open = Descriptors
  <2>1. CASE Head(list) \in up
    <3>1. Repair
      BY <1>1, <2>1, OnlyRepairDrops DEF WatchInv
    <3>2. failed = MaxFailedAttempts
      BY <1>1, <3>1 DEF WatchInv, RepairsWhenFull, Repair
    <3> QED
      BY <1>1, <3>2, BoundAssumption DEF WatchInv, CountsMissed, CountsTypeOK
  <2> QED
    BY <2>1
<1>2. WatchInv /\ [WatchNext]_watchVars
      => [(thread = "repairing" /\ list # <<>> /\ list' = Tail(list)) =>
            \/ Head(list) \notin up
            \/ missed >= MaxFailedAttempts
            \/ ~own
            \/ open = Descriptors]_watchVars
  BY <1>1
<1> QED
  BY WatchInvariance, <1>2, PTL DEF WatchSpec, NoFalseAlarm
=============================================================================
