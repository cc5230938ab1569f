------------------------------- MODULE PageSim -------------------------------
(***************************************************************************)
(* The page replacement simulator (lab-07/sim.c): references <pid, page>   *)
(* are read one by one, pages move between the primary and the secondary   *)
(* memory by FIFO or LRU, and every process has a table of where its pages *)
(* are.                                                                    *)
(***************************************************************************)
LOCAL INSTANCE Integers
LOCAL INSTANCE FiniteSets

CONSTANTS Reference,     \* the pairs <pid, page> the input may hold
          MAX_PROCESS, TAM_PROCESS, TAM_PRIMARY, TAM_SECONDARY,
          NUM_MAX        \* above every counter; also the bound on the references
                         \* read, after which rem_memory may be left uninitialised

VARIABLES option,      \* 'f' or 'l'
          primary,     \* slots: process, page and the counters FIFO and LRU
          secondary,
          words,       \* processes[] as it lies in memory: for each process its
                       \* pid, the slots of pages 1..TAM_PROCESS (-1: none) and created
          cont,        \* cont_FIFO and cont_LRU
          arrived, usedAt, \* history: when a page came into primary, when it was
                       \* last used there
          refs,        \* references read
          ended        \* "exit": the program has printed the state and exited;
                       \* "wild": it wrote outside processes[], what follows is undefined

simVars == <<option, primary, secondary, words, cont, arrived, usedAt, refs, ended>>

P == 0..TAM_PRIMARY-1
S == 0..TAM_SECONDARY-1
None == [process |-> -1, page |-> 0]
W == TAM_PROCESS + 2
Array == 0..W*MAX_PROCESS-1
Cell == [k |-> None, FIFO |-> 0, LRU |-> 0]

Init ==
  /\ option \in {"f", "l"}
  /\ primary = [i \in P |-> Cell] /\ secondary = [i \in S |-> None]
  /\ words = [a \in Array |-> 0]   \* static data
  /\ cont = [FIFO |-> 0, LRU |-> 0]
  /\ arrived = [k \in Reference |-> 0] /\ usedAt = arrived
  /\ refs = 0 /\ ended = "no"

Least(X) == CHOOSE x \in X : \A y \in X : x <= y
Key(k) == [process |-> k[1], page |-> k[2]]
Of(key) == <<key.process, key.page>>
InPrimary(k) == {i \in P : primary[i].k = Key(k)}
InSecondary(k) == {i \in S : secondary[i] = Key(k)}
Vacant == {i \in P : primary[i].k = None}
Room == {i \in S : secondary[i] = None}

-----------------------------------------------------------------------------
\* processes[pid].page[page - 1], wherever that is: page 0 is the pid itself.
Word(k) == W * k[1] + k[2]

\* main() looks for an entry with this pid; one never used has pid 0.
Found(pid) == \E j \in 0..MAX_PROCESS-1 : words[W * j] = pid

\* create_process(), if there is none.
Tables(pid) ==
  IF Found(pid) THEN words
  ELSE [a \in Array |-> CASE a = W * pid -> pid
                          [] a \in W * pid + 1 .. W * pid + TAM_PROCESS -> -1
                          [] a = W * pid + TAM_PROCESS + 1 -> 1
                          [] OTHER -> words[a]]

\* Faulty: the page that was used last is replaced.
VictimLast == LET age == [i \in P |-> IF option = "f" THEN primary[i].FIFO ELSE primary[i].LRU]
              IN  CHOOSE i \in P : \A j \in P : age[i] >= age[j]

\* The slot whose counter is the smallest; NUM_MAX exceeds them all.
Victim == LET age == [i \in P |-> IF option = "f" THEN primary[i].FIFO ELSE primary[i].LRU]
          IN  CHOOSE i \in P : \A j \in P : age[i] < age[j] \/ (age[i] = age[j] /\ i <= j)

\* A page goes into slot i of the primary memory that was not empty: only the
\* counter of the option is set.
Loaded(i, k) == [primary EXCEPT ![i] =
  IF option = "f" THEN [@ EXCEPT !.k = Key(k), !.FIFO = cont.FIFO]
                  ELSE [@ EXCEPT !.k = Key(k), !.LRU = cont.LRU]]
Counted == IF option = "f" THEN [cont EXCEPT !.FIFO = @ + 1] ELSE [cont EXCEPT !.LRU = @ + 1]

Hit(k) ==
  LET i == Least(InPrimary(k))
  IN  /\ primary' = [primary EXCEPT ![i].LRU = cont.LRU]
      /\ cont' = [cont EXCEPT !.LRU = @ + 1]
      /\ UNCHANGED <<secondary, arrived>> /\ words' = Tables(k[1])

\* An empty slot of the primary memory: both counters are set.
Place(k) ==
  LET i == Least(Vacant)
  IN  /\ primary' = [primary EXCEPT ![i] = [k |-> Key(k), FIFO |-> cont.FIFO, LRU |-> cont.LRU]]
      /\ cont' = [FIFO |-> cont.FIFO + 1, LRU |-> cont.LRU + 1]
      /\ words' = [Tables(k[1]) EXCEPT ![Word(k)] = i]
      /\ arrived' = [arrived EXCEPT ![k] = refs]
      /\ UNCHANGED secondary

\* The victim goes to slot s of the secondary memory, the page to its slot; with
\* words for processes[].
Exchange(k, s, table) ==
  LET i == Victim
  IN  /\ primary' = Loaded(i, k) /\ cont' = Counted
      /\ secondary' = [secondary EXCEPT ![s] = primary[i].k]
      /\ words' = table
      /\ arrived' = [arrived EXCEPT ![k] = refs]

\* The page was in slot s of the secondary memory.
Return(k, s) ==
  Exchange(k, s, [Tables(k[1]) EXCEPT ![Word(Of(primary[Victim].k))] = s, ![Word(k)] = Victim])

\* The page was in neither memory.
Replace(k, s) ==
  Exchange(k, s, [Tables(k[1]) EXCEPT ![Word(k)] = Victim, ![Word(Of(primary[Victim].k))] = s])

\* Neither the pid nor, below, the page is tested: create_process() or a new
\* place for the page writes outside processes[].
Wild(k) ==
  \/ ~Found(k[1]) /\ k[1] \notin 0..MAX_PROCESS-1
  \/ InPrimary(k) = {} /\ Word(k) \notin Array

\* main() reads a reference to page k[2] of process k[1], modify_process().  The program
\* ends when the last slot of the secondary memory is in use.
modify_process(k) ==
  /\ ended = "no" /\ refs < NUM_MAX
  /\ k[2] <= TAM_PROCESS
  /\ refs' = refs + 1
  /\ IF Wild(k) THEN ended' = "wild" /\ UNCHANGED <<primary, secondary, words, cont, arrived, usedAt>>
     ELSE /\ usedAt' = [usedAt EXCEPT ![k] = refs]
          /\ CASE InPrimary(k) # {}   -> Hit(k)
               [] InSecondary(k) # {} -> Return(k, Least(InSecondary(k)))
               [] InPrimary(k) = {} /\ InSecondary(k) = {} /\ Vacant # {} -> Place(k)
               [] InPrimary(k) = {} /\ InSecondary(k) = {} /\ Vacant = {} -> Replace(k, Least(Room))
          /\ ended' = IF secondary'[TAM_SECONDARY-1] # None THEN "exit" ELSE "no"
  /\ UNCHANGED option

Next == \E k \in Reference : modify_process(k)

Spec == Init /\ [][Next]_simVars

-----------------------------------------------------------------------------
\* A page below 1 is in use, which sim.c:338 does not refuse: its word is not
\* one of the table of its process.
Stray == \E c \in {primary[i].k : i \in P} \cup {secondary[i] : i \in S} : c # None /\ c.page < 1

\* Whatever the input, a page is in at most one slot of the two memories and the
\* page modify_process() would replace next is the one that came in first (FIFO)
\* or was not used for longest (LRU).  While no page below 1 was referenced, the
\* table of its process (other than process 0, which never gets a table of its
\* own) names that slot.
PagesSound ==
  /\ \A k \in Reference : Cardinality(InPrimary(k)) + Cardinality(InSecondary(k)) <= 1
  /\ ~Stray => \A k \in Reference :
       k[1] \in 1..MAX_PROCESS-1 /\ k[2] \in 1..TAM_PROCESS /\ words[W * k[1]] = k[1] =>
         InPrimary(k) \cup InSecondary(k) = {words[Word(k)]} \ {-1}
  /\ Vacant = {} =>
       LET since == [i \in P |-> IF option = "f" THEN arrived[Of(primary[i].k)]
                                                 ELSE usedAt[Of(primary[i].k)]]
       IN  \A j \in P : since[Victim] <= since[j]
=============================================================================
