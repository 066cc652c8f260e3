-------------------------- MODULE JobServerProofs ---------------------------
(***************************************************************************)
(* For any number of makes, job slots and commands, with and without       *)
(* pselect(): the tokens of a tree of makes add up, all are back when the  *)
(* top make exits, and all makes together run at most -jN commands.        *)
(***************************************************************************)
EXTENDS JobServer, Lemmas

-----------------------------------------------------------------------------
LEMMA MakesFinite == IsFiniteSet(Makes)
  BY JobServerAssumption, FS_AddElement DEF Makes

-----------------------------------------------------------------------------
(* The inductive invariant.                                                *)

Steps == {"off", "loop", "reap", "acquire", "asleep", "read", "start", "exited"}

(* TypeOK, but for the upper bound of the pipe, which follows from the     *)
(* sum of the tokens.                                                      *)
Typed ==
    /\ pselect \in BOOLEAN
    /\ pipe \in Nat
    /\ pc \in [Makes -> Steps]
    /\ tokens \in [Makes -> Nat] /\ todo \in [Makes -> Nat] /\ unspawned \subseteq Subs
    /\ running \in [Makes -> Nat] /\ dead \in [Makes -> Nat]
    /\ blocked \in [Makes -> BOOLEAN] /\ pending \in [Makes -> BOOLEAN]
    /\ rfd \in [Makes -> BOOLEAN]
    /\ timeout \in [Makes -> BOOLEAN]

(* What a make has at each place: a token when it sleeps for another one,  *)
(* and none before it is started and after its end.                        *)
Stage ==
    /\ \A m \in Makes : pc[m] \in {"acquire", "asleep", "read"} => tokens[m] > 0
    /\ \A s \in Subs : pc[s] \in {"off", "exited"} => tokens[s] = 0
    /\ \A s \in Subs : pc[s] = "off" <=> s \in unspawned
    /\ pc[Top] # "off"
    /\ pc[Top] = "exited" => tokens[Top] = 0 /\ unspawned = {} /\ Live = {}

TokensForKids == \A m \in Makes : tokens[m] = Kids(m)
AddUp         == pipe + Total(Borrowings) = Slots - 1

(* The makes that use the token their parent has for them.                 *)
OnFree == {m \in Makes : tokens[m] > 0 /\ pc[m] # "start"}

(* All tokens in use against all children.                                 *)
Balance == Total(Borrowings) + Cardinality(OnFree)
               = Total(running) + Total(dead) + Cardinality(Live)

IInv == Typed /\ Stage /\ TokensForKids /\ AddUp /\ Balance

LEMMA TopIsMake == Top \in Makes /\ Subs \subseteq Makes /\ Top \notin Subs
                   /\ \A m \in Makes : m = Top \/ m \in Subs
  BY JobServerAssumption DEF Makes

LEMMA LiveFinite == IsFiniteSet(Live) /\ Cardinality(Live) \in Nat
  BY JobServerAssumption, FS_Subset, FS_CardinalityType DEF Live

LEMMA OnFreeFinite == IsFiniteSet(OnFree) /\ Cardinality(OnFree) \in Nat
  BY MakesFinite, FS_Subset, FS_CardinalityType DEF OnFree

LEMMA BorrowingsType == ASSUME Typed PROVE Borrowings \in [Makes -> Nat]
  BY DEF Typed, Borrowings, Borrowed, One

(* The sums are numbers, and the functions they are sums of have types.    *)
LEMMA Numbers ==
    ASSUME Typed
    PROVE  /\ running \in [Makes -> Nat] /\ dead \in [Makes -> Nat]
           /\ Total(running) \in Nat /\ Total(dead) \in Nat /\ Total(Borrowings) \in Nat
           /\ Cardinality(OnFree) \in Nat /\ Cardinality(Live) \in Nat
  <1>1. running \in [Makes -> Nat] /\ dead \in [Makes -> Nat]
    BY DEF Typed
  <1> QED  BY <1>1, BorrowingsType, TotalType, MakesFinite, OnFreeFinite, LiveFinite

LEMMA InitIInv == Init => IInv
  <1> SUFFICES ASSUME Init PROVE IInv
    OBVIOUS
  <1> USE TopIsMake, JobServerAssumption DEF Init, All
  <1>1. Typed
    BY DEF Typed, Steps
  <1>2. Live = {}
    BY DEF Live
  <1>3. Stage
    BY <1>2 DEF Stage
  <1>4. Cardinality(Live) = 0
    BY <1>2, FS_EmptySet
  <1>5. TokensForKids
    BY <1>4 DEF TokensForKids, Kids
  <1>6. \A m \in Makes : Borrowings[m] = 0
    BY DEF Borrowings, Borrowed
  <1>7. Total(Borrowings) = 0
    BY <1>1, <1>6, BorrowingsType, TotalZero, MakesFinite
  <1>8. AddUp
    BY <1>7 DEF AddUp
  <1>9. Total(running) = 0 /\ Total(dead) = 0
    BY <1>1, TotalZero, MakesFinite DEF Typed
  <1>10. OnFree = {}
    BY DEF OnFree
  <1>11. Cardinality(OnFree) = 0
    BY <1>10, FS_EmptySet
  <1>12. Balance
    BY <1>4, <1>7, <1>9, <1>11 DEF Balance
  <1> QED  BY <1>1, <1>3, <1>5, <1>8, <1>12 DEF IInv
-----------------------------------------------------------------------------
(* Types, and the places of the makes.                                     *)

LEMMA MakeTyped == ASSUME IInv, NEW m \in Makes, Make(m) PROVE Typed'
  <1> USE TopIsMake DEF IInv, Typed, Steps, jobs, signals, Goto
  <1>1. CASE NewJob(m)
    BY <1>1 DEF NewJob, Make
  <1>2. CASE Reap(m)
    <2>1. tokens[m] > 0
      BY <1>2, LiveFinite DEF Reap, TokensForKids, Kids
    <2> QED  BY <1>2, <2>1 DEF Reap, Make, One
  <1>3. CASE NothingToReap(m)
    BY <1>3 DEF NothingToReap, Make
  <1>4. CASE Acquire(m)
    BY <1>4 DEF Acquire, Make
  <1>5. CASE Ready(m)
    BY <1>5 DEF Ready, Make
  <1>6. CASE Read(m)
    BY <1>6 DEF Read, Make
  <1>7. CASE Interrupted(m)
    BY <1>7 DEF Interrupted, Handle, Make
  <1>8. CASE StartJob(m)
    <2>1. /\ tokens' = [tokens EXCEPT ![m] = @ + 1] /\ blocked' = [blocked EXCEPT ![m] = FALSE]
          /\ UNCHANGED <<pipe, dead, pending, rfd, timeout, pselect>>
      BY <1>8 DEF StartJob, Make
    <2>2. CASE /\ todo[m] > 0
               /\ todo' = [todo EXCEPT ![m] = @ - 1]
               /\ running' = [running EXCEPT ![m] = @ + 1]
               /\ pc' = [pc EXCEPT ![m] = "loop"]
               /\ UNCHANGED unspawned
      BY <2>1, <2>2
    <2>3. CASE \E s \in unspawned :
                 /\ m = Top
                 /\ unspawned' = unspawned \ {s}
                 /\ pc' = [pc EXCEPT ![m] = "loop", ![s] = "loop"]
                 /\ UNCHANGED <<todo, running>>
      BY <2>1, <2>3
    <2> QED  BY <1>8, <2>2, <2>3 DEF StartJob
  <1>9. CASE Exit(m)
    <2>1. CASE m = Top
      BY <1>9, <2>1 DEF Exit, Make
    <2>2. CASE m # Top
      <3>1. /\ dead' = [dead EXCEPT ![Top] = @ + 1] /\ pending' = [pending EXCEPT ![Top] = TRUE]
            /\ pc' = [pc EXCEPT ![m] = "exited"]
            /\ UNCHANGED <<pipe, tokens, todo, unspawned, running, blocked, rfd, timeout, pselect>>
        BY <1>9, <2>2 DEF Exit, ChildDies, Make
      <3>2. dead' \in [Makes -> Nat]
        BY <3>1
      <3>3. pending' \in [Makes -> BOOLEAN]
        BY <3>1
      <3> QED  BY <3>1, <3>2, <3>3
    <2> QED  BY <2>1, <2>2
  <1> QED  BY <1>1, <1>2, <1>3, <1>4, <1>5, <1>6, <1>7, <1>8, <1>9 DEF Make

LEMMA NextTyped == ASSUME IInv, Next PROVE Typed'
  <1> PICK m \in Makes : Make(m) \/ Signalled(m) \/ TimesOut(m) \/ CommandEnds(m)
    BY DEF Next
  <1> USE DEF IInv, Typed, Steps, jobs, signals, Goto
  <1>1. CASE Make(m)
    BY <1>1, MakeTyped
  <1>2. CASE Signalled(m)
    BY <1>2 DEF Signalled, Handle
  <1>3. CASE TimesOut(m)
    BY <1>3 DEF TimesOut
  <1>4. CASE CommandEnds(m)
    BY <1>4 DEF CommandEnds, ChildDies
  <1> QED  BY <1>1, <1>2, <1>3, <1>4

-----------------------------------------------------------------------------
(* The sums.  A step that moves no token and ends no child changes none.   *)

Sums == TokensForKids /\ AddUp /\ Balance

LEMMA SameSums ==
    ASSUME IInv, Typed', UNCHANGED <<pipe, tokens, running, dead>>, Live' = Live,
           \A m \in Makes : tokens[m] > 0 => (pc'[m] = "start" <=> pc[m] = "start")
    PROVE  Sums'
  <1> USE DEF IInv
  <1>1. Borrowings' = Borrowings
    BY DEF Borrowings, Borrowed, One, Typed
  <1>2. OnFree' = OnFree
    BY DEF OnFree, Typed
  <1>3. AddUp'
    BY <1>1 DEF AddUp
  <1>4. Balance'
    BY <1>1, <1>2 DEF Balance
  <1>5. TokensForKids'
    BY DEF TokensForKids, Kids
  <1> QED  BY <1>3, <1>4, <1>5 DEF Sums

(* A token from the pipe: what was the free one is borrowed now.           *)
LEMMA TakeSums ==
    ASSUME IInv, Typed', NEW m \in Makes, pc[m] \in {"asleep", "read"},
           pc' = [pc EXCEPT ![m] = "start"], pipe' = pipe - 1,
           UNCHANGED <<tokens, running, dead>>, Live' = Live
    PROVE  Sums'
  <1> USE DEF IInv
  <1>1. tokens[m] > 0
    BY DEF Stage
  <1>2. Total(Borrowings') = Total(Borrowings) + 1
    <2>1. Borrowings'[m] = Borrowings[m] + 1
      BY <1>1 DEF Borrowings, Borrowed, One, Typed
    <2>2. \A k \in Makes \ {m} : Borrowings'[k] = Borrowings[k]
      BY DEF Borrowings, Borrowed, One, Typed
    <2>3. Borrowings \in [Makes -> Nat] /\ Borrowings' \in [Makes -> Nat]
      <3>1. Borrowings' \in [Makes -> Nat]
        BY DEF Borrowings, Borrowed, One, Typed
      <3> QED  BY <3>1, BorrowingsType
    <2> QED  BY <2>1, <2>2, <2>3, TotalMore, MakesFinite
  <1>3. Cardinality(OnFree') = Cardinality(OnFree) - 1
    <2>1. OnFree' = OnFree \ {m} /\ m \in OnFree
      BY <1>1 DEF OnFree, Typed
    <2> QED  BY <2>1, OnFreeFinite, FS_RemoveElement
  <1>4. AddUp'
    BY <1>2, TotalType, MakesFinite, BorrowingsType DEF AddUp, Typed
  <1>5. Balance'
    BY <1>2, <1>3, TotalType, MakesFinite, BorrowingsType, OnFreeFinite DEF Balance
  <1>6. TokensForKids'
    BY DEF TokensForKids, Kids
  <1> QED  BY <1>4, <1>5, <1>6 DEF Sums

(* The last child gives its token to the make, any other one to the pipe.  *)
LEMMA ReapSums == ASSUME IInv, Typed', NEW m \in Makes, Reap(m) PROVE Sums'
  <1>0. Typed /\ TokensForKids /\ AddUp /\ Balance
    BY DEF IInv
  <1>1. /\ dead[m] > 0 /\ dead' = [dead EXCEPT ![m] = @ - 1]
        /\ tokens' = [tokens EXCEPT ![m] = @ - 1] /\ pc[m] # "start"
        /\ pipe' = pipe + One(tokens[m] > 1)
        /\ pc' = pc /\ running' = running
    BY <1>0 DEF Reap, jobs, Typed
  <1>2. Live' = Live
    BY <1>1 DEF Live
  <1>3. tokens[m] > 0
    BY <1>0, <1>1, LiveFinite DEF TokensForKids, Kids, Typed
  <1>4. TokensForKids'
    BY <1>0, <1>1, <1>2, LiveFinite DEF TokensForKids, Kids, Typed
  <1>5. Total(dead') = Total(dead) - 1 /\ Total(running') = Total(running)
    BY <1>0, <1>1, Numbers, TotalDec, MakesFinite
  <1>6. Borrowings \in [Makes -> Nat]
    BY <1>0, BorrowingsType
  <1>7. CASE tokens[m] > 1
    <2>0. Borrowings[m] > 0 /\ Borrowings'[m] = Borrowings[m] - 1
      BY <1>0, <1>1, <1>7 DEF Borrowings, Borrowed, One, Typed
    <2>1. Borrowings' = [Borrowings EXCEPT ![m] = @ - 1]
      <3>1. \A k \in Makes \ {m} : Borrowings'[k] = Borrowings[k]
        BY <1>0, <1>1 DEF Borrowings, Borrowed, Typed
      <3>2. Borrowings' = [k \in Makes |-> Borrowings'[k]]
        BY DEF Borrowings
      <3> QED  BY <1>6, <2>0, <3>1, <3>2
    <2>2. Total(Borrowings') = Total(Borrowings) - 1
      BY <1>6, <2>0, <2>1, TotalDec, MakesFinite
    <2>3. OnFree' = OnFree
      BY <1>0, <1>1, <1>7 DEF OnFree, Typed
    <2>4. pipe' = pipe + 1
      BY <1>1, <1>7 DEF One
    <2>5. AddUp'
      BY <1>0, <2>2, <2>4, Numbers, JobServerAssumption DEF AddUp, Typed
    <2>6. Balance'
      BY <1>0, <1>2, <1>5, <2>2, <2>3, Numbers DEF Balance
    <2> QED  BY <1>4, <2>5, <2>6 DEF Sums
  <1>8. CASE tokens[m] = 1
    <2>1. Borrowings' = Borrowings
      BY <1>0, <1>1, <1>8 DEF Borrowings, Borrowed, One, Typed
    <2>2. OnFree' = OnFree \ {m} /\ m \in OnFree
      BY <1>0, <1>1, <1>8 DEF OnFree, Typed
    <2>3. Cardinality(OnFree') = Cardinality(OnFree) - 1
      BY <2>2, OnFreeFinite, FS_RemoveElement
    <2>4. pipe' = pipe
      BY <1>0, <1>1, <1>8 DEF One, Typed
    <2>5. AddUp'
      BY <1>0, <2>1, <2>4 DEF AddUp
    <2>6. Balance'
      BY <1>0, <1>2, <1>5, <2>1, <2>3, Numbers DEF Balance
    <2> QED  BY <1>4, <2>5, <2>6 DEF Sums
  <1> QED  BY <1>0, <1>3, <1>7, <1>8 DEF Typed

(* The token that was taken for a job is in use: one more child.           *)
LEMMA StartSums == ASSUME IInv, Typed', NEW m \in Makes, StartJob(m) PROVE Sums'
  <1>0. Typed /\ Stage /\ TokensForKids /\ AddUp /\ Balance
    BY DEF IInv
  <1>1. /\ pc[m] = "start" /\ pc'[m] = "loop"
        /\ tokens' = [tokens EXCEPT ![m] = @ + 1]
        /\ pipe' = pipe /\ dead' = dead
        /\ \A k \in Makes \ {m} : pc'[k] = "start" <=> pc[k] = "start"
    <2>1. CASE pc' = [pc EXCEPT ![m] = "loop"]
      BY <1>0, <2>1 DEF StartJob, Typed
    <2>2. ASSUME NEW s \in unspawned, m = Top, pc' = [pc EXCEPT ![m] = "loop", ![s] = "loop"]
          PROVE  /\ pc'[m] = "loop"
                 /\ \A k \in Makes \ {m} : pc'[k] = "start" <=> pc[k] = "start"
      BY <1>0, <2>2, TopIsMake DEF Stage, Typed
    <2> QED  BY <2>1, <2>2 DEF StartJob
  <1>2. Borrowings' = Borrowings
    BY <1>0, <1>1 DEF Borrowings, Borrowed, One, Typed
  <1>3. Cardinality(OnFree') = Cardinality(OnFree) + 1
    <2>1. OnFree' = OnFree \cup {m} /\ m \notin OnFree
      BY <1>0, <1>1 DEF OnFree, Typed
    <2> QED  BY <2>1, OnFreeFinite, FS_AddElement
  <1>4. AddUp'
    BY <1>0, <1>1, <1>2 DEF AddUp
  <1>5. CASE running' = [running EXCEPT ![m] = @ + 1] /\ pc' = [pc EXCEPT ![m] = "loop"]
    <2>1. Total(running') = Total(running) + 1 /\ Total(dead') = Total(dead)
      BY <1>0, <1>1, <1>5, Numbers, TotalInc, MakesFinite
    <2>2. Live' = Live
      BY <1>0, <1>1, <1>5 DEF Live, Typed
    <2>3. Balance'
      BY <1>0, <1>2, <1>3, <2>1, <2>2, Numbers DEF Balance
    <2>4. TokensForKids'
      BY <1>0, <1>1, <1>5, <2>2, LiveFinite DEF TokensForKids, Kids, Typed
    <2> QED  BY <1>4, <2>3, <2>4 DEF Sums
  <1>6. ASSUME NEW s \in unspawned, m = Top, UNCHANGED running,
               pc' = [pc EXCEPT ![m] = "loop", ![s] = "loop"]
        PROVE  Sums'
    <2>1. Live' = Live \cup {s} /\ s \notin Live
      BY <1>0, <1>1, <1>6, TopIsMake DEF Live, Stage, Typed
    <2>2. Cardinality(Live') = Cardinality(Live) + 1
      BY <2>1, LiveFinite, FS_AddElement
    <2>3. Total(running') = Total(running) /\ Total(dead') = Total(dead)
      BY <1>1, <1>6
    <2>4. Balance'
      BY <1>0, <1>2, <1>3, <2>2, <2>3, Numbers DEF Balance
    <2>5. TokensForKids'
      BY <1>0, <1>1, <1>6, <2>2, TopIsMake, LiveFinite DEF TokensForKids, Kids, Typed
    <2> QED  BY <1>4, <2>4, <2>5 DEF Sums
  <1> QED  BY <1>5, <1>6 DEF StartJob

(* A make ends without children: it is a dead child of the top make then.  *)
LEMMA ExitSums == ASSUME IInv, Typed', NEW m \in Makes, Exit(m) PROVE Sums'
  <1>0. Typed /\ TokensForKids /\ AddUp /\ Balance
    BY DEF IInv
  <1>1. /\ pc[m] = "loop" /\ pc' = [pc EXCEPT ![m] = "exited"]
        /\ pipe' = pipe /\ tokens' = tokens /\ running' = running
    BY DEF Exit, Goto, jobs
  <1>2. CASE m = Top
    <2>1. Live' = Live
      BY <1>0, <1>1, <1>2, TopIsMake DEF Live, Typed
    <2>2. UNCHANGED dead
      BY <1>2 DEF Exit
    <2>3. UNCHANGED <<pipe, tokens, running>> /\ \A k \in Makes : pc'[k] = "start" <=> pc[k] = "start"
      BY <1>0, <1>1 DEF Typed
    <2> QED  BY <2>1, <2>2, <2>3, SameSums
  <1>3. CASE m # Top
    <2>1. dead' = [dead EXCEPT ![Top] = @ + 1]
      BY <1>3 DEF Exit, ChildDies
    <2>2. Live' = Live \ {m} /\ m \in Live
      BY <1>0, <1>1, <1>3, TopIsMake DEF Live, Typed
    <2>3. Cardinality(Live') = Cardinality(Live) - 1
      BY <2>2, LiveFinite, FS_RemoveElement
    <2>4. Total(dead') = Total(dead) + 1 /\ Total(running') = Total(running)
      BY <1>0, <1>1, <2>1, TopIsMake, Numbers, TotalInc, MakesFinite
    <2>5. Borrowings' = Borrowings /\ OnFree' = OnFree
      BY <1>0, <1>1 DEF Borrowings, Borrowed, One, OnFree, Typed
    <2>6. AddUp'
      BY <1>0, <1>1, <2>5 DEF AddUp
    <2>7. Balance'
      BY <1>0, <2>3, <2>4, <2>5, Numbers DEF Balance
    <2>8. TokensForKids'
      BY <1>0, <1>1, <2>1, <2>3, TopIsMake, LiveFinite DEF TokensForKids, Kids, Typed
    <2> QED  BY <2>6, <2>7, <2>8 DEF Sums
  <1> QED  BY <1>2, <1>3

LEMMA EndsSums == ASSUME IInv, Typed', NEW m \in Makes, CommandEnds(m) PROVE Sums'
  <1>0. Typed /\ TokensForKids /\ AddUp /\ Balance
    BY DEF IInv
  <1>1. /\ running[m] > 0
        /\ running' = [running EXCEPT ![m] = @ - 1] /\ dead' = [dead EXCEPT ![m] = @ + 1]
        /\ pipe' = pipe /\ tokens' = tokens /\ pc' = pc
    BY DEF CommandEnds, ChildDies
  <1>2. Total(running') = Total(running) - 1
    BY <1>0, <1>1, Numbers, TotalDec, MakesFinite
  <1>3. Total(dead') = Total(dead) + 1
    BY <1>0, <1>1, Numbers, TotalInc, MakesFinite
  <1>4. Borrowings' = Borrowings /\ OnFree' = OnFree /\ Live' = Live
    BY <1>1 DEF Borrowings, Borrowed, One, OnFree, Live
  <1>5. AddUp'
    BY <1>0, <1>1, <1>4 DEF AddUp
  <1>6. Balance'
    BY <1>0, <1>2, <1>3, <1>4, Numbers DEF Balance
  <1>7. TokensForKids'
    BY <1>0, <1>1, <1>4, LiveFinite DEF TokensForKids, Kids, Typed
  <1> QED  BY <1>5, <1>6, <1>7 DEF Sums

LEMMA SameLive ==
    ASSUME NEW m \in Makes, pc[m] \notin {"off", "exited"}, pc'[m] \notin {"off", "exited"},
           \A k \in Makes \ {m} : pc'[k] = pc[k]
    PROVE  Live' = Live
  BY TopIsMake DEF Live

LEMMA MakeSums == ASSUME IInv, Typed', NEW m \in Makes, Make(m) PROVE Sums'
  <1> USE DEF IInv, Typed, jobs, Goto
  <1>1. CASE NewJob(m)
    <2>1. Live' = Live
      BY <1>1, SameLive DEF NewJob
    <2> QED  BY <1>1, <2>1, SameSums DEF NewJob
  <1>2. CASE NothingToReap(m)
    <2>1. Live' = Live
      BY <1>2, SameLive DEF NothingToReap
    <2> QED  BY <1>2, <2>1, SameSums DEF NothingToReap
  <1>3. CASE Acquire(m)
    <2>1. Live' = Live
      BY <1>3 DEF Acquire, Live
    <2> QED  BY <1>3, <2>1, SameSums DEF Acquire
  <1>4. CASE Ready(m) \/ Read(m)
    <2>1. Live' = Live
      BY <1>4, SameLive DEF Ready, Read
    <2>2. CASE pc' = [pc EXCEPT ![m] = "start"] /\ pipe' = pipe - 1
      BY <1>4, <2>1, <2>2, TakeSums DEF Ready, Read
    <2>3. CASE UNCHANGED pipe /\ pc'[m] \in {"read", "acquire"}
      BY <1>4, <2>1, <2>3, SameSums DEF Ready, Read
    <2> QED  BY <1>4, <2>2, <2>3 DEF Ready, Read
  <1>5. CASE Interrupted(m)
    <2>1. Live' = Live
      BY <1>5 DEF Interrupted, Live
    <2> QED  BY <1>5, <2>1, SameSums DEF Interrupted
  <1> QED  BY <1>1, <1>2, <1>3, <1>4, <1>5, ReapSums, StartSums, ExitSums DEF Make

LEMMA NextSums == ASSUME IInv, Typed', Next PROVE Sums'
  <1> PICK m \in Makes : Make(m) \/ Signalled(m) \/ TimesOut(m) \/ CommandEnds(m)
    BY DEF Next
  <1> USE DEF IInv, Typed, jobs, Goto
  <1>1. CASE Signalled(m)
    <2>1. Live' = Live
      BY <1>1 DEF Signalled, Live
    <2> QED  BY <1>1, <2>1, SameSums DEF Signalled
  <1>2. CASE TimesOut(m)
    <2>1. Live' = Live
      BY <1>2 DEF TimesOut, Live
    <2> QED  BY <1>2, <2>1, SameSums DEF TimesOut
  <1> QED  BY <1>1, <1>2, MakeSums, EndsSums
-----------------------------------------------------------------------------
(* The places.                                                             *)

LEMMA NextStage == ASSUME IInv, Typed', Next PROVE Stage'
  <1> PICK m \in Makes : Make(m) \/ Signalled(m) \/ TimesOut(m) \/ CommandEnds(m)
    BY DEF Next
  <1> USE TopIsMake DEF IInv, Typed, Stage, Steps, Live, jobs, Goto
  <1>1. CASE NewJob(m)
    BY <1>1 DEF NewJob
  <1>2. CASE Reap(m)
    <2>1. tokens[m] > 0
      BY <1>2, LiveFinite DEF Reap, TokensForKids, Kids
    <2> QED  BY <1>2, <2>1 DEF Reap
  <1>3. CASE NothingToReap(m)
    BY <1>3 DEF NothingToReap
  <1>4. CASE Acquire(m)
    BY <1>4 DEF Acquire
  <1>5. CASE Ready(m) \/ Read(m)
    BY <1>5 DEF Ready, Read
  <1>6. CASE Interrupted(m)
    BY <1>6 DEF Interrupted
  <1>7. CASE StartJob(m)
    BY <1>7 DEF StartJob
  <1>8. CASE Exit(m)
    <2>1. tokens[m] = 0
      BY <1>8 DEF Exit, JobSlotsUsed
    <2>2. m = Top => unspawned = {} /\ Live = {}
      <3>1. m = Top => Cardinality(Live) = 0
        BY <2>1, LiveFinite DEF TokensForKids, Kids
      <3> QED  BY <1>8, <3>1, LiveFinite, FS_EmptySet DEF Exit, Wants
    <2> QED  BY <1>8, <2>1, <2>2 DEF Exit
  <1>9. CASE Signalled(m) \/ TimesOut(m) \/ CommandEnds(m)
    BY <1>9 DEF Signalled, TimesOut, CommandEnds
  <1> QED  BY <1>1, <1>2, <1>3, <1>4, <1>5, <1>6, <1>7, <1>8, <1>9 DEF Make

LEMMA NextIInv == IInv /\ [Next]_vars => IInv'
  <1> SUFFICES ASSUME IInv, [Next]_vars PROVE IInv'
    OBVIOUS
  <1>1. CASE Next
    BY <1>1, NextTyped, NextSums, NextStage DEF IInv, Sums
  <1>2. CASE UNCHANGED vars
    <2>1. UNCHANGED <<pselect, pipe, pc, tokens, todo, unspawned, running, dead, blocked,
                      pending, rfd, timeout>>
      BY <1>2 DEF vars, jobs, signals
    <2>2. Live' = Live /\ Borrowings' = Borrowings /\ OnFree' = OnFree
      BY <2>1 DEF Live, Borrowings, Borrowed, OnFree
    <2>3. Typed' /\ Stage'
      BY <2>1, <2>2 DEF IInv, Typed, Stage
    <2>4. TokensForKids' /\ AddUp' /\ Balance'
      BY <2>1, <2>2 DEF IInv, TokensForKids, Kids, AddUp, Balance
    <2> QED  BY <2>3, <2>4 DEF IInv
  <1> QED  BY <1>1, <1>2

(* The inductive invariant holds in every reachable state: a make is where *)
(* its tokens say, has one for each child, and none is lost by             *)
(* jobserver_acquire(), free_child() or the end of a make.                 *)
THEOREM Inductive == Spec => []IInv
  BY InitIInv, NextIInv, PTL DEF Spec
-----------------------------------------------------------------------------
(* Every reachable state of a tree of makes has the declared types; the    *)
(* pipe never holds more tokens than jobserver_setup() wrote into it.      *)
THEOREM TypeCorrect == Spec => []TypeOK
  <1>1. IInv => TypeOK
    <2> SUFFICES ASSUME IInv PROVE TypeOK
      OBVIOUS
    <2>1. pipe \in 0 .. Slots - 1
      BY BorrowingsType, TotalType, MakesFinite, JobServerAssumption DEF IInv, Typed, AddUp
    <2> QED  BY <2>1 DEF IInv, Typed, TypeOK, Steps
  <1> QED  BY <1>1, Inductive, PTL

(* No token is lost or made up, and each make has one for each child.      *)
THEOREM TokensConserved == Spec => []TokensAddUp
  <1>1. IInv => TokensAddUp
    BY DEF IInv, TokensForKids, AddUp, TokensAddUp
  <1> QED  BY <1>1, Inductive, PTL

(* When the top kmk exits every token is back in the pipe and no sub-make  *)
(* is left, though die() looks at its own job_slots_used only.             *)
THEOREM AllBack == Spec => []TokensBack
  <1>1. IInv => TokensBack
    <2> SUFFICES ASSUME IInv, pc[Top] = "exited"
                 PROVE  pipe = Slots - 1 /\ \A s \in Subs : pc[s] = "exited"
      BY DEF TokensBack
    <2>1. \A s \in Subs : pc[s] = "exited"
      BY DEF IInv, Stage, Live
    <2>2. \A m \in Makes : tokens[m] = 0
      BY <2>1, TopIsMake DEF IInv, Stage
    <2>3. \A m \in Makes : Borrowings[m] = 0
      BY <2>2 DEF Borrowings, Borrowed
    <2>4. Total(Borrowings) = 0
      BY <2>3, BorrowingsType, TotalZero, MakesFinite DEF IInv
    <2> QED
      BY <2>1, <2>4, JobServerAssumption DEF IInv, AddUp, Typed
  <1> QED  BY <1>1, Inductive, PTL
-----------------------------------------------------------------------------
(* Each running command has a token that was borrowed from the pipe, or    *)
(* the free one of its make; the free one of a sub-make is a child of the  *)
(* top make's as well, so only one of them is not in the pipe's count.     *)
LEMMA RunningBound == ASSUME IInv PROVE Total(running) \in 0 .. Slots
  <1>1. OnFree \subseteq Live \cup {Top}
    BY TopIsMake DEF IInv, Stage, Typed, OnFree, Live
  <1>2. IsFiniteSet(Live \cup {Top}) /\ Cardinality(Live \cup {Top}) <= Cardinality(Live) + 1
    BY LiveFinite, FS_AddElement
  <1>3. Cardinality(OnFree) <= Cardinality(Live \cup {Top})
    BY <1>1, <1>2, FS_Subset
  <1>4. /\ Total(running) \in Nat /\ Total(dead) \in Nat /\ Total(Borrowings) \in Nat
        /\ pipe \in Nat
    BY BorrowingsType, TotalType, MakesFinite DEF IInv, Typed
  <1>5. Cardinality(OnFree) \in Nat /\ Cardinality(Live) \in Nat
    BY OnFreeFinite, LiveFinite
  <1>6. Cardinality(OnFree) <= Cardinality(Live) + 1
    <2>1. Cardinality(Live \cup {Top}) \in Nat
      BY <1>2, FS_CardinalityType
    <2> QED  BY <1>2, <1>3, <1>5, <2>1
  <1>7. Total(Borrowings) + Cardinality(OnFree) = Total(running) + Total(dead) + Cardinality(Live)
    BY DEF IInv, Balance
  <1>8. pipe + Total(Borrowings) = Slots - 1
    BY DEF IInv, AddUp
  <1> QED  BY <1>4, <1>5, <1>6, <1>7, <1>8, JobServerAssumption

LEMMA StepOfLimit == ASSUME IInv, IInv', Next PROVE [Limit!Next]_(Total(running))
  <1>1. Total(running) \in 0 .. Slots /\ Total(running') \in 0 .. Slots
    <2>1. IInv => Total(running) \in 0 .. Slots
      BY RunningBound
    <2>2. (IInv => Total(running) \in 0 .. Slots)'
      BY RunningBound, PTL
    <2> QED  BY <2>1, <2>2
  <1> PICK m \in Makes : Make(m) \/ Signalled(m) \/ TimesOut(m) \/ CommandEnds(m)
    BY DEF Next
  <1>2. running \in [Makes -> Nat] /\ running' \in [Makes -> Nat]
    BY DEF IInv, Typed
  <1>3. CASE running' = [running EXCEPT ![m] = @ + 1]
    <2>1. Total(running') = Total(running) + 1
      BY <1>2, <1>3, TotalInc, MakesFinite
    <2> QED  BY <1>1, <2>1, JobServerAssumption DEF Limit!Next, Limit!Start
  <1>4. CASE running' = [running EXCEPT ![m] = @ - 1] /\ running[m] > 0
    <2>1. Total(running') = Total(running) - 1
      BY <1>2, <1>4, TotalDec, MakesFinite
    <2> QED  BY <1>1, <2>1, JobServerAssumption DEF Limit!Next, Limit!End
  <1>5. CASE running' = running
    BY <1>5
  <1>6. Make(m) => running' = running \/ running' = [running EXCEPT ![m] = @ + 1]
    BY DEF Make, NewJob, Reap, NothingToReap, Acquire, Ready, Read, Interrupted, StartJob, Exit, jobs
  <1> QED  BY <1>3, <1>4, <1>5, <1>6 DEF Signalled, TimesOut, CommandEnds, jobs

(* All makes of the tree together run at most -jN commands: each step of   *)
(* the makes is a step of that promise or invisible.                       *)
THEOREM Implements == Spec => ImplementsLimit
  <1>1. Init => Limit!Init
    <2> SUFFICES ASSUME Init PROVE Total(running) = 0
      BY DEF Limit!Init
    <2> QED  BY TotalZero, MakesFinite DEF Init, All
  <1>2. IInv /\ IInv' /\ [Next]_vars => [Limit!Next]_(Total(running))
    <2> SUFFICES ASSUME IInv, IInv', [Next]_vars PROVE [Limit!Next]_(Total(running))
      OBVIOUS
    <2>1. CASE UNCHANGED vars
      BY <2>1 DEF vars, jobs
    <2> QED  BY <2>1, StepOfLimit
  <1> QED  BY <1>1, <1>2, Inductive, PTL DEF Spec, ImplementsLimit, Limit!Spec
=============================================================================
