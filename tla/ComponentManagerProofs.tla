----------------------- MODULE ComponentManagerProofs -----------------------
(***************************************************************************)
(* Dependencies outlive what needs them, code outlives what it is the code *)
(* of, components start by name, and the program runs with a launchable    *)
(* configuration only: for every configuration.                            *)
(***************************************************************************)
EXTENDS ComponentManager, SequenceTheorems, WellFoundedInduction, TLAPS

\* Registration goes forward, and takes a library once.
Registered ==
    /\ registry \subseteq 1..(next - 1)
    /\ alive \subseteq 1..(next - 1)
    /\ \A i \in Positions : holds[i] \subseteq 1..(i - 1)
    /\ phase # "ended" => \A i \in alive : Lib(i) \in loaded
    /\ \A i, j \in registry : Lib(i) = Lib(j) => i = j

\* What a component holds covers what it depends on, and exists.
Held ==
    \A i \in alive :
        /\ holds[i] \subseteq alive
        /\ \A d \in depends[Lib(i)] : \E j \in holds[i] : d \in provides[Lib(j)]

\* How far the two loops over the registry have come.
Loops ==
    /\ phase \in {"register", "wait", "closing", "ended"} => todo = {}
    /\ phase = "register" => inited = {} /\ started = {}
    /\ phase = "init" => started = {} /\ inited = registry \ todo
    /\ phase = "start" => inited = registry /\ started = registry \ todo
    /\ phase = "ended" => alive = {}

ManagerInv ==
    /\ TypeOK
    /\ Registered
    /\ Held
    /\ Loops
    /\ StartedByName

-----------------------------------------------------------------------------
(* A set of numbers has a least element, so First is well defined, and what  *)
(* lives and is held by nobody is found.                                     *)

\* A set of numbers that is not empty has a least one.
LEMMA Least == ASSUME NEW T \in SUBSET Nat, T # {}
               PROVE  \E x \in T : \A y \in T : x <= y
  <1> DEFINE R == {p \in Nat \X Nat : p[1] < p[2]}
  <1>1. IsWellFoundedOn(R, Nat)
    BY NatLessThanWellFounded DEF OpToRel
  <1>2. PICK x \in T : \A y \in T : ~(<<y, x>> \in R)
    <2> HIDE DEF R
    <2> QED
      BY WFMin, <1>1
  <1>3. ASSUME NEW y \in T PROVE x <= y
    <2>1. ~(<<y, x>> \in R)
      BY <1>2
    <2>2. x \in Nat /\ y \in Nat
      OBVIOUS
    <2>3. <<y, x>> \in Nat \X Nat
      BY <2>2
    <2>4. ~(y < x)
      BY <2>1, <2>3
    <2> QED
      BY <2>2, <2>4
  <1> QED
    BY <1>3

\* Every position of the components has a configured name and a library's path.
LEMMA EntryType == ASSUME TypeOK
                   PROVE  /\ Positions = 1..Len(entries)
                          /\ Len(entries) \in Nat
                          /\ \A i \in Positions : /\ Name(i) \in Names
                                                  /\ entries[i].lib \in Libs
  <1>1. entries \in Seq([name : Names, lib : Libs])
    BY ComponentManagerAssumption DEF TypeOK
  <1>2. Len(entries) \in Nat /\ DOMAIN entries = 1..Len(entries)
    BY <1>1, LenProperties
  <1>3. \A i \in DOMAIN entries : entries[i] \in [name : Names, lib : Libs]
    BY <1>1, <1>2, ElementOfSeq
  <1> QED
    BY <1>2, <1>3 DEF Positions, Name

\* First picks a position of S that no other position of S comes before in the map.
LEMMA FirstOfSet == ASSUME TypeOK, NEW S \in SUBSET Positions, S # {}
                    PROVE  /\ First(S) \in S
                           /\ \A j \in S : Place[Name(First(S))] <= Place[Name(j)]
  <1> DEFINE T == {Place[Name(i)] : i \in S}
  <1>1. T \in SUBSET Nat /\ T # {}
    BY EntryType, ComponentManagerAssumption
  <1>2. PICK x \in T : \A y \in T : x <= y
    <2> HIDE DEF T
    <2> QED
      BY <1>1, Least
  <1>3. \E i \in S : \A j \in S : Place[Name(i)] <= Place[Name(j)]
    BY <1>2
  <1> QED
    BY <1>3 DEF First

\* Without a registry, someone is held by nobody as long as anyone lives.
LEMMA OrphanFound == ASSUME ManagerInv, registry = {}, Orphans = {}
                     PROVE  alive = {}
  <1> SUFFICES ASSUME alive # {} PROVE FALSE
    OBVIOUS
  <1> DEFINE n == Len(entries)
             T == {n - i : i \in alive}
  <1>1. /\ n \in Nat
        /\ alive \subseteq 1..n
    BY EntryType DEF ManagerInv, TypeOK
  <1>2. T \in SUBSET Nat /\ T # {}
    BY <1>1
  <1>3. PICK x \in T : \A y \in T : x <= y
    <2> HIDE DEF T
    <2> QED
      BY <1>2, Least
  <1>4. PICK m \in alive : \A k \in alive : n - m <= n - k
    BY <1>3
  <1>5. ASSUME NEW k \in alive PROVE m \notin holds[k]
    <2>1. k \in Positions /\ holds[k] \subseteq 1..(k - 1)
      BY DEF ManagerInv, TypeOK, Registered
    <2>2. n - m <= n - k
      BY <1>4
    <2>3. m \in Nat /\ k \in Nat
      BY <1>1
    <2> HIDE DEF n
    <2>4. k <= m
      BY <1>1, <2>2, <2>3
    <2> QED
      BY <2>1, <2>3, <2>4
  <1> QED
    BY <1>5 DEF Orphans

-----------------------------------------------------------------------------
\* The manager starts in the invariant, with nothing loaded.
LEMMA InitManager == Init => ManagerInv
  <1> SUFFICES ASSUME Init PROVE ManagerInv
    OBVIOUS
  <1> USE DEF Init, Positions
  <1>1. TypeOK
    BY DEF TypeOK
  <1>2. Registered /\ Held /\ Loops /\ StartedByName
    BY DEF Registered, Held, Loops, StartedByName
  <1> QED
    BY <1>1, <1>2 DEF ManagerInv

\* What a step that leaves the configuration alone leaves alone.
LEMMA SameEntries == ASSUME entries' = entries
                     PROVE  /\ Positions' = Positions
                            /\ \A i : Name(i)' = Name(i) /\ Lib(i)' = Lib(i)
  BY DEF Positions, Name, Lib, LibOf

\* The library of an entry is one of the paths.
LEMMA LibType == ASSUME TypeOK, NEW i \in Positions
                 PROVE  Lib(i) \in Libs
  <1> DEFINE T == {j \in Positions : Name(j) = Name(i)}
             P(j) == /\ Name(j) = Name(i)
                     /\ \A k \in 1..(j - 1) : Name(k) # Name(i)
  <1>1. T \in SUBSET Nat /\ T # {}
    BY EntryType
  <1>2. PICK j \in T : \A k \in T : j <= k
    <2> HIDE DEF T
    <2> QED
      BY <1>1, Least
  <1>3. j \in Positions /\ P(j)
    <2>1. ASSUME NEW k \in 1..(j - 1) PROVE Name(k) # Name(i)
      BY <1>2, EntryType
    <2> QED
      BY <2>1
  <1>4. (CHOOSE k \in Positions : P(k)) \in Positions
    BY <1>3
  <1> QED
    BY <1>4, EntryType DEF Lib, LibOf

\* A component whose dependencies are met gets a registered provider of each.
LEMMA ResolvedType == ASSUME TypeOK, NEW i \in Positions, Satisfied(i)
                      PROVE  /\ Resolved(i) \subseteq registry
                             /\ \A d \in depends[Lib(i)] :
                                    \E j \in Resolved(i) : d \in provides[Lib(j)]
  <1>1. ASSUME NEW d \in depends[Lib(i)]
        PROVE First(Providers(d)) \in Providers(d)
    <2>1. Providers(d) \in SUBSET Positions /\ Providers(d) # {}
      BY DEF Providers, Satisfied, TypeOK
    <2> QED
      BY <2>1, FirstOfSet
  <1>2. \A d : Providers(d) \subseteq registry
    BY DEF Providers
  <1>3. Resolved(i) \subseteq registry
    BY <1>1, <1>2 DEF Resolved
  <1>4. ASSUME NEW d \in depends[Lib(i)]
        PROVE \E j \in Resolved(i) : d \in provides[Lib(j)]
    BY <1>1 DEF Resolved, Providers
  <1> QED
    BY <1>3, <1>4

\* Every call of the manager and of the loader keeps the invariant.
LEMMA NextManager == ManagerInv /\ [Next]_vars => ManagerInv'
  <1> SUFFICES ASSUME ManagerInv, [Next]_vars PROVE ManagerInv'
    OBVIOUS
  <1> USE DEF ManagerInv, manager, history
  <1>0. entries' = entries
    BY DEF Next, RegisterComponent, InitAndStart, Closing, LoadFails, ResolveFails,
        CreateThrows, Fail, Register, RegisterDone, InitComponent, InitDone,
        StartComponent, ComponentThrows, StartDone, NoHaven, Exit, Release, Destroy,
        Unload, vars
  <1>00. /\ Positions' = Positions
         /\ \A i : Name(i)' = Name(i) /\ Lib(i)' = Lib(i)
    BY <1>0, SameEntries
  <1>1. CASE LoadFails
    <2> USE <1>1, <1>0, <1>00 DEF LoadFails, Fail
    <2>1. TypeOK'
      BY DEF TypeOK, Loops, Registered
    <2>2. Registered'
      BY DEF TypeOK, Registered
    <2>3. Held'
      BY DEF TypeOK, Registered, Held, Orphans
    <2>4. Loops'
      BY DEF TypeOK, Loops
    <2>5. StartedByName'
      BY DEF TypeOK, Loops, StartedByName
    <2> QED
      BY <2>1, <2>2, <2>3, <2>4, <2>5
  <1>2. CASE ResolveFails
    <2> USE <1>2, <1>0, <1>00 DEF ResolveFails, Fail
    <2>0. Lib(next) \in Libs
      BY LibType
    <2>1. TypeOK'
      BY <2>0 DEF TypeOK, Loops, Registered
    <2>2. Registered'
      BY DEF TypeOK, Registered
    <2>3. Held'
      BY DEF TypeOK, Registered, Held, Orphans
    <2>4. Loops'
      BY DEF TypeOK, Loops
    <2>5. StartedByName'
      BY DEF TypeOK, Loops, StartedByName
    <2> QED
      BY <2>1, <2>2, <2>3, <2>4, <2>5
  <1>3. CASE CreateThrows
    <2> USE <1>3, <1>0, <1>00 DEF CreateThrows, Fail
    <2>0. Lib(next) \in Libs
      BY LibType
    <2>1. TypeOK'
      BY <2>0 DEF TypeOK, Loops, Registered
    <2>2. Registered'
      BY DEF TypeOK, Registered
    <2>3. Held'
      BY DEF TypeOK, Registered, Held, Orphans
    <2>4. Loops'
      BY DEF TypeOK, Loops
    <2>5. StartedByName'
      BY DEF TypeOK, Loops, StartedByName
    <2> QED
      BY <2>1, <2>2, <2>3, <2>4, <2>5
  <1>4. CASE Register
    <2> USE <1>4, <1>0, <1>00 DEF Register
    <2>0. /\ Lib(next) \in Libs
          /\ Resolved(next) \subseteq registry
          /\ \A d \in depends[Lib(next)] :
                \E j \in Resolved(next) : d \in provides[Lib(j)]
      BY LibType, ResolvedType
    <2>10. /\ next \in Nat /\ next \in Positions
          /\ Positions \subseteq Nat
          /\ next \notin registry /\ next \notin alive
      BY EntryType DEF TypeOK, Registered
    <2>11. phase = "register" /\ phase' = "register" /\ todo = {} /\ todo' = {}
      BY DEF Loops
    <2>1. TypeOK'
      <3>1. registry \subseteq registry' /\ Resolved(next) \subseteq Positions
        BY <2>0 DEF TypeOK
      <3>2. holds' \in [Positions -> SUBSET Positions]
        BY <2>10, <3>1 DEF TypeOK
      <3>3. alive' \subseteq Positions /\ registry' \subseteq alive'
        BY <2>10 DEF TypeOK
      <3>4. next' \in Nat /\ loaded' \subseteq Libs
        BY <2>0, <2>10 DEF TypeOK
      <3> QED
        BY <3>1, <3>2, <3>3, <3>4, <2>11 DEF TypeOK
    <2>2. Registered'
      <3>1. 1..(next' - 1) = 1..(next - 1) \union {next}
        <4>1. next \in Nat \ {0} /\ next' = next + 1
          BY <2>10, EntryType
        <4> HIDE <1>4
        <4> QED
          BY <4>1
      <3>2. registry' \subseteq 1..(next' - 1) /\ alive' \subseteq 1..(next' - 1)
        BY <3>1 DEF Registered
      <3>3. Resolved(next) \subseteq 1..(next - 1)
        BY <2>0 DEF Registered
      <3>4. \A i \in Positions : holds'[i] \subseteq 1..(i - 1)
        BY <3>3, <2>10 DEF Registered, TypeOK
      <3>5. \A i \in alive' : Lib(i) \in loaded'
        BY <2>11 DEF Registered
      <3>6. \A i \in registry : Lib(i) # Lib(next)
        BY <2>11 DEF Registered, TypeOK
      <3>7. \A i, j \in registry' : Lib(i) = Lib(j) => i = j
        BY <3>6 DEF Registered
      <3> QED
        BY <3>2, <3>4, <3>5, <3>7 DEF Registered
    <2>3. Held'
      <3>1. ASSUME NEW i \in alive', i # next
            PROVE i \in alive /\ holds'[i] = holds[i]
        BY <3>1 DEF TypeOK
      <3>2. next \in alive' => holds'[next] = Resolved(next)
        BY <2>10 DEF TypeOK
      <3>3. alive \subseteq alive' /\ Resolved(next) \subseteq alive
        BY <2>0 DEF TypeOK
      <3> QED
        BY <2>0, <3>1, <3>2, <3>3 DEF Held
    <2>4. Loops'
      BY <2>11 DEF Loops
    <2>5. StartedByName'
      BY <2>11 DEF Loops, StartedByName
    <2> QED
      BY <2>1, <2>2, <2>3, <2>4, <2>5
  <1>5. CASE RegisterDone
    <2> USE <1>5, <1>0, <1>00 DEF RegisterDone
    <2>1. TypeOK'
      BY DEF TypeOK, Loops, Registered
    <2>2. Registered'
      BY DEF TypeOK, Registered
    <2>3. Held'
      BY DEF TypeOK, Registered, Held, Orphans
    <2>4. Loops'
      BY DEF TypeOK, Loops
    <2>5. StartedByName'
      BY DEF TypeOK, Loops, StartedByName
    <2> QED
      BY <2>1, <2>2, <2>3, <2>4, <2>5
  <1>6. CASE InitComponent
    <2> USE <1>6, <1>0, <1>00 DEF InitComponent
    <2>0. /\ First(todo) \in todo
          /\ \A j \in todo : Place[Name(First(todo))] <= Place[Name(j)]
      <3>1. todo \in SUBSET Positions /\ todo # {}
        BY DEF TypeOK
      <3> QED
        BY <3>1, FirstOfSet
    <2>1. TypeOK'
      BY <2>0 DEF TypeOK
    <2>2. Registered'
      BY DEF TypeOK, Registered
    <2>3. Held'
      BY DEF TypeOK, Registered, Held
    <2>4. Loops'
      BY <2>0 DEF TypeOK, Loops
    <2>5. StartedByName'
      BY DEF Loops, StartedByName
    <2> QED
      BY <2>1, <2>2, <2>3, <2>4, <2>5
  <1>7. CASE InitDone
    <2> USE <1>7, <1>0, <1>00 DEF InitDone
    <2>1. TypeOK'
      BY DEF TypeOK, Loops, Registered
    <2>2. Registered'
      BY DEF TypeOK, Registered
    <2>3. Held'
      BY DEF TypeOK, Registered, Held, Orphans
    <2>4. Loops'
      BY DEF TypeOK, Loops
    <2>5. StartedByName'
      BY DEF TypeOK, Loops, StartedByName
    <2> QED
      BY <2>1, <2>2, <2>3, <2>4, <2>5
  <1>8. CASE StartComponent
    <2> USE <1>8, <1>0, <1>00 DEF StartComponent
    <2>0. /\ First(todo) \in todo
          /\ \A j \in todo : Place[Name(First(todo))] <= Place[Name(j)]
      <3>1. todo \in SUBSET Positions /\ todo # {}
        BY DEF TypeOK
      <3> QED
        BY <3>1, FirstOfSet
    <2>1. TypeOK'
      BY <2>0 DEF TypeOK
    <2>2. Registered'
      BY DEF TypeOK, Registered
    <2>3. Held'
      BY DEF TypeOK, Registered, Held
    <2>4. Loops'
      BY <2>0 DEF TypeOK, Loops
    <2>5. StartedByName'
      <3> DEFINE f == First(todo)
      <3>1. /\ f \in todo /\ f \in registry /\ f \in Positions
            /\ inited = registry /\ started = registry \ todo
            /\ inited' = inited /\ started' = started \union {f}
        BY <2>0 DEF TypeOK, Loops
      <3>2. ASSUME NEW j \in inited' \ started' PROVE Place[Name(f)] < Place[Name(j)]
        <4>1. j \in registry /\ j \in todo /\ j \in Positions /\ j # f
          BY <3>1 DEF TypeOK
        <4>2. Name(j) # Name(f)
          <5>1. Lib(j) # Lib(f)
            BY <4>1, <3>1 DEF Registered
          <5> QED
            BY <5>1 DEF Lib
        <4>3. Name(j) \in Names /\ Name(f) \in Names
          BY <3>1, <4>1, EntryType
        <4>4. /\ Place[Name(f)] # Place[Name(j)]
              /\ Place[Name(f)] \in Nat /\ Place[Name(j)] \in Nat
          BY <4>2, <4>3, ComponentManagerAssumption
        <4>5. Place[Name(f)] <= Place[Name(j)]
          BY <2>0, <4>1
        <4> QED
          BY <4>4, <4>5
      <3>3. ASSUME NEW i \in started, NEW j \in inited' \ started'
            PROVE Place[Name(i)] < Place[Name(j)]
        <4>1. j \in inited \ started
          BY <3>1
        <4> QED
          BY <4>1 DEF StartedByName
      <3>4. Place' = Place
        OBVIOUS
      <3> HIDE DEF f
      <3> QED
        BY <3>1, <3>2, <3>3, <3>4 DEF StartedByName
    <2> QED
      BY <2>1, <2>2, <2>3, <2>4, <2>5
  <1>9. CASE ComponentThrows
    <2> USE <1>9, <1>0, <1>00 DEF ComponentThrows, Fail
    <2>1. TypeOK'
      BY DEF TypeOK, Loops, Registered
    <2>2. Registered'
      BY DEF TypeOK, Registered
    <2>3. Held'
      BY DEF TypeOK, Registered, Held, Orphans
    <2>4. Loops'
      BY DEF TypeOK, Loops
    <2>5. StartedByName'
      BY DEF TypeOK, Loops, StartedByName
    <2> QED
      BY <2>1, <2>2, <2>3, <2>4, <2>5
  <1>10. CASE StartDone
    <2> USE <1>10, <1>0, <1>00 DEF StartDone
    <2>1. TypeOK'
      BY DEF TypeOK, Loops, Registered
    <2>2. Registered'
      BY DEF TypeOK, Registered
    <2>3. Held'
      BY DEF TypeOK, Registered, Held, Orphans
    <2>4. Loops'
      BY DEF TypeOK, Loops
    <2>5. StartedByName'
      BY DEF TypeOK, Loops, StartedByName
    <2> QED
      BY <2>1, <2>2, <2>3, <2>4, <2>5
  <1>11. CASE NoHaven
    <2> USE <1>11, <1>0, <1>00 DEF NoHaven, Fail
    <2>1. TypeOK'
      BY DEF TypeOK, Loops, Registered
    <2>2. Registered'
      BY DEF TypeOK, Registered
    <2>3. Held'
      BY DEF TypeOK, Registered, Held, Orphans
    <2>4. Loops'
      BY DEF TypeOK, Loops
    <2>5. StartedByName'
      BY DEF TypeOK, Loops, StartedByName
    <2> QED
      BY <2>1, <2>2, <2>3, <2>4, <2>5
  <1>12. CASE Exit
    <2> USE <1>12, <1>0, <1>00 DEF Exit
    <2>1. TypeOK'
      BY DEF TypeOK, Loops, Registered
    <2>2. Registered'
      BY DEF TypeOK, Registered
    <2>3. Held'
      BY DEF TypeOK, Registered, Held, Orphans
    <2>4. Loops'
      BY DEF TypeOK, Loops
    <2>5. StartedByName'
      BY DEF TypeOK, Loops, StartedByName
    <2> QED
      BY <2>1, <2>2, <2>3, <2>4, <2>5
  <1>13. ASSUME NEW i \in Positions, Release(i) PROVE ManagerInv'
    <2> USE <1>13, <1>0, <1>00 DEF Release
    <2>1. TypeOK'
      BY DEF TypeOK, Loops, Registered
    <2>2. Registered'
      BY DEF TypeOK, Registered
    <2>3. Held'
      BY DEF TypeOK, Registered, Held, Orphans
    <2>4. Loops'
      BY DEF TypeOK, Loops
    <2>5. StartedByName'
      BY DEF TypeOK, Loops, StartedByName
    <2> QED
      BY <2>1, <2>2, <2>3, <2>4, <2>5
  <1>14. ASSUME NEW i \in Positions, Destroy(i) PROVE ManagerInv'
    <2> USE <1>14, <1>0, <1>00 DEF Destroy
    <2>1. TypeOK'
      BY DEF TypeOK, Loops, Orphans
    <2>2. Registered'
      BY DEF TypeOK, Registered
    <2>3. Held'
      BY DEF TypeOK, Registered, Held, Orphans
    <2>4. Loops'
      BY DEF TypeOK, Loops
    <2>5. StartedByName'
      BY DEF TypeOK, Loops, StartedByName
    <2> QED
      BY <2>1, <2>2, <2>3, <2>4, <2>5
  <1>15. CASE Unload
    <2> USE <1>15, <1>0, <1>00 DEF Unload
    <2>1. TypeOK'
      BY DEF TypeOK, Loops, Registered
    <2>2. Registered'
      BY DEF TypeOK, Registered
    <2>3. Held'
      BY DEF TypeOK, Registered, Held, Orphans
    <2>4. Loops'
      BY OrphanFound DEF Loops
    <2>5. StartedByName'
      BY DEF TypeOK, Loops, StartedByName
    <2> QED
      BY <2>1, <2>2, <2>3, <2>4, <2>5
  <1>16. CASE UNCHANGED vars
    <2>1. TypeOK' /\ Registered' /\ Held' /\ Loops' /\ StartedByName'
      BY <1>16, <1>0, <1>00 DEF vars, TypeOK, Registered, Held, Loops, StartedByName
    <2> QED
      BY <2>1
  <1> QED
    BY <1>1, <1>2, <1>3, <1>4, <1>5, <1>6, <1>7, <1>8, <1>9,
       <1>10, <1>11, <1>12, <1>13, <1>14, <1>15, <1>16
       DEF Next, RegisterComponent, InitAndStart, Closing

\* So it holds in every reachable state.
LEMMA Invariance == Spec => []ManagerInv
  BY InitManager, NextManager, PTL DEF Spec

-----------------------------------------------------------------------------
\* The variables have their types.
THEOREM TypeCorrectness == Spec => []TypeOK
  BY Invariance, PTL DEF ManagerInv

\* Whatever the configuration, wherever the launch fails and in whatever order
\* the registry is cleared, what a component depends on exists as long as it.
THEOREM DependenciesAreMet == Spec => []DependenciesMet
  <1>1. ManagerInv => DependenciesMet
    BY DEF ManagerInv, Held, DependenciesMet
  <1> QED
    BY <1>1, Invariance, PTL

\* No component's code is unloaded under it, and the manager leaves none.
THEOREM CodeIsLoaded == Spec => []CodeStaysLoaded
  <1>1. ManagerInv => CodeStaysLoaded
    BY DEF ManagerInv, Registered, Loops, CodeStaysLoaded
  <1> QED
    BY <1>1, Invariance, PTL

\* What is started goes before what is not, by name.
THEOREM StartIsByName == Spec => []StartedByName
  BY Invariance, PTL DEF ManagerInv

-----------------------------------------------------------------------------
(* Registering one component at a time reads the configuration as a whole:   *)
(* the inductive invariant behind LaunchedAsConfigured.                      *)

Read == 1..(next - 1)

\* What is registered is as Launchable wants it.
ReadSoFar ==
    /\ next \in Nat \ {0}
    /\ Read \subseteq Positions
    /\ \A i, j \in Read : i # j => /\ Name(i) # Name(j)
                                   /\ entries[i].lib # entries[j].lib
    /\ \A i \in Read : \A d \in depends[entries[i].lib] :
          \E j \in 1..(i - 1) : d \in provides[entries[j].lib]

\* Until the manager goes, the registry is what was read and provides anything.
Launching ==
    /\ phase = "register" => loaded = {entries[i].lib : i \in Read}
    /\ phase \in {"register", "init", "start", "wait"} =>
          /\ registry = Read \intersect Usable
          /\ result = "none"
    /\ phase \in {"init", "start"} => Read = Positions

ReadInv ==
    /\ ManagerInv
    /\ ReadSoFar
    /\ Launching
    /\ LaunchedAsConfigured

\* A name the map of the parser has not met before brings its own library.
LEMMA OwnLibrary ==
    ASSUME TypeOK, NEW i \in Positions, \A k \in 1..(i - 1) : Name(k) # Name(i)
    PROVE  Lib(i) = entries[i].lib
  <1> DEFINE P(j) == /\ Name(j) = Name(i)
                     /\ \A k \in 1..(j - 1) : Name(k) # Name(i)
  <1>1. Positions = 1..Len(entries) /\ Len(entries) \in Nat
    BY EntryType
  <1>2. ASSUME NEW j \in Positions, P(j) PROVE j = i
    <2>1. j \in Nat /\ i \in Nat /\ 1 <= i /\ 1 <= j
      BY <1>1
    <2>2. ~(j < i)
      BY <1>2, <2>1
    <2>3. ~(i < j)
      BY <1>2, <2>1
    <2> QED
      BY <2>1, <2>2, <2>3
  <1>3. P(i)
    OBVIOUS
  <1>4. (CHOOSE j \in Positions : P(j)) = i
    <2> HIDE DEF P
    <2> QED
      BY <1>2, <1>3
  <1> QED
    BY <1>4 DEF Lib, LibOf

\* What was read is in its own library.
LEMMA ReadLibrary == ASSUME TypeOK, ReadSoFar, NEW i \in Read
                     PROVE  i \in Positions /\ Lib(i) = entries[i].lib
  <1>1. i \in Positions
    BY DEF ReadSoFar
  <1>2. ASSUME NEW k \in 1..(i - 1) PROVE Name(k) # Name(i)
    <2>1. k \in Read /\ k # i
      BY DEF Read, ReadSoFar
    <2> QED
      BY <2>1 DEF ReadSoFar
  <1> QED
    BY <1>1, <1>2, OwnLibrary

\* The next component, if its library is new, has a new name as well.
LEMMA NextIsNew ==
    ASSUME ReadInv, phase = "register", next \in Positions,
           Lib(next) \notin loaded
    PROVE  /\ \A i \in Read : /\ Name(i) # Name(next)
                              /\ entries[i].lib # entries[next].lib
           /\ Lib(next) = entries[next].lib
  <1>1. TypeOK /\ ReadSoFar /\ loaded = {entries[i].lib : i \in Read}
    BY DEF ReadInv, ManagerInv, Launching
  <1>2. ASSUME NEW i \in Read PROVE Name(i) # Name(next)
    <2>1. Lib(i) \in loaded
      BY <1>1, ReadLibrary
    <2> QED
      BY <2>1 DEF Lib
  <1>3. Lib(next) = entries[next].lib
    BY <1>1, <1>2, OwnLibrary DEF Read
  <1> QED
    BY <1>1, <1>2, <1>3

\* In a launchable configuration the next name is new.
LEMMA LaunchableNext ==
    ASSUME ReadInv, next \in Positions, Launchable
    PROVE  Lib(next) = entries[next].lib
  <1>1. ASSUME NEW k \in 1..(next - 1) PROVE Name(k) # Name(next)
    <2>1. k \in Positions /\ k # next
      BY DEF ReadInv, ReadSoFar, Read
    <2> QED
      BY <2>1 DEF Launchable
  <1> QED
    BY <1>1, OwnLibrary DEF ReadInv, ManagerInv

\* What a step that leaves the configuration alone leaves to be said of it.
LEMMA SameConfiguration ==
    ASSUME entries' = entries
    PROVE  Launchable' = Launchable /\ Usable' = Usable
  BY DEF Launchable, Usable, Positions, Name

\* Nothing has been read at first.
LEMMA InitRead == Init => ReadInv
  <1> SUFFICES ASSUME Init PROVE ReadInv
    OBVIOUS
  <1>1. ManagerInv
    BY InitManager
  <1>2. next = 1 /\ Read = {}
    BY DEF Init, Read
  <1>3. ReadSoFar /\ Launching /\ LaunchedAsConfigured
    BY <1>2 DEF Init, ReadSoFar, Launching, LaunchedAsConfigured
  <1> QED
    BY <1>1, <1>3 DEF ReadInv

\* Every step of the launcher and of the manager keeps the invariant.
LEMMA NextRead == ReadInv /\ [Next]_vars => ReadInv'
  <1> SUFFICES ASSUME ReadInv, [Next]_vars PROVE ReadInv'
    OBVIOUS
  <1>0. /\ ManagerInv /\ ManagerInv' /\ TypeOK /\ Registered /\ Loops
        /\ ReadSoFar /\ Launching /\ LaunchedAsConfigured
    BY NextManager DEF ReadInv, ManagerInv
  <1>e. entries' = entries
    BY DEF Next, RegisterComponent, InitAndStart, Closing, LoadFails, ResolveFails,
        CreateThrows, Fail, Register, RegisterDone, InitComponent, InitDone,
        StartComponent, ComponentThrows, StartDone, NoHaven, Exit, Release, Destroy,
        Unload, vars
  <1>s. /\ Launchable' = Launchable /\ Usable' = Usable
        /\ Positions' = Positions
        /\ \A i : Name(i)' = Name(i) /\ Lib(i)' = Lib(i)
    BY <1>e, SameConfiguration, SameEntries
  <1> USE <1>0, <1>e, <1>s DEF manager, history
  <1>1. ASSUME next' = next PROVE ReadSoFar' /\ Read' = Read
    BY <1>1 DEF ReadSoFar, Read
  <1>2. CASE LoadFails
    <2>1. ~threw' => ~Launchable
      <3> SUFFICES ASSUME ~threw', Launchable PROVE FALSE
        OBVIOUS
      <3>1. Lib(next) \in loaded /\ next \in Positions /\ phase = "register"
        BY <1>2 DEF LoadFails
      <3>2. Lib(next) = entries[next].lib
        BY <3>1, LaunchableNext
      <3>3. PICK i \in Read : entries[i].lib = entries[next].lib
        BY <3>1, <3>2 DEF Launching
      <3>4. i \in Positions /\ i # next
        BY DEF ReadSoFar, Read
      <3> QED
        BY <3>1, <3>3, <3>4 DEF Launchable
    <2>2. Launching' /\ LaunchedAsConfigured'
      BY <1>2, <2>1 DEF LoadFails, Fail, Launching, LaunchedAsConfigured
    <2> QED
      BY <1>1, <1>2, <2>2 DEF LoadFails, Fail, ReadInv
  <1>3. CASE ResolveFails
    <2>1. ~Launchable
      <3> SUFFICES ASSUME Launchable PROVE FALSE
        OBVIOUS
      <3>1. next \in Positions /\ phase = "register" /\ ~Satisfied(next)
        BY <1>3 DEF ResolveFails
      <3>2. Lib(next) = entries[next].lib
        BY <3>1, LaunchableNext
      <3>3. PICK d \in depends[entries[next].lib] : Providers(d) = {}
        BY <3>1, <3>2 DEF Satisfied
      <3>4. PICK j \in Read : d \in provides[entries[j].lib]
        BY <3>1 DEF Launchable, Read
      <3>5. j \in registry /\ Lib(j) = entries[j].lib
        BY <3>1, <3>4, ReadLibrary DEF Launching, Usable
      <3> QED
        BY <3>3, <3>4, <3>5 DEF Providers
    <2>2. Launching' /\ LaunchedAsConfigured'
      BY <1>3, <2>1 DEF ResolveFails, Fail, Launching, LaunchedAsConfigured
    <2> QED
      BY <1>1, <1>3, <2>2 DEF ResolveFails, Fail, ReadInv
  <1>4. CASE CreateThrows \/ ComponentThrows
    <2>1. Launching' /\ LaunchedAsConfigured'
      BY <1>4 DEF CreateThrows, ComponentThrows, Fail, Launching, LaunchedAsConfigured
    <2> QED
      BY <1>1, <1>4, <2>1 DEF CreateThrows, ComponentThrows, Fail, ReadInv
  <1>5. CASE Register
    <2>1. /\ phase = "register" /\ next \in Positions /\ Lib(next) \notin loaded
          /\ loaded' = loaded \union {Lib(next)} /\ Satisfied(next)
          /\ next' = next + 1 /\ phase' = "register" /\ result' = result
      BY <1>5 DEF Register
    <2>2. /\ \A i \in Read : /\ Name(i) # Name(next)
                             /\ entries[i].lib # entries[next].lib
          /\ Lib(next) = entries[next].lib
      BY <2>1, NextIsNew
    <2>3. Read' = Read \union {next} /\ next \in Nat \ {0}
      <3>1. next \in Nat \ {0}
        BY DEF ReadSoFar
      <3>2. Read' = 1..next
        BY <2>1, <3>1 DEF Read
      <3>3. 1..next = 1..(next - 1) \union {next}
        BY <3>1
      <3> QED
        BY <3>1, <3>2, <3>3 DEF Read
    <2>4. ASSUME NEW d \in depends[entries[next].lib]
          PROVE \E j \in Read : d \in provides[entries[j].lib]
      <3>1. PICK j \in registry : d \in provides[Lib(j)]
        BY <2>1, <2>2 DEF Satisfied, Providers
      <3>2. j \in Read /\ Lib(j) = entries[j].lib
        BY <2>1, <3>1, ReadLibrary DEF Launching
      <3> QED
        BY <3>1, <3>2
    <2>5. ReadSoFar'
      <3>1. next' \in Nat \ {0} /\ Read' \subseteq Positions
        BY <2>1, <2>3 DEF ReadSoFar
      <3>2. \A i, j \in Read' : i # j => /\ Name(i) # Name(j)
                                         /\ entries[i].lib # entries[j].lib
        BY <2>2, <2>3 DEF ReadSoFar
      <3>3. \A i \in Read' : \A d \in depends[entries[i].lib] :
               \E j \in 1..(i - 1) : d \in provides[entries[j].lib]
        BY <2>3, <2>4 DEF ReadSoFar, Read
      <3> QED
        BY <3>1, <3>2, <3>3 DEF ReadSoFar
    <2>6. registry' = Read' \intersect Usable
      <3>1. next \in Usable <=> provides[Lib(next)] # {}
        BY <2>1, <2>2 DEF Usable
      <3>2. registry' = IF provides[Lib(next)] # {}
                        THEN registry \union {next} ELSE registry
        BY <1>5 DEF Register
      <3> QED
        BY <2>1, <2>3, <3>1, <3>2 DEF Launching
    <2>7. loaded' = {entries[i].lib : i \in Read'}
      BY <2>1, <2>2, <2>3 DEF Launching
    <2>8. Launching' /\ LaunchedAsConfigured'
      BY <2>1, <2>6, <2>7 DEF Launching, LaunchedAsConfigured
    <2> QED
      BY <2>5, <2>8 DEF ReadInv
  <1>6. CASE RegisterDone
    <2>1. Read = Positions
      <3>1. /\ Positions = 1..Len(entries) /\ Len(entries) \in Nat
            /\ next \in Nat \ {0} /\ next \notin Positions /\ Read \subseteq Positions
        BY <1>6, EntryType DEF RegisterDone, ReadSoFar
      <3>2. next = Len(entries) + 1
        <4>1. next > Len(entries)
          BY <3>1
        <4>2. next - 1 \in Read \/ next = 1
          BY <3>1 DEF Read
        <4> QED
          BY <3>1, <4>1, <4>2
      <3> QED
        BY <3>1, <3>2 DEF Read
    <2>2. Launching' /\ LaunchedAsConfigured'
      BY <1>1, <1>6, <2>1 DEF RegisterDone, Launching, LaunchedAsConfigured
    <2> QED
      BY <1>1, <1>6, <2>2 DEF RegisterDone, ReadInv
  <1>7. CASE InitComponent \/ InitDone \/ StartComponent
    <2>1. Launching' /\ LaunchedAsConfigured'
      BY <1>1, <1>7
         DEF InitComponent, InitDone, StartComponent, Launching, LaunchedAsConfigured
    <2> QED
      BY <1>1, <1>7, <2>1 DEF InitComponent, InitDone, StartComponent, ReadInv
  <1>8. CASE StartDone
    <2>1. /\ phase = "start" /\ todo = {} /\ Havens # {} /\ next' = next
          /\ inited' = inited /\ started' = started /\ registry' = registry
          /\ \/ phase' = "wait" /\ result' = result
             \/ phase' = "closing" /\ result' = "success"
      BY <1>8 DEF StartDone
    <2>2. Read = Positions /\ registry = Usable
      BY <2>1 DEF Launching, Usable
    <2>3. inited = Usable /\ started = Usable
      BY <2>1, <2>2 DEF Loops
    <2>4. Launchable
      <3>1. \E i \in Positions : Name(i) = Haven /\ provides[entries[i].lib] # {}
        BY <2>1, <2>2 DEF Havens, Usable
      <3> QED
        BY <2>2, <3>1 DEF Launchable, ReadSoFar
    <2>5. Launching' /\ LaunchedAsConfigured'
      BY <1>1, <2>1, <2>3, <2>4 DEF Launching, LaunchedAsConfigured
    <2> QED
      BY <1>1, <2>1, <2>5 DEF ReadInv
  <1>9. CASE NoHaven
    <2>1. /\ phase = "start" /\ Havens = {} /\ next' = next
          /\ phase' = "closing" /\ result' = "failure"
      BY <1>9 DEF NoHaven, Fail
    <2>2. registry = Usable
      BY <2>1 DEF Launching, Usable
    <2>3. ~Launchable
      BY <2>1, <2>2 DEF Launchable, Havens, Usable
    <2>4. Launching' /\ LaunchedAsConfigured'
      BY <2>1, <2>3 DEF Launching, LaunchedAsConfigured
    <2> QED
      BY <1>1, <2>1, <2>4 DEF ReadInv
  <1>10. CASE Exit
    <2>1. Launching' /\ LaunchedAsConfigured'
      BY <1>10 DEF Exit, Launching, LaunchedAsConfigured
    <2> QED
      BY <1>1, <1>10, <2>1 DEF Exit, ReadInv
  <1>11. ASSUME Closing PROVE ReadInv'
    <2>1. /\ next' = next /\ result' = result /\ inited' = inited
          /\ started' = started /\ threw' = threw
          /\ phase \in {"closing", "ended"} => phase' \in {"closing", "ended"}
          /\ phase \notin {"closing", "ended"} =>
                phase' = phase /\ registry' = registry /\ loaded' = loaded
      BY <1>11 DEF Closing, Release, Destroy, Unload
    <2>2. Launching' /\ LaunchedAsConfigured'
      BY <1>1, <2>1 DEF TypeOK, Launching, LaunchedAsConfigured
    <2> QED
      BY <1>1, <2>1, <2>2 DEF ReadInv
  <1>12. CASE UNCHANGED vars
    <2>1. Launching' /\ LaunchedAsConfigured'
      BY <1>1, <1>12 DEF vars, Launching, LaunchedAsConfigured
    <2> QED
      BY <1>1, <1>12, <2>1 DEF vars, ReadInv
  <1> QED
    BY <1>2, <1>3, <1>4, <1>5, <1>6, <1>7, <1>8, <1>9, <1>10, <1>11, <1>12
       DEF Next, RegisterComponent, InitAndStart

\* The program runs only as configured, and refuses nothing else unprovoked.
THEOREM LaunchIsAsConfigured == Spec => []LaunchedAsConfigured
  BY InitRead, NextRead, PTL DEF Spec, ReadInv
=============================================================================
