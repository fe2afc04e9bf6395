-------------------------- MODULE ComponentManager --------------------------
(***************************************************************************)
(* CLauncher and CComponentManager: the life of the components.            *)
(*                                                                         *)
(* The launcher registers the components in the order of the               *)
(* configuration, then initialises all and starts all in the order of      *)
(* their names, waits, and lets the manager go. A component is known by    *)
(* its position in the configuration. It keeps what its dependencies were  *)
(* resolved to alive by shared pointers, and lives as long as the registry *)
(* or another component holds it. Everything runs on the main thread; what *)
(* the components' own threads do is in the other modules.                 *)
(***************************************************************************)
EXTENDS Integers, Sequences, FiniteSets

CONSTANTS
    Names,          \* the names of components
    Place,          \* the place of each name in the order of std::string
    Haven,          \* "final_haven"
    Libs,           \* the libraries
    Interfaces,     \* pairs of name and type, as in InterfaceTypeInfo
    ReportsTo,      \* the interface "FinalHaven"
    provides,       \* the interfaces a library's component registers
    depends,        \* the interfaces it needs
    Configurations  \* the lists of components a configuration may hold

ASSUME ComponentManagerAssumption ==
    /\ Place \in [Names -> Nat]
    /\ \A m, n \in Names : Place[m] = Place[n] => m = n
    /\ provides \in [Libs -> SUBSET Interfaces]
    /\ depends \in [Libs -> SUBSET Interfaces]
    /\ Configurations \subseteq Seq([name : Names, lib : Libs])

VARIABLES
    entries,   \* m_components_name, with what the file says of each
    next,      \* the launcher's place in it
    phase,     \* what the launcher is doing
    loaded,    \* m_libraries
    alive,     \* the components that exist
    holds,     \* the components each one keeps alive
    registry,  \* m_registered_components
    todo,      \* what the loop over the registry has still to visit
    result,    \* what startApplication returns
    (* History variables, read by the properties only. *)
    inited, started,  \* the components initialised, and started
    threw             \* a component has thrown an exception

manager == <<loaded, alive, holds, registry>>
history == <<inited, started, threw>>
vars == <<entries, next, phase, loaded, alive, holds, registry, todo, result,
          inited, started, threw>>

Positions == DOMAIN entries

Init ==
    /\ entries \in Configurations
    /\ next = 1
    /\ phase = "register"
    /\ loaded = {}
    /\ alive = {}
    /\ holds = [i \in DOMAIN entries |-> {}]
    /\ registry = {}
    /\ todo = {}
    /\ result = "none"
    /\ inited = {}
    /\ started = {}
    /\ threw = FALSE

-----------------------------------------------------------------------------
(* Registration.                                                             *)

Name(i) == entries[i].name

\* The map of the parser keeps the first library given for a name.
LibOf(n) ==
    LET first == CHOOSE j \in Positions :
                    /\ Name(j) = n
                    /\ \A k \in 1..(j - 1) : Name(k) # n
    IN entries[first].lib

Lib(i) == LibOf(Name(i))

\* The first of a set of components, as std::map goes through them, and its
\* mutant, which goes through them backwards.
First_Last(S) == CHOOSE i \in S : \A j \in S : Place[Name(i)] >= Place[Name(j)]

First(S) == CHOOSE i \in S : \A j \in S : Place[Name(i)] <= Place[Name(j)]

Providers(d) == {j \in registry : d \in provides[Lib(j)]}

Satisfied(i) == \A d \in depends[Lib(i)] : Providers(d) # {}

Resolved(i) == {First(Providers(d)) : d \in depends[Lib(i)]}

\* An exception leaves the launcher's try block, and the manager with it.
Fail ==
    /\ phase' = "closing"
    /\ result' = "failure"
    /\ todo' = {}
    /\ UNCHANGED <<entries, next, alive, holds, registry, inited, started>>

\* The library was loaded before, or cannot be.
LoadFails ==
    /\ phase = "register" /\ next \in Positions
    /\ \/ Lib(next) \in loaded /\ UNCHANGED threw
       \/ Lib(next) \notin loaded /\ threw' = TRUE
    /\ Fail
    /\ UNCHANGED loaded

ResolveFails ==
    /\ phase = "register" /\ next \in Positions
    /\ Lib(next) \notin loaded
    /\ loaded' = loaded \union {Lib(next)}
    /\ ~Satisfied(next)
    /\ Fail
    /\ UNCHANGED threw

CreateThrows ==
    /\ phase = "register" /\ next \in Positions
    /\ Lib(next) \notin loaded
    /\ loaded' = loaded \union {Lib(next)}
    /\ Satisfied(next)
    /\ Fail
    /\ threw' = TRUE

\* Mutant of Register: the dependencies are kept as weak pointers.
Register_Weak ==
    /\ phase = "register" /\ next \in Positions
    /\ Lib(next) \notin loaded
    /\ loaded' = loaded \union {Lib(next)}
    /\ Satisfied(next)
    /\ IF provides[Lib(next)] # {}
       THEN /\ registry' = registry \union {next}
            /\ alive' = alive \union {next}
       ELSE UNCHANGED <<registry, alive>>
    /\ holds' = [holds EXCEPT ![next] = Resolved(next) \ registry]
    /\ next' = next + 1
    /\ UNCHANGED <<entries, phase, todo, result, history>>

\* Mutant of Register: a library is loaded as often as it is named.
Register_Reload ==
    /\ phase = "register" /\ next \in Positions
    /\ loaded' = loaded \union {Lib(next)}
    /\ Satisfied(next)
    /\ registry' = registry \union {next}
    /\ alive' = alive \union {next}
    /\ holds' = [holds EXCEPT ![next] = Resolved(next)]
    /\ next' = next + 1
    /\ UNCHANGED <<entries, phase, todo, result, history>>

\* The registry takes the component while it goes through its interfaces:
\* one that provides none is gone at the end of the call.
Register ==
    /\ phase = "register" /\ next \in Positions
    /\ Lib(next) \notin loaded
    /\ loaded' = loaded \union {Lib(next)}
    /\ Satisfied(next)
    /\ IF provides[Lib(next)] # {}
       THEN /\ registry' = registry \union {next}
            /\ alive' = alive \union {next}
            /\ holds' = [holds EXCEPT ![next] = Resolved(next)]
       ELSE UNCHANGED <<registry, alive, holds>>
    /\ next' = next + 1
    /\ UNCHANGED <<entries, phase, todo, result, history>>

-----------------------------------------------------------------------------
(* initAndStartComponents, and the launcher until it leaves.                 *)

RegisterDone ==
    /\ phase = "register" /\ next \notin Positions
    /\ phase' = "init"
    /\ todo' = registry
    /\ UNCHANGED <<entries, next, manager, result, history>>

\* initComponent of the next component in the order of the names.
InitComponent ==
    /\ phase = "init" /\ todo # {}
    /\ todo' = todo \ {First(todo)}
    /\ inited' = inited \union {First(todo)}
    /\ UNCHANGED <<entries, next, phase, manager, result, started, threw>>

InitDone ==
    /\ phase = "init" /\ todo = {}
    /\ phase' = "start"
    /\ todo' = registry
    /\ UNCHANGED <<entries, next, manager, result, history>>

StartComponent ==
    /\ phase = "start" /\ todo # {}
    /\ todo' = todo \ {First(todo)}
    /\ started' = started \union {First(todo)}
    /\ UNCHANGED <<entries, next, phase, manager, result, inited, threw>>

ComponentThrows ==
    /\ phase \in {"init", "start"} /\ todo # {}
    /\ threw' = TRUE
    /\ Fail
    /\ UNCHANGED loaded

Havens == {i \in registry : Name(i) = Haven}

\* The launcher waits for reports only if final_haven provides FinalHaven.
StartDone ==
    /\ phase = "start" /\ todo = {}
    /\ Havens # {}
    /\ IF \E i \in Havens : ReportsTo \in provides[Lib(i)]
       THEN phase' = "wait" /\ UNCHANGED result
       ELSE phase' = "closing" /\ result' = "success"
    /\ UNCHANGED <<entries, next, manager, todo, history>>

NoHaven ==
    /\ phase = "start" /\ todo = {}
    /\ Havens = {}
    /\ Fail
    /\ UNCHANGED <<loaded, threw>>

\* A user or critical report has come (FinalHaven).
Exit ==
    /\ phase = "wait"
    /\ phase' = "closing"
    /\ result' = "success"
    /\ UNCHANGED <<entries, next, manager, todo, history>>

-----------------------------------------------------------------------------
(* The manager goes: first the registry, in no order the standard gives,     *)
(* then the libraries.                                                       *)

\* What nothing holds any more: its destructor is next.
Orphans == {i \in alive \ registry : \A k \in alive : i \notin holds[k]}

Release(i) ==
    /\ phase = "closing"
    /\ Orphans = {}
    /\ i \in registry
    /\ registry' = registry \ {i}
    /\ UNCHANGED <<entries, next, phase, loaded, alive, holds, todo, result,
                   history>>

\* Mutant of Destroy: the manager deletes what others still hold.
Destroy_Held(i) ==
    /\ phase = "closing"
    /\ i \in alive
    /\ alive' = alive \ {i}
    /\ UNCHANGED <<entries, next, phase, loaded, holds, registry, todo, result,
                   history>>

Destroy(i) ==
    /\ i \in Orphans
    /\ alive' = alive \ {i}
    /\ UNCHANGED <<entries, next, phase, loaded, holds, registry, todo, result,
                   history>>

\* Mutant of Unload: m_loader is declared after m_registered_components.
Unload_First ==
    /\ phase = "closing"
    /\ loaded # {}
    /\ loaded' = {}
    /\ UNCHANGED <<entries, next, phase, alive, holds, registry, todo, result,
                   history>>

Unload ==
    /\ phase = "closing"
    /\ Orphans = {} /\ registry = {}
    /\ loaded' = {}
    /\ phase' = "ended"
    /\ UNCHANGED <<entries, next, alive, holds, registry, todo, result, history>>

-----------------------------------------------------------------------------
RegisterComponent == LoadFails \/ ResolveFails \/ CreateThrows \/ Register

InitAndStart ==
    \/ RegisterDone \/ InitComponent \/ InitDone \/ StartComponent
    \/ ComponentThrows

Closing == Unload \/ \E i \in Positions : Release(i) \/ Destroy(i)

Next == RegisterComponent \/ InitAndStart \/ StartDone \/ NoHaven \/ Exit \/ Closing

Spec == Init /\ [][Next]_vars

-----------------------------------------------------------------------------
(* Properties.                                                               *)

\* The types of the variables.
TypeOK ==
    /\ entries \in Configurations
    /\ next \in Nat
    /\ phase \in {"register", "init", "start", "wait", "closing", "ended"}
    /\ loaded \subseteq Libs
    /\ alive \subseteq Positions
    /\ holds \in [Positions -> SUBSET Positions]
    /\ registry \subseteq alive
    /\ todo \subseteq registry
    /\ result \in {"none", "success", "failure"}
    /\ inited \subseteq Positions
    /\ started \subseteq Positions
    /\ threw \in BOOLEAN

\* What a configuration has to be, read as a whole: every component once,
\* after what it depends on, and one to report to.
Launchable ==
    /\ \A i, j \in Positions : i # j => /\ Name(i) # Name(j)
                                        /\ entries[i].lib # entries[j].lib
    /\ \A i \in Positions : \A d \in depends[entries[i].lib] :
          \E j \in 1..(i - 1) : d \in provides[entries[j].lib]
    /\ \E i \in Positions : Name(i) = Haven /\ provides[entries[i].lib] # {}

Usable == {i \in Positions : provides[entries[i].lib] # {}}

\* The program runs, and ends with success, only with every component of the
\* file that provides anything started. It refuses what is not launchable, and
\* nothing else but what a component or a library refuses: one component at a
\* time, registration comes to the same as reading the file as a whole.
LaunchedAsConfigured ==
    /\ phase = "wait" \/ result = "success" =>
          Launchable /\ started = Usable /\ inited = Usable
    /\ result = "failure" /\ ~threw => ~Launchable

\* As long as a component exists, its end under way included, so does what
\* it depends on, whatever the order in which the registry is cleared and
\* wherever the launch has failed.
DependenciesMet ==
    \A i \in alive : \A d \in depends[Lib(i)] :
        \E j \in alive : d \in provides[Lib(j)]

\* A component ends before the library its code is in is unloaded: nothing
\* is left when the manager is gone.
CodeStaysLoaded ==
    /\ \A i \in alive : Lib(i) \in loaded
    /\ phase = "ended" => alive = {}

\* Components are started in the order of their names, not in the order of
\* the configuration or of their dependencies. MqttLink rests on it: bridge
\* has subscribed its topics before executor starts the workers.
StartedByName ==
    \A i \in started, j \in inited \ started : Place[Name(i)] < Place[Name(j)]
=============================================================================
