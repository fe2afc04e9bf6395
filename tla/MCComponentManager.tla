------------------------- MODULE MCComponentManager -------------------------
(* ComponentManager with a few libraries and short configurations.           *)
EXTENDS ComponentManager

MCNames == {"bridge", "connman", "executor", "final_haven"}
MCPlace == [n \in MCNames |-> CASE n = "bridge" -> 1
                                [] n = "connman" -> 2
                                [] n = "executor" -> 3
                                [] n = "final_haven" -> 4]

\* libspare provides what libexecutor does, libsilent nothing.
MCLibs == {"libhaven", "libexecutor", "libspare", "libconnman", "libsilent"}
MCInterfaces == {"FinalHaven", "Executor", "ConnMan"}
MCProvides == [l \in MCLibs |-> CASE l = "libhaven" -> {"FinalHaven"}
                                  [] l = "libconnman" -> {"ConnMan"}
                                  [] l = "libsilent" -> {}
                                  [] OTHER -> {"Executor"}]
MCDepends == [l \in MCLibs |-> CASE l = "libhaven" -> {}
                                 [] l = "libconnman" -> {"FinalHaven", "Executor"}
                                 [] OTHER -> {"FinalHaven"}]

Entry(n, l) == [name |-> n, lib |-> l]
Entries == {Entry("bridge", "libspare"), Entry("bridge", "libconnman"),
            Entry("connman", "libconnman"), Entry("connman", "libsilent"),
            Entry("executor", "libexecutor"), Entry("final_haven", "libspare"),
            Entry("executor", "libhaven")}

\* Any three entries after an entry called final_haven, and any two.
MCConfigurations ==
    {<<Entry("final_haven", l)>> \o s :
        l \in {"libhaven", "libexecutor"}, s \in [1..3 -> Entries]}
    \union [1..2 -> Entries]
=============================================================================
