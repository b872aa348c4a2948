------------------------------- MODULE MCCanary -------------------------------
(***************************************************************************)
(* Inputs of CanaryState for TLC: an ordinary canary, which everything can *)
(* happen to, and others with one thing wrong, to which nothing does.      *)
(***************************************************************************)
EXTENDS CanaryState

Unbacked ==
    [owner |-> "escrow", reserve |-> 0, coins |-> 3, sol |-> 24, odd |-> {},
     terms |-> [backing |-> 2, captureFee |-> 0, path |-> 1],
     program |-> [owner |-> Loader, executable |-> TRUE, size |-> "exact", tag |-> 2,
                  programData |-> "programData"],
     data |-> [owner |-> Loader, executable |-> FALSE, size |-> "exact", tag |-> 3,
               option |-> 1, authority |-> "upgrader", elf |-> TRUE, hash |-> "reviewed",
               slot |-> 2]]

Backed == [Unbacked EXCEPT !.owner = Tester, !.reserve = 2, !.coins = 1]

Before == [Unbacked EXCEPT !.data.hash = "unreviewed", !.data.slot = 1]

Odd ==
    {[Unbacked EXCEPT !.odd = {o}] :
        o \in {"missing", "foreign", "undecodable", "binding", "supply", "inventory"}}
  \cup {[Backed EXCEPT !.owner = o] : o \in {"operator", "unknown"}}
  \cup {[Backed EXCEPT !.sol = 6], [Unbacked EXCEPT !.sol = 11], [Unbacked EXCEPT !.coins = 1],
        [Unbacked EXCEPT !.terms.path = 3], [Unbacked EXCEPT !.terms.path = 32],
        [Unbacked EXCEPT !.terms.backing = 3], [Unbacked EXCEPT !.program.tag = 3],
        [Unbacked EXCEPT !.program.programData = "other"], [Unbacked EXCEPT !.data.elf = FALSE],
        [Unbacked EXCEPT !.data.authority = "other"], [Unbacked EXCEPT !.data.option = 0]}

MCCanaryStarts == {<<Before, Unbacked>>, <<Before, Backed>>} \cup {<<Before, o, o, o>> : o \in Odd}

Configured == [published |-> "good", tester |-> Tester, env |-> Tester, devnet |-> TRUE, gate |-> "open"]

\* Nothing keeps the operator from being named as the tester.
OperatorTests == [Configured EXCEPT !.tester = None, !.env = "operator"]

MCCanarySetups ==
    {Configured, OperatorTests, [Configured EXCEPT !.published = "pins"], [Configured EXCEPT !.devnet = FALSE]}
  \cup {[Configured EXCEPT !.env = w] : w \in {None, "malformed", "stranger"}}
  \cup {[Configured EXCEPT !.tester = None], [Configured EXCEPT !.tester = None, !.env = None]}

CanaryStart ==
    /\ CanaryInit
    /\ CASE setup = Configured -> TRUE
         [] setup = OperatorTests -> devnet = <<Before, Unbacked>>
         [] OTHER -> Len(devnet) > 2 /\ Tip.odd = {"supply"}

CanaryParked ==
    devnet = <<>> /\ setup = Configured /\ query = NoQuery
=============================================================================
