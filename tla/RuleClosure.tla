---------------------------- MODULE RuleClosure ----------------------------
(***************************************************************************)
(* rule_closure of tools/arm64/source.py: the assembly rules reachable     *)
(* from the roots, found by a depth-first search that tolerates recursive  *)
(* grammars and refuses undefined rules.  visiting holds the calls of      *)
(* visit in progress, each with the references it has not looked at yet.   *)
(***************************************************************************)
EXTENDS Integers, Sequences, FiniteSets, SequencesExt

CONSTANTS
    Rules,      \* the rules the data defines
    Undefined,  \* names it may mention without defining them
    Roots       \* root sets there may be

ASSUME RuleAssumption == Rules \cap Undefined = {} /\ Roots \subseteq SUBSET (Rules \cup Undefined)

VARIABLES references, roots, pending, visiting, active, visited, search

closureVars == <<references, roots, pending, visiting, active, visited, search>>

\* visit(name): a name being visited or visited before is left alone.
Visit(name, frames) ==
    IF name \notin Rules
    THEN search' = "refused" /\ UNCHANGED <<visiting, active>>
    ELSE /\ UNCHANGED search
         /\ IF name \in active \/ name \in visited
            THEN visiting' = frames /\ UNCHANGED active
            ELSE /\ visiting' = Append(frames, [name |-> name, rest |-> references[name]])
                 /\ active' = active \cup {name}

VisitRoot(name) ==
    /\ search = "searching" /\ visiting = <<>> /\ name \in pending
    /\ pending' = pending \ {name}
    /\ Visit(name, visiting)
    /\ UNCHANGED <<references, roots, visited>>

VisitChild(name) ==
    /\ search = "searching" /\ visiting # <<>> /\ name \in Last(visiting).rest
    /\ Visit(name, Append(Front(visiting), [Last(visiting) EXCEPT !.rest = @ \ {name}]))
    /\ UNCHANGED <<references, roots, pending, visited>>

\* Mutant of Return: the rule is not marked.
ReturnUnmarked ==
    /\ search = "searching" /\ visiting # <<>> /\ Last(visiting).rest = {}
    /\ visiting' = Front(visiting)
    /\ active' = active \ {Last(visiting).name}
    /\ UNCHANGED <<references, roots, pending, visited, search>>

\* The end of a call of visit.
Return ==
    /\ search = "searching" /\ visiting # <<>> /\ Last(visiting).rest = {}
    /\ visiting' = Front(visiting)
    /\ active' = active \ {Last(visiting).name}
    /\ visited' = visited \cup {Last(visiting).name}
    /\ UNCHANGED <<references, roots, pending, search>>

FinishClosure ==
    /\ search = "searching" /\ visiting = <<>> /\ pending = {}
    /\ search' = "done"
    /\ UNCHANGED <<references, roots, pending, visiting, active, visited>>

ClosureInit ==
    /\ references \in [Rules -> SUBSET (Rules \cup Undefined)]
    /\ roots \in Roots
    /\ pending = roots
    /\ visiting = <<>> /\ active = {} /\ visited = {} /\ search = "searching"

ClosureNext == (\E name \in Rules \cup Undefined : VisitRoot(name) \/ VisitChild(name)) \/ Return \/ FinishClosure

ClosureSpec == ClosureInit /\ [][ClosureNext]_closureVars

-----------------------------------------------------------------------------
ClosureTypeOK ==
    /\ references \in [Rules -> SUBSET (Rules \cup Undefined)]
    /\ roots \subseteq Rules \cup Undefined /\ pending \subseteq roots
    /\ visiting \in Seq([name : Rules, rest : SUBSET (Rules \cup Undefined)])
    /\ active \subseteq Rules /\ visited \subseteq Rules
    /\ search \in {"searching", "refused", "done"}

Closed(S) == roots \subseteq S /\ \A n \in S \cap Rules : references[n] \subseteq S

\* The result is closed under references, and nothing in it could be missing
\* from a closed set: it is the least one, however the grammar recurses.
ResultIsTheClosure ==
    search = "done" =>
      /\ Closed(visited)
      /\ \A S \in SUBSET (Rules \cup Undefined) : Closed(S) => visited \subseteq S

\* A name that is refused is in every closed set.
RefusedForAReason ==
    search = "refused" =>
      \A S \in SUBSET (Rules \cup Undefined) : Closed(S) => S \cap Undefined # {}

\* No rule is in progress twice and none is entered again when it is finished,
\* so every rule is validated once.
EveryRuleOnce ==
    /\ \A m, n \in DOMAIN visiting : m # n => visiting[m].name # visiting[n].name
    /\ active = {visiting[n].name : n \in DOMAIN visiting}
    /\ active \cap visited = {}

\* The search returns the least closed set or refuses a name that is in every
\* closed set, and validates each rule once, so that it ends however the
\* grammar recurses (rule_closure).
ClosureIsExact ==
    /\ ResultIsTheClosure
    /\ RefusedForAReason
    /\ EveryRuleOnce
=============================================================================
