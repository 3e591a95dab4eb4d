--------------------------- MODULE ValidationSeat ---------------------------
(***************************************************************************)
(* What the validator promises to the ERC-8004 Validation Registry, without *)
(* saying how: the contract in the comments of src/erc8004/mod.rs and       *)
(* src/erc8004/validator.rs.  Workers, files, keys, crashes and rewriting   *)
(* are not in it.  ValidatorService implements it.                          *)
(***************************************************************************)
EXTENDS Integers

CONSTANT Request

VARIABLES
    fate,       \* what checking each request yields: a verdict and a level
    pinned,     \* the URIs that evidence was put at
    responses,  \* what the registry has
    silent      \* the requests abstained on

vars == <<fate, pinned, responses, silent>>

Scored == {"matched", "half_open", "mismatch"}

(* The rows of the table: a pass only for a settlement that matched under a *)
(* screen within the threshold, and each failure under its own tag.         *)
Row(f, threshold, score, tag) ==
    \/ f.verdict = "matched" /\ f.level <= threshold /\ score = 100 /\ tag = "matched"
    \/ f.verdict = "matched" /\ f.level > threshold /\ score = 0 /\ tag = "unsafe"
    \/ f.verdict = "half_open" /\ score = 0 /\ tag = "half-open"
    \/ f.verdict = "mismatch" /\ score = 0 /\ tag = "mismatch"

(* A fate has a verdict, "unresolvable" when nothing came of the check, and *)
(* the level of its screen.                                                 *)
Init == pinned = {} /\ responses = {} /\ silent = {}

(* Evidence exists only about requests that can be scored.                  *)
Pin(e) ==
    /\ \E r \in Request : fate[r].verdict \in Scored
    /\ pinned' = pinned \cup {e}
    /\ UNCHANGED <<fate, responses, silent>>

(* A response is a true row, points at evidence that was pinned before, and *)
(* shares it only with responses that tell the same story.                  *)
Respond(x) ==
    /\ x.request \in Request \ silent
    /\ Row(fate[x.request], x.threshold, x.score, x.tag)
    /\ x.evidence \in pinned
    /\ \A y \in responses : y.evidence = x.evidence =>
         y.threshold = x.threshold /\ y.score = x.score /\ y.tag = x.tag
    /\ responses' = responses \cup {x}
    /\ UNCHANGED <<fate, pinned, silent>>

(* "We could not check" is not "it failed".                                 *)
Abstain(r) ==
    /\ fate[r].verdict = "unverifiable"
    /\ \A x \in responses : x.request # r
    /\ silent' = silent \cup {r}
    /\ UNCHANGED <<fate, pinned, responses>>

(* The machine under the store loses power: the one way evidence goes.      *)
Lose ==
    /\ pinned' \subseteq pinned
    /\ UNCHANGED <<fate, responses, silent>>

(* URIs and responses are whatever the step adds: one at a time.            *)
Next ==
    \/ \E e \in pinned' : Pin(e)
    \/ \E x \in responses' : Respond(x)
    \/ \E r \in Request : Abstain(r)
    \/ Lose

Spec == Init /\ [][Next]_vars
=============================================================================
