----------------------------- MODULE Poststate ------------------------------
(***************************************************************************)
(* The Custos adapter, slot 1 (proof_from_outcome in src/adapters/custos.rs)*)
(* : a captured outcome becomes a ReexecProof with a digest of the accounts *)
(* it left behind.                                                          *)
(*                                                                          *)
(* An account is the natural number that its public key is, so that keys    *)
(* sort.  A token stands for each field that the code hashes at a fixed     *)
(* width and for each byte of data; SHA-256 is ideal, so a digest is the    *)
(* sequence of tokens that was hashed.                                      *)
(***************************************************************************)
EXTENDS Custos, SequencesExt

ASSUME AccountAssumption == Account \subseteq Nat

Snapshot == [lamports : Nat, owner : Account, data : Seq(Nat)]

(* The transaction succeeded or not, and what every watched account holds   *)
(* after it; {} is an account that does not exist.                          *)
Outcome(watched, held) == [success : BOOLEAN, post : [watched -> Option(held)]]

(* Mutant: accounts are hashed in the order in which the map yields them.   *)
canonical_AsIterated(iterated) == iterated

(* sort_unstable_by_key on the key bytes: as many of the same accounts,     *)
(* ascending.  The keys of a map are distinct: no two of them are equal.    *)
Ascending(accounts) == \A i, j \in DOMAIN accounts : i < j => accounts[i] < accounts[j]
canonical(iterated) ==
    CHOOSE accounts \in [DOMAIN iterated -> Range(iterated)] : Ascending(accounts)

encode(account, snapshot) ==
    <<account>> \o
    (IF snapshot = {} THEN <<0>>
     ELSE LET s == unwrap(snapshot) IN <<1, s.lamports, s.owner, Len(s.data)>> \o s.data)

poststate_digest(post, accounts) ==
    <<"liquet/custos/poststate/v1">> \o
    FlattenSeq([i \in DOMAIN accounts |-> encode(accounts[i], post[accounts[i]])])

(* Mutant: an account that is gone is left out of the proof.                *)
proof_from_outcome_SkipsMissing(outcome, iterated) ==
    LET accounts == canonical(SelectSeq(iterated, LAMBDA a : outcome.post[a] # {}))
    IN  [vm |-> "svm", executed |-> outcome.success,
         poststate_digest |-> poststate_digest(outcome.post, accounts),
         covered_accounts |-> Range(accounts), facts_source |-> "caller_asserted",
         asset |-> {}, amount |-> {}, recipient |-> {}, unverifiable |-> FALSE]

(* `iterated` is the order in which this process walks the HashMap.         *)
proof_from_outcome(outcome, iterated) ==
    LET accounts == canonical(iterated)
    IN  [vm |-> "svm", executed |-> outcome.success,
         poststate_digest |-> poststate_digest(outcome.post, accounts),
         covered_accounts |-> Range(accounts), facts_source |-> "caller_asserted",
         asset |-> {}, amount |-> {}, recipient |-> {}, unverifiable |-> FALSE]
=============================================================================
