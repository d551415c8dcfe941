------------------------------ MODULE Firewall ------------------------------
(***************************************************************************)
(* The DROP rules holyf-network keeps in the kernel, and what one command  *)
(* of each backend of kernelapi.Firewall does to them.                     *)
(*                                                                         *)
(* The rules of one peer and local port are identical, so a rule table is  *)
(* a count per chain and per spec.  Neither backend looks for an existing  *)
(* rule before it inserts: a second insertion is a second rule.            *)
(*                                                                         *)
(* "exec" is ExecFirewall: one iptables process per chain, and -D deletes  *)
(* ONE matching rule.  "nft" is NftFirewall: a netlink batch that commits  *)
(* both chains at once, and a deletion that removes every rule carrying    *)
(* the spec's tag that an earlier listing returned.                        *)
(***************************************************************************)
EXTENDS Naturals

CONSTANTS Specs,      \* the peer|port pairs (PeerBlockSpec) in play
          Backend     \* the backend chosen at start-up: "exec" or "nft"

ASSUME BackendAssumption == Backend \in {"exec", "nft"}

Chains == {"INPUT", "OUTPUT"}

RuleTables == [Chains -> [Specs -> Nat]]

\* iptables -I <chain>: one more rule, whether or not there is one already.
InsertRule(r, c, s) == [r EXCEPT ![c][s] = @ + 1]

\* iptables -D <chain>: one rule less; a missing rule is not an error.
DeleteRule(r, c, s) == [r EXCEPT ![c][s] = IF @ = 0 THEN 0 ELSE @ - 1]

\* One nftables flush that adds a rule to both chains.
InsertPair(r, s) == [c \in Chains |-> [r[c] EXCEPT ![s] = @ + 1]]

\* Mutant: the loop over the listed rules ends with the first of each chain.
DeleteFirstListed(r, s, n) == [c \in Chains |-> [r[c] EXCEPT ![s] = IF n > 0 THEN @ - 1 ELSE @]]

\* One nftables flush that deletes the n rules per chain listed before it.
DeleteListed(r, s, n) == [c \in Chains |-> [r[c] EXCEPT ![s] = @ - n]]

\* What GetRules returns for one tag: the rules of the spec, in each chain.
GetRules(r, s) == r["INPUT"][s]

\* The specs the backend reports: iptables -S INPUT for exec, the tagged rules
\* of either chain for nft.
ListBlockedPeers(r) ==
    IF Backend = "exec" THEN {s \in Specs : r["INPUT"][s] > 0}
                        ELSE {s \in Specs : \E c \in Chains : r[c][s] > 0}
=============================================================================
