-------------------------------- MODULE MCApi --------------------------------
(* Small instances of Api for TLC. *)
EXTENDS Api

CONSTANTS a, b, ann, bob, good, bad

Account(n, p, r, t) == [name |-> n, password |-> p, role |-> r, tenant |-> t]
MCCommands == {Account(ann, good, "admin", a), Account(ann, bad, "admin", b),
               Account(bob, good, "viewer", a), Account(bob, good, "admin", Empty)}
MCCredentials == {[name |-> ann, password |-> good], [name |-> ann, password |-> bad],
                  [name |-> bob, password |-> good]}
MCOthers == {[tenant |-> a, time |-> d] : d \in 0..3} \cup {[tenant |-> b, time |-> 2]}
MCSamples == <<[tenant |-> b, time |-> 2], [tenant |-> b, time |-> 1]>>
MCRanges == {[from |-> 0, to |-> 3], [from |-> 1, to |-> 4]}

Budget(creates, posts, arrivals, retires, walks, ticks) ==
    [creates |-> creates, runs |-> posts, arrivals |-> arrivals, retires |-> retires,
     walks |-> walks, clock |-> ticks]

\* Accounts and posting; a rerun; a long walk; a walk that outlives its token;
\* a little of everything.
MCBudgets == {Budget(3, 1, 0, 0, 0, 3), Budget(2, 2, 0, 0, 0, 2), Budget(1, 0, 4, 2, 1, 0),
              Budget(1, 0, 2, 0, 1, 2), Budget(1, 1, 1, 1, 1, 0)}
=============================================================================
