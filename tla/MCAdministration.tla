---------------------------- MODULE MCAdministration ----------------------------
(* Instance, for TLC, of what the administrator does at the server: the access  *)
(* of the administrator, and the catalogue.  A behaviour is one of either; the  *)
(* two share no row, and the other one stays in an initial state.               *)
EXTENDS AdminAccess, MCCatalogue, Sequences

CONSTANTS s1, s2, s3, s4, g1, g2, r1, r2

FourSessions == {s1, s2, s3, s4}
TwoRegistrations == {g1, g2}
TwoRecoveries == {r1, r2}

VARIABLE part       \* the part that runs

catalogueRows == <<catalogueVars, served>>

\* Of rows that are interchangeable the first one that is free is taken.
InOrder(order, Taken(_)) ==
    \A n \in 2 .. Len(order) : Taken(order[n]) => Taken(order[n - 1])

SessionTaken(s) == sess[s] # NoEntry
TokenTaken(t) == token[t] # "none"

RowsInOrder ==
    /\ InOrder(<<s1, s2, s3, s4>>, SessionTaken)
    /\ InOrder(<<g1, g2>>, TokenTaken)
    /\ InOrder(<<r1, r2>>, TokenTaken)

AdministrationInit ==
    /\ part \in {"access", "catalogue"}
    /\ Init
    /\ CatalogueStart
    /\ part = "access" =>
         editions[edition2] = Null /\ \A k \in DOMAIN preferences : preferences[k] = Null

AdministrationNext ==
    \/ part = "access" /\ Next /\ RowsInOrder' /\ UNCHANGED <<part, catalogueRows>>
    \/ part = "catalogue" /\ CatalogueStep /\ UNCHANGED <<part, vars>>

AdministrationSpec ==
    AdministrationInit /\ [][AdministrationNext]_<<part, vars, catalogueRows>>

\* The rows of both: a reference names a row or nothing, a lock one that exists.
RowsTypeOK == TypeOK /\ CatalogueTypeOK

AdministrationSymmetry ==
    Permutations(Passkey) \cup Permutations(Req) \cup Permutations(Handler)
=============================================================================
