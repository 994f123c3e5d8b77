------------------------------- MODULE Backup -------------------------------
(***************************************************************************)
(* Export of a bundle, loss of the database, import into a clean one       *)
(* (core/use_cases/backup.py), beside the requests of a live controller.   *)
(*                                                                         *)
(* An export reads table after table, an import looks each id up and saves *)
(* it, one commit per row.  The look-up and the save of a row are one step *)
(* here.  Tokens are not in a bundle.                                      *)
(***************************************************************************)
EXTENDS Ipam, Access

ExportOrder == <<"networks", "nodes", "accounts", "allocs">>

\* Mutant: addresses before the networks they belong to.
AddressesFirst == <<"accounts", "allocs", "nodes", "networks">>

ImportOrder == <<"accounts", "nodes", "networks", "allocs">>

Bundle == files.bundle
IsComplete(b) == DOMAIN b = Range(ExportOrder)

\* Addresses are listed for the subnets of the networks read before.
ReadOf(t) ==
    IF t = "allocs"
    THEN Keep(db.allocs, {a \in Ids("allocs") :
                            /\ db.allocs[a].subnet \in DOMAIN Bundle.networks
                            /\ Bundle.networks[db.allocs[a].subnet].subnet # None})
    ELSE db[t]

ExportBundle ==
    /\ ~ IsComplete(Bundle)
    /\ LET t == ExportOrder[Cardinality(DOMAIN Bundle) + 1]
       IN files' = [files EXCEPT !.bundle =
                      [x \in DOMAIN Bundle \cup {t} |-> IF x = t THEN ReadOf(t) ELSE Bundle[x]]]
    /\ UNCHANGED <<db, req, asked, late>>

\* Every table is lost, and the process with it.
DatabaseLost ==
    /\ IsComplete(Bundle)
    /\ \E t \in DOMAIN db : Ids(t) # {}
    /\ db' = [t \in DOMAIN db |-> <<>>]
    /\ req' = [q \in Requests |-> Idle]
    /\ UNCHANGED <<asked, late, files>>

Inserts(t) ==
    LET ids == SetToSeq(DOMAIN Bundle[t]) IN [i \in DOMAIN ids |-> New(t, ids[i], Bundle[t][ids[i]])]

ImportBundle ==
    /\ IsComplete(Bundle)
    /\ Handles({}, Inserts(ImportOrder[1]) \o Inserts(ImportOrder[2]) \o Inserts(ImportOrder[3])
                     \o Inserts(ImportOrder[4]))

BackupNext == ExportBundle \/ DatabaseLost \/ ImportBundle

-----------------------------------------------------------------------------
(* Properties. *)

\* Rows that an import is about to insert and that are refused.
RefusedInserts ==
    {w \in {Head(req[q].work) : q \in {x \in Requests : req[x] # Idle}} :
        w.kind = "insert" /\ Refused(db, w)}

Same(t, i, row, columns) == \A c \in columns : Rows(t)[i][c] = row[c]

\* What an import is refused is there already - the id, a name, an address -
\* and never what a row refers to that is missing: in the order of the import
\* every row finds what it depends on, though the export had read the tables one
\* by one beside other requests (backup.py:11-17, 123).
RefusedIsThere ==
    \A w \in RefusedInserts :
        \/ w.id \in Ids(w.table)
        \/ \E u \in UniqueKeys, i \in Ids(w.table) : u[1] = w.table /\ Same(u[1], i, w.row, u[2])

=============================================================================
