---------------------------- MODULE BankAccounts ----------------------------
(***************************************************************************)
(* The bank accounts of one user: which one is the default, and the payout *)
(* destination the provider keeps for each.                                *)
(*                                                                         *)
(* Default flags and details are written in separate statements outside a  *)
(* transaction.  A destination is made from details that were read before  *)
(* the provider was asked, and its id is stored in the row afterwards.     *)
(***************************************************************************)
EXTENDS Integers, FiniteSets

CONSTANTS
    Details, \* bank and account number, which identify an account
    MaxRows, \* bound: rows, 1..MaxRows in the order of creation
    Tellers, \* handlers running at one time
    None     \* no row, no details, no destination

VARIABLES
    account,  \* the rows; a destination is known by the details it pays to
    made,     \* the details the provider has seen under the key of each row
    teller,   \* what each handler is doing
    crossed,  \* rows whose details were written while a handler that had read
              \* them was under way
    replayed  \* rows for which the provider has answered with older details

vars == <<account, made, teller, crossed, replayed>>

Accounts == 1..MaxRows
NoAccount == [state |-> "none", details |-> None, default |-> FALSE, destination |-> None]
Idle == [at |-> "idle", task |-> "none", row |-> None, details |-> None,
         default |-> None, changed |-> FALSE, next |-> None]

Live == {r \in Accounts : account[r].state = "live"}
Used == {r \in Accounts : account[r].state # "none"}
With(d) == {r \in Used : account[r].details = d}
Goto(t, next) == teller' = [teller EXCEPT ![t] = next]
Point(t, point) == Goto(t, [teller[t] EXCEPT !.at = point])

\* Other handlers that have read the row r for what it says.
Readers(t, r) ==
    {e \in Tellers \ {t} :
        teller[e].row = r /\ teller[e].at \in {"ask", "store", "unset", "update"}}

----------------------------------------------------------------------------
(* createBankAccount *)

\* The row of these details is looked for, deleted ones too, and the accounts
\* counted: the first one is the default.
AddRead(t, d) ==
    /\ teller[t].at = "idle"
    /\ With(d) \cap Live = {}
    /\ \E wish \in BOOLEAN :
         LET first == wish \/ Live = {}
         IN  Goto(t, [Idle EXCEPT !.at = IF first THEN "unset" ELSE "add", !.task = "add",
                 !.row = IF With(d) = {} THEN None ELSE CHOOSE r \in With(d) : TRUE,
                 !.details = d, !.default = first])
    /\ UNCHANGED <<account, made, crossed, replayed>>

\* The other accounts are no default any more; all of them, for a new one.
Unset(t) ==
    /\ teller[t].at = "unset"
    /\ account' = [r \in Accounts |->
           IF r \in Live /\ (teller[t].task = "add" \/ r # teller[t].row)
             THEN [account[r] EXCEPT !.default = FALSE] ELSE account[r]]
    /\ Point(t, teller[t].task)
    /\ UNCHANGED <<made, crossed, replayed>>

\* A deleted row comes back without its destination.
Revived(t) ==
    [account[teller[t].row] EXCEPT !.state = "live", !.default = teller[t].default,
                                   !.details = teller[t].details, !.destination = None]

\* A new row; its details are unique.
AddWrite(t) ==
    /\ teller[t].at = "add"
    /\ \/ /\ teller[t].row # None
          /\ With(teller[t].details) \subseteq {teller[t].row}
          /\ account' = [account EXCEPT ![teller[t].row] = Revived(t)]
       \/ /\ teller[t].row = None /\ With(teller[t].details) = {}
          /\ \E r \in Accounts \ Used :
                /\ \A q \in 1..(r - 1) : q \in Used
                /\ account' = [account EXCEPT ![r] =
                       [state |-> "live", details |-> teller[t].details,
                        default |-> teller[t].default, destination |-> None]]
    /\ crossed' = crossed \cup
           {r \in Accounts : account'[r] # account[r] /\ Readers(t, r) # {}}
    /\ Goto(t, Idle)
    /\ UNCHANGED <<made, replayed>>

----------------------------------------------------------------------------
(* updateBankAccount, setDefaultBankAccount, deleteBankAccount *)

\* Details and default may each be left as they are (None).
UpdateRead(t, r) ==
    /\ teller[t].at = "idle"
    /\ r \in Live
    /\ \E d \in Details \cup {None}, default \in BOOLEAN \cup {None} :
          Goto(t, [Idle EXCEPT !.at = IF default = TRUE THEN "unset" ELSE "update",
                  !.task = "update", !.row = r, !.details = d, !.default = default,
                  !.changed = (d \notin {None, account[r].details})])
    /\ UNCHANGED <<account, made, crossed, replayed>>

\* Mutant: the destination stays when the details change.
UpdatedKeeping(t) ==
    LET r == teller[t].row
    IN  [account[r] EXCEPT
            !.details = IF teller[t].details = None THEN @ ELSE teller[t].details,
            !.default = IF teller[t].default = None THEN @ ELSE teller[t].default]

\* The destination goes when the details are not the ones that were read.
Updated(t) ==
    LET r == teller[t].row
    IN  [account[r] EXCEPT
            !.details = IF teller[t].details = None THEN @ ELSE teller[t].details,
            !.default = IF teller[t].default = None THEN @ ELSE teller[t].default,
            !.destination = IF teller[t].changed THEN None ELSE @]

\* Details of another row break the unique index.
UpdateWrite(t) ==
    LET r == teller[t].row
    IN  /\ teller[t].at = "update"
        /\ teller[t].details # None => With(teller[t].details) \subseteq {r}
        /\ account' = [account EXCEPT ![r] = Updated(t)]
        /\ crossed' = IF teller[t].details # None /\ Readers(t, r) # {}
                        THEN crossed \cup {r} ELSE crossed
        /\ Goto(t, Idle)
        /\ UNCHANGED <<made, replayed>>

SetRead(t, r) ==
    /\ teller[t].at = "idle"
    /\ r \in Live
    /\ Goto(t, [Idle EXCEPT !.at = "unset", !.task = "set", !.row = r])
    /\ UNCHANGED <<account, made, crossed, replayed>>

SetWrite(t) ==
    /\ teller[t].at = "set"
    /\ account' = [account EXCEPT ![teller[t].row].default = TRUE]
    /\ Goto(t, Idle)
    /\ UNCHANGED <<made, crossed, replayed>>

\* When the default goes, any other account becomes the default first.
DeleteRead(t, r) ==
    /\ teller[t].at = "idle"
    /\ r \in Live
    /\ \/ /\ account[r].default
          /\ \E q \in Live \ {r} :
                Goto(t, [Idle EXCEPT !.at = "promote", !.task = "delete", !.row = r,
                                     !.next = q])
       \/ /\ ~account[r].default \/ Live = {r}
          /\ Goto(t, [Idle EXCEPT !.at = "delete", !.task = "delete", !.row = r])
    /\ UNCHANGED <<account, made, crossed, replayed>>

PromoteNext(t) ==
    /\ teller[t].at = "promote"
    /\ account' = [account EXCEPT ![teller[t].next].default = TRUE]
    /\ Point(t, "delete")
    /\ UNCHANGED <<made, crossed, replayed>>

Deleted(r) == [account[r] EXCEPT !.state = "deleted", !.default = FALSE]

DeleteWrite(t) ==
    /\ teller[t].at = "delete"
    /\ account' = [account EXCEPT ![teller[t].row] = Deleted(teller[t].row)]
    /\ Goto(t, Idle)
    /\ UNCHANGED <<made, crossed, replayed>>

----------------------------------------------------------------------------
(* ensurePayoutDestination, before a withdrawal *)

\* The destination of the row is looked up at the provider, or one made.
EnsureRead(t, r) ==
    /\ teller[t].at = "idle"
    /\ r \in Live
    /\ Goto(t, [Idle EXCEPT !.task = "ensure", !.row = r,
           !.at = IF account[r].destination = None THEN "ask" ELSE "store",
           !.details = IF account[r].destination = None THEN account[r].details
                                                        ELSE account[r].destination])
    /\ UNCHANGED <<account, made, crossed, replayed>>

\* The key names the row and not its details.  The provider may refuse other
\* details under one key (TellerStops), answer with the destination it has,
\* or make another.
Ask(t) ==
    LET r == teller[t].row
        fresh == /\ made' = [made EXCEPT ![r] = teller[t].details]
                 /\ Point(t, "store")
                 /\ UNCHANGED replayed
        replay == /\ made[r] \notin {None, teller[t].details}
                  /\ Goto(t, [teller[t] EXCEPT !.at = "store", !.details = made[r]])
                  /\ replayed' = replayed \cup {r}
                  /\ UNCHANGED made
    IN  /\ teller[t].at = "ask"
        /\ fresh \/ replay
        /\ UNCHANGED <<account, crossed>>

\* The row is updated by its id, whatever it says by now.
Store(t) ==
    /\ teller[t].at = "store"
    /\ account' = [account EXCEPT ![teller[t].row].destination = teller[t].details]
    /\ Goto(t, Idle)
    /\ UNCHANGED <<made, crossed, replayed>>

\* A query or the provider fails, or the process stops.
TellerStops(t) ==
    /\ teller[t].at # "idle"
    /\ Goto(t, Idle)
    /\ UNCHANGED <<account, made, crossed, replayed>>

----------------------------------------------------------------------------
Init ==
    /\ account = [r \in Accounts |-> NoAccount]
    /\ made = [r \in Accounts |-> None]
    /\ teller = [t \in Tellers |-> Idle]
    /\ crossed = {}
    /\ replayed = {}

TellerStep(t) ==
    \/ \E d \in Details : AddRead(t, d)
    \/ \E r \in Accounts :
          UpdateRead(t, r) \/ SetRead(t, r) \/ DeleteRead(t, r) \/ EnsureRead(t, r)
    \/ Unset(t) \/ AddWrite(t) \/ UpdateWrite(t) \/ SetWrite(t)
    \/ PromoteNext(t) \/ DeleteWrite(t) \/ Ask(t) \/ Store(t) \/ TellerStops(t)

Next == \E t \in Tellers : TellerStep(t)

Spec == Init /\ [][Next]_vars

----------------------------------------------------------------------------
(* Properties *)

TypeOK ==
    /\ account \in [Accounts -> [state : {"none", "live", "deleted"},
                             details : Details \cup {None}, default : BOOLEAN,
                             destination : Details \cup {None}]]
    /\ made \in [Accounts -> Details \cup {None}]
    /\ teller \in [Tellers ->
           [at : {"idle", "unset", "add", "update", "set", "promote", "delete", "ask",
                  "store"},
            task : {"none", "add", "update", "set", "delete", "ensure"},
            row : Accounts \cup {None}, details : Details \cup {None},
            default : BOOLEAN \cup {None}, changed : BOOLEAN, next : Accounts \cup {None}]]
    /\ crossed \subseteq Accounts
    /\ replayed \subseteq Accounts

\* The payout destination stored in a row pays to the account the row names,
\* through changes of its details, deletion and return, unless they were
\* changed while a handler had read them or the provider answered with an older
\* destination (updateBankAccount, createBankAccount, ensurePayoutDestination).
DestinationFollowsDetails ==
    \A r \in Accounts \ (crossed \cup replayed) :
        account[r].destination \in {None, account[r].details}

\* Counterexample: a stored destination pays to the account the row names
\* (docs/soft-delete-sensitive-data.md: stale payout-destination identifiers
\* are cleared).
DestinationIsCurrent ==
    \A r \in Accounts : account[r].destination \in {None, account[r].details}

\* Counterexample: a user has one default account at most.
OneDefault == Cardinality({r \in Live : account[r].default}) <= 1

\* Counterexample: with no handler under way, a user with accounts has a
\* default (docs/soft-delete-sensitive-data.md: another active account becomes
\* the default).
DefaultIsKept ==
    (\A t \in Tellers : teller[t].at = "idle") /\ Live # {}
      => \E r \in Live : account[r].default
=============================================================================
