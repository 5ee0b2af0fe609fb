--------------------------- MODULE PaymentsProofs --------------------------
(***************************************************************************)
(* Proofs about GuestClaims and BankAccounts, for any number of guest      *)
(* records, dues, codes, accounts and handlers, and of the runs of         *)
(* Payments: the rows of a guest record have one owner, dues and guests'   *)
(* payments agree, a payout destination pays to the account its row names, *)
(* and the checkouts implement DueCollection.                              *)
(***************************************************************************)
EXTENDS Payments, WellFoundedInduction, TLAPS

----------------------------------------------------------------------------
(* Guest dues *)

\* The absence of a guest or a payment is no number (WalletsAssumption).
LEMMA NoneIsNoNumber == None \notin Nat
BY WalletsAssumption

GuestRows == [made : BOOLEAN, claimed : BOOLEAN, pending : G!Owner,
                payer : G!Owner, receipt : G!Owner]
CodeRows == [guest : G!Guests \cup {None}, age : {"fresh", "old", "expired", "deleted"},
               used : BOOLEAN, attempts : Nat]
ClaimStates == [at : {"idle", "create", "mail", "wrong", "list", "commit"},
                code : G!Codes, guests : SUBSET G!Guests, listed : SUBSET G!Guests]
CompletionStates == [at : {"idle", "commit", "receipt", "write"},
                     guest : G!Guests, owner : G!Owner]

\* Whose the rows of a guest record should be.
Owns(g) == IF guest[g].claimed THEN "account" ELSE "guest"

\* A record that was claimed in one piece had its checkout row.
AskedFirst == \A g \in G!Guests \ split : guest[g].claimed => guest[g].pending # "nobody"

\* A completion knows the owner of the record it completes.
OwnerKnown ==
    \A k \in Completers :
        completion[k].at # "idle" /\ completion[k].guest \notin split
          => completion[k].owner = Owns(completion[k].guest)

\* A completion under way has an owner to give the rows to.
OwnerThere == \A k \in Completers : completion[k].owner # "nobody"

\* A guest's payment that a due payment row names was claimed and moved.
BackedRight ==
    \A d \in GuestDues, g \in G!Guests :
        backer[d] = g => guest[g].claimed /\ guest[g].payer = "account"

\* The payments a claim has listed are there and among its guests'; a code that
\* is asked for has a record to be for.
ListedPaid ==
    \A v \in Workers :
        /\ claim[v].at = "create" => claim[v].guests # {}
        /\ claim[v].at = "commit" =>
              /\ claim[v].listed \subseteq claim[v].guests
              /\ \A g \in claim[v].listed : guest[g].payer # "nobody"

ClaimInv ==
    /\ G!TypeOK
    /\ AskedFirst /\ OwnerKnown /\ OwnerThere /\ G!RecordsAgree
    /\ BackedRight /\ ListedPaid /\ G!DuesFollowClaims

----------------------------------------------------------------------------
(* The oldest of some records *)

LEMMA LessIsWellFounded == IsWellFoundedOn({s \in Nat \X Nat : s[1] < s[2]}, Nat)
BY NatLessThanWellFounded DEF OpToRel

LEMMA Smallest ==
    ASSUME NEW T, T \subseteq Nat, T # {}
    PROVE  \E x \in T : \A y \in T : x <= y
<1> DEFINE R == {s \in Nat \X Nat : s[1] < s[2]}
<1>1. IsWellFoundedOn(R, Nat)
    BY LessIsWellFounded
<1> HIDE DEF R
<1>2. PICK x \in T : \A y \in T : <<y, x>> \notin R
    BY <1>1, WFMin
<1>3. \A y \in T : <<y, x>> \in Nat \X Nat
    OBVIOUS
<1>4. \A y \in T : ~(y < x)
    BY <1>2, <1>3 DEF R
<1> QED BY <1>4

LEMMA OldestIsOne ==
    ASSUME NEW T, T \subseteq Nat, T # {}
    PROVE  G!Oldest(T) \in T
BY Smallest DEF G!Oldest

\* Numbers up to a bound have a last one too.
LEMMA NewestIsOne ==
    ASSUME NEW n \in Nat, NEW T, T \subseteq 1..n, T # {}
    PROVE  G!Newest(T) \in T
<1> DEFINE U == {n - t : t \in T}
<1>0. \A t \in T : t \in Int /\ n - t \in Nat
    OBVIOUS
<1>1. U \subseteq Nat /\ U # {} /\ \A t \in T : n - t \in U
    BY <1>0
<1> HIDE DEF U
<1>2. PICK x \in U : \A y \in U : x <= y
    BY <1>1, Smallest
<1>3. PICK t \in T : x = n - t
    BY DEF U
<1>4. \A u \in T : u \in Int /\ n - t <= n - u
    BY <1>0, <1>1, <1>2, <1>3
<1>5. t \in Int /\ \A u \in T : t >= u
    BY <1>0, <1>4
<1> QED BY <1>5 DEF G!Newest

----------------------------------------------------------------------------
LEMMA IdleClaimStates ==
    /\ G!NoGuest \in GuestRows /\ G!NoCode \in CodeRows
    /\ G!NoClaim \in ClaimStates /\ G!NoCompletion \in CompletionStates
    /\ G!NoClaim.at = "idle" /\ G!NoCompletion.at = "idle" /\ G!NoCompletion.owner = "guest"
BY ClaimsAssumption DEF G!NoGuest, G!NoCode, G!NoClaim, G!NoCompletion, GuestRows, CodeRows,
    ClaimStates, CompletionStates, G!Owner, G!Guests, G!Codes

LEMMA ClaimsTyped == G!TypeOK <=>
    /\ guest \in [G!Guests -> GuestRows] /\ paid \subseteq GuestDues
    /\ backer \in [GuestDues -> G!Guests \cup {None, G!Application}]
    /\ code \in [G!Codes -> CodeRows] /\ claim \in [Workers -> ClaimStates]
    /\ completion \in [Completers -> CompletionStates]
    /\ split \subseteq G!Guests /\ late \subseteq G!Guests
BY DEF G!TypeOK, GuestRows, CodeRows, ClaimStates, CompletionStates

\* A handler of the account's requests turns to what next says; codes change.
LEMMA ClaimTurns ==
    ASSUME ClaimInv, NEW v \in Workers, NEW next \in ClaimStates,
           next.at = "create" => next.guests # {},
           next.at = "commit" =>
               /\ next.listed \subseteq next.guests
               /\ \A g \in next.listed : guest[g].payer # "nobody",
           claim' = [claim EXCEPT ![v] = next], code' \in [G!Codes -> CodeRows],
           UNCHANGED <<G!rows, completion, G!history>>
    PROVE  ClaimInv'
<1>1. UNCHANGED <<guest, paid, backer, completion, split, late>>
    BY DEF G!rows, G!history
<1>2. G!TypeOK'
    BY <1>1, ClaimsTyped DEF ClaimInv, G!TypeOK, GuestRows, CodeRows, ClaimStates,
       CompletionStates
<1>3. AskedFirst' /\ OwnerKnown' /\ OwnerThere' /\ G!RecordsAgree' /\ BackedRight'
    BY <1>1 DEF ClaimInv, AskedFirst, OwnerKnown, OwnerThere, Owns, G!RecordsAgree,
       BackedRight
<1>4. G!DuesFollowClaims'
    BY <1>1 DEF ClaimInv, G!DuesFollowClaims, G!PaidDueIsBacked, G!ClaimSettlesListed
<1>5. \A w \in Workers : claim'[w] = IF w = v THEN next ELSE claim[w]
    BY DEF ClaimInv, G!TypeOK
<1>6. ListedPaid'
    BY <1>1, <1>5 DEF ClaimInv, ListedPaid
<1> QED BY <1>2, <1>3, <1>4, <1>6 DEF ClaimInv

----------------------------------------------------------------------------
(* requestClaimCode and verifyClaimCode up to the transaction *)

LEMMA ClaimIdles ==
    ASSUME ClaimInv, NEW v \in Workers, claim' = [claim EXCEPT ![v] = G!NoClaim],
           code' \in [G!Codes -> CodeRows], UNCHANGED <<G!rows, completion, G!history>>
    PROVE  ClaimInv'
BY IdleClaimStates, ClaimTurns

LEMMA CodesKeep ==
    ASSUME ClaimInv, NEW v \in Workers,
           G!MailSent(v) \/ G!MailFails(v) \/ G!CountAttempt(v) \/ G!ClaimStops(v)
    PROVE  ClaimInv'
<1>0. /\ code \in [G!Codes -> CodeRows] /\ claim[v].code \in G!Codes
      /\ code[claim[v].code] \in CodeRows
    BY ClaimsTyped DEF ClaimInv, ClaimStates
<1>1. CASE G!MailSent(v) \/ G!ClaimStops(v)
    <2>1. /\ claim' = [claim EXCEPT ![v] = G!NoClaim] /\ code' = code
          /\ UNCHANGED <<G!rows, completion, G!history>>
        BY <1>1 DEF G!MailSent, G!ClaimStops
    <2> QED BY <1>0, <2>1, ClaimIdles
<1>2. CASE G!MailFails(v)
    <2> DEFINE row == [code[claim[v].code] EXCEPT !.age = "deleted"]
    <2>1. row \in CodeRows
        BY <1>0 DEF CodeRows
    <2>2. code' = [code EXCEPT ![claim[v].code] = row]
        BY <1>2 DEF G!MailFails
    <2>3. claim' = [claim EXCEPT ![v] = G!NoClaim] /\ UNCHANGED <<G!rows, completion, G!history>>
        BY <1>2 DEF G!MailFails
    <2> HIDE DEF row
    <2>4. code' \in [G!Codes -> CodeRows]
        BY <1>0, <2>1, <2>2
    <2> QED BY <2>3, <2>4, ClaimIdles
<1>3. CASE G!CountAttempt(v)
    <2> DEFINE row == [code[claim[v].code] EXCEPT !.attempts = @ + 1]
    <2>1. row \in CodeRows
        BY <1>0 DEF CodeRows
    <2>2. code' = [code EXCEPT ![claim[v].code] = row]
        BY <1>3 DEF G!CountAttempt
    <2>3. claim' = [claim EXCEPT ![v] = G!NoClaim] /\ UNCHANGED <<G!rows, completion, G!history>>
        BY <1>3 DEF G!CountAttempt
    <2> HIDE DEF row
    <2>4. code' \in [G!Codes -> CodeRows]
        BY <1>0, <2>1, <2>2
    <2> QED BY <2>3, <2>4, ClaimIdles
<1> QED BY <1>1, <1>2, <1>3

LEMMA CodeAgesKeeps ==
    ASSUME ClaimInv, NEW i \in G!Codes, G!CodeAges(i)
    PROVE  ClaimInv'
<1>0. code \in [G!Codes -> CodeRows] /\ code[i] \in CodeRows
    BY ClaimsTyped DEF ClaimInv
<1>1. PICK a \in {"old", "expired"} : code' = [code EXCEPT ![i].age = a]
    BY DEF G!CodeAges
<1> DEFINE row == [code[i] EXCEPT !.age = a]
<1>2. row \in CodeRows /\ code' = [code EXCEPT ![i] = row]
    BY <1>0, <1>1 DEF CodeRows
<1> HIDE DEF row
<1>3. code' \in [G!Codes -> CodeRows]
    BY <1>0, <1>2
<1>4. UNCHANGED <<guest, paid, backer, claim, completion, split, late>>
    BY DEF G!CodeAges, G!rows, G!history
<1>5. G!TypeOK'
    BY <1>3, <1>4, ClaimsTyped DEF ClaimInv, G!TypeOK, GuestRows, CodeRows, ClaimStates,
       CompletionStates
<1>6. AskedFirst' /\ OwnerKnown' /\ OwnerThere' /\ G!RecordsAgree' /\ BackedRight' /\ ListedPaid'
    BY <1>4 DEF ClaimInv, AskedFirst, OwnerKnown, OwnerThere, Owns, G!RecordsAgree,
       BackedRight, ListedPaid
<1>7. G!DuesFollowClaims'
    BY <1>4 DEF ClaimInv, G!DuesFollowClaims, G!PaidDueIsBacked, G!ClaimSettlesListed
<1> QED BY <1>5, <1>6, <1>7 DEF ClaimInv

LEMMA CodeRequests ==
    ASSUME ClaimInv, NEW v \in Workers, G!RequestCode(v)
    PROVE  ClaimInv'
<1>0. code \in [G!Codes -> CodeRows]
    BY ClaimsTyped DEF ClaimInv
<1> DEFINE oldest == G!Oldest(G!Unclaimed)
           a == [G!NoClaim EXCEPT !.guests = {oldest}]
           next == [a EXCEPT !.at = "create"]
<1>1. oldest \in G!Guests
    BY OldestIsOne DEF G!RequestCode, G!Unclaimed, G!Guests
<1>2. claim' = [claim EXCEPT ![v] = [G!NoClaim EXCEPT !.at = "create", !.guests = {oldest}]]
    BY DEF G!RequestCode
<1> HIDE DEF oldest
<1>3. [G!NoClaim EXCEPT !.at = "create", !.guests = {oldest}] = next
    BY DEF G!NoClaim
<1>4. a \in ClaimStates /\ a.guests = {oldest}
    BY <1>1, IdleClaimStates DEF ClaimStates
<1> HIDE DEF a
<1>5. next \in ClaimStates /\ next.at = "create" /\ next.guests # {}
    BY <1>4 DEF ClaimStates
<1>6. UNCHANGED <<G!rows, code, completion, G!history>>
    BY DEF G!RequestCode
<1> HIDE DEF next
<1> QED BY <1>0, <1>2, <1>3, <1>5, <1>6, ClaimTurns

LEMMA CodeCreated ==
    ASSUME ClaimInv, NEW v \in Workers, G!CreateCode(v)
    PROVE  ClaimInv'
<1>1. PICK i \in G!Codes :
          /\ claim[v].at = "create"
          /\ code' = [code EXCEPT ![i].guest = G!Oldest(claim[v].guests)]
          /\ claim' = [claim EXCEPT ![v] = [G!NoClaim EXCEPT !.at = "mail", !.code = i]]
          /\ UNCHANGED <<G!rows, completion, G!history>>
    BY DEF G!CreateCode
<1>2. claim[v].guests \subseteq G!Guests /\ claim[v].guests # {}
    BY <1>1, ClaimsTyped DEF ClaimInv, ClaimStates, ListedPaid
<1> DEFINE oldest == G!Oldest(claim[v].guests)
<1>3. oldest \in G!Guests
    BY <1>2, OldestIsOne DEF G!Guests
<1>4. code' = [code EXCEPT ![i].guest = oldest]
    BY <1>1
<1> HIDE DEF oldest
<1> DEFINE row == [code[i] EXCEPT !.guest = oldest]
           a == [G!NoClaim EXCEPT !.code = i]
           next == [a EXCEPT !.at = "mail"]
<1>5. code \in [G!Codes -> CodeRows] /\ row \in CodeRows
    BY <1>3, ClaimsTyped DEF ClaimInv, CodeRows
<1>6. code' = [code EXCEPT ![i] = row]
    BY <1>4
<1> HIDE DEF row
<1>7. code' \in [G!Codes -> CodeRows]
    BY <1>5, <1>6
<1>8. claim' = [claim EXCEPT ![v] = next]
    BY <1>1 DEF G!NoClaim
<1>9. a \in ClaimStates
    BY IdleClaimStates DEF ClaimStates
<1> HIDE DEF a
<1>10. next \in ClaimStates /\ next.at = "mail"
    BY <1>9 DEF ClaimStates
<1> HIDE DEF next
<1> QED BY <1>1, <1>7, <1>8, <1>10, ClaimTurns

LEMMA CodeVerified ==
    ASSUME ClaimInv, NEW v \in Workers, G!VerifyRead(v)
    PROVE  ClaimInv'
<1>0. code \in [G!Codes -> CodeRows]
    BY ClaimsTyped DEF ClaimInv
<1> DEFINE newest == G!Newest(G!Usable)
<1>1. newest \in G!Codes
    BY ClaimsAssumption, NewestIsOne DEF G!VerifyRead, G!Usable, G!Codes
<1>2. PICK at \in {"list", "wrong"} :
          claim' = [claim EXCEPT ![v] = [G!NoClaim EXCEPT !.at = at, !.code = newest]]
    BY DEF G!VerifyRead
<1> HIDE DEF newest
<1> DEFINE a == [G!NoClaim EXCEPT !.code = newest]
           next == [a EXCEPT !.at = at]
<1>3. claim' = [claim EXCEPT ![v] = next]
    BY <1>2 DEF G!NoClaim
<1>4. a \in ClaimStates
    BY <1>1, IdleClaimStates DEF ClaimStates
<1> HIDE DEF a
<1>5. next \in ClaimStates /\ next.at \in {"list", "wrong"}
    BY <1>4 DEF ClaimStates
<1>6. UNCHANGED <<G!rows, code, completion, G!history>>
    BY DEF G!VerifyRead
<1> HIDE DEF next
<1> QED BY <1>0, <1>3, <1>5, <1>6, ClaimTurns

LEMMA ClaimListed ==
    ASSUME ClaimInv, NEW v \in Workers, G!ClaimList(v)
    PROVE  ClaimInv'
<1>0. /\ code \in [G!Codes -> CodeRows] /\ claim[v] \in ClaimStates
      /\ G!Unclaimed \subseteq G!Guests /\ G!Completed \subseteq G!Unclaimed
      /\ \A g \in G!Completed : guest[g].payer # "nobody"
      /\ claim \in [Workers -> ClaimStates]
    BY ClaimsTyped DEF ClaimInv, G!Unclaimed, G!Completed
<1> DEFINE a == [claim[v] EXCEPT !.guests = G!Unclaimed]
           b == [a EXCEPT !.listed = G!Completed]
           next == [b EXCEPT !.at = "commit"]
<1>1. claim' = [claim EXCEPT ![v] = next]
    BY <1>0 DEF G!ClaimList, ClaimStates
<1>2. a \in ClaimStates /\ a.guests = G!Unclaimed
    BY <1>0 DEF ClaimStates
<1> HIDE DEF a
<1>3. b \in ClaimStates /\ b.guests = G!Unclaimed /\ b.listed = G!Completed
    BY <1>0, <1>2 DEF ClaimStates
<1> HIDE DEF b
<1>4. next \in ClaimStates /\ next.at = "commit" /\ next.guests = G!Unclaimed /\ next.listed = G!Completed
    BY <1>3 DEF ClaimStates
<1>5. UNCHANGED <<G!rows, code, completion, G!history>>
    BY DEF G!ClaimList
<1> HIDE DEF next
<1> QED BY <1>0, <1>1, <1>4, <1>5, ClaimTurns

----------------------------------------------------------------------------
(* completePayment and generateReceipt *)

\* A completion turns to what next says; no row changes.
LEMMA CompletionTurns ==
    ASSUME ClaimInv, NEW k \in Completers, NEW next \in CompletionStates,
           next.owner # "nobody",
           next.at # "idle" /\ next.guest \notin split => next.owner = Owns(next.guest),
           completion' = [completion EXCEPT ![k] = next],
           UNCHANGED <<G!rows, code, claim, G!history>>
    PROVE  ClaimInv'
<1>1. UNCHANGED <<guest, paid, backer, code, claim, split, late>>
    BY DEF G!rows, G!history
<1>2. completion \in [Completers -> CompletionStates]
    BY ClaimsTyped DEF ClaimInv
<1>3. completion' \in [Completers -> CompletionStates]
    BY <1>2
<1>4. G!TypeOK'
    BY <1>1, <1>3, ClaimsTyped DEF ClaimInv, G!TypeOK, GuestRows, CodeRows, ClaimStates,
       CompletionStates
<1>5. AskedFirst' /\ G!RecordsAgree' /\ BackedRight' /\ ListedPaid'
    BY <1>1 DEF ClaimInv, AskedFirst, G!RecordsAgree, BackedRight, ListedPaid
<1>6. G!DuesFollowClaims'
    BY <1>1 DEF ClaimInv, G!DuesFollowClaims, G!PaidDueIsBacked, G!ClaimSettlesListed
<1>7. \A h \in Completers : completion'[h] = IF h = k THEN next ELSE completion[h]
    BY <1>2
<1>8. OwnerThere'
    BY <1>7 DEF ClaimInv, OwnerThere
<1>9. OwnerKnown'
    BY <1>1, <1>7 DEF ClaimInv, OwnerKnown, Owns
<1> QED BY <1>4, <1>5, <1>6, <1>8, <1>9 DEF ClaimInv

\* The checkout row and the payment of a record are its owner's.
LEMMA OwnersAgree ==
    ASSUME ClaimInv, NEW g \in G!Guests
    PROVE  /\ guest[g] \in GuestRows
           /\ g \notin split => {guest[g].pending, guest[g].payer, guest[g].receipt}
                                    \subseteq {"nobody", Owns(g)}
BY ClaimsTyped DEF ClaimInv, G!RecordsAgree, Owns

LEMMA CompletionReads ==
    ASSUME ClaimInv, NEW k \in Completers, NEW g \in G!Guests,
           G!CompleteRead(k, g) \/ G!CompleteAgain(k, g)
    PROVE  ClaimInv'
<1>1. CASE G!CompleteRead(k, g)
    <2> DEFINE next == [at |-> "commit", guest |-> g, owner |-> guest[g].pending]
    <2>1. /\ completion' = [completion EXCEPT ![k] = next] /\ guest[g].pending # "nobody"
          /\ UNCHANGED <<G!rows, code, claim, G!history>>
        BY <1>1 DEF G!CompleteRead
    <2>2. next \in CompletionStates
        BY OwnersAgree DEF CompletionStates, GuestRows
    <2>3. next.owner # "nobody" /\ next.guest = g
          /\ (g \notin split => next.owner = Owns(g))
        BY <2>1, OwnersAgree
    <2> HIDE DEF next
    <2> QED BY <2>1, <2>2, <2>3, CompletionTurns
<1>2. CASE G!CompleteAgain(k, g)
    <2> DEFINE next == [at |-> "receipt", guest |-> g, owner |-> guest[g].payer]
    <2>1. /\ completion' = [completion EXCEPT ![k] = next] /\ guest[g].payer # "nobody"
          /\ UNCHANGED <<G!rows, code, claim, G!history>>
        BY <1>2 DEF G!CompleteAgain
    <2>2. next \in CompletionStates
        BY OwnersAgree DEF CompletionStates, GuestRows
    <2>3. next.owner # "nobody" /\ next.guest = g
          /\ (g \notin split => next.owner = Owns(g))
        BY <2>1, OwnersAgree
    <2> HIDE DEF next
    <2> QED BY <2>1, <2>2, <2>3, CompletionTurns
<1> QED BY <1>1, <1>2

LEMMA CompletionEnds ==
    ASSUME ClaimInv, NEW k \in Completers, G!CompletionStops(k)
    PROVE  ClaimInv'
<1>1. /\ completion' = [completion EXCEPT ![k] = G!NoCompletion]
      /\ UNCHANGED <<G!rows, code, claim, G!history>>
    BY DEF G!CompletionStops
<1> QED BY <1>1, IdleClaimStates, CompletionTurns

LEMMA ReceiptAsked ==
    ASSUME ClaimInv, NEW k \in Completers, G!ReceiptRead(k)
    PROVE  ClaimInv'
<1>0. /\ completion \in [Completers -> CompletionStates]
      /\ completion[k] \in CompletionStates /\ completion[k].owner # "nobody"
      /\ completion[k].at = "receipt"
      /\ completion[k].guest \notin split => completion[k].owner = Owns(completion[k].guest)
    BY ClaimsTyped DEF G!ReceiptRead, ClaimInv, OwnerThere, OwnerKnown
<1> DEFINE write == [completion[k] EXCEPT !.at = "write"]
           next == IF /\ guest[completion[k].guest].payer = completion[k].owner
                      /\ guest[completion[k].guest].receipt = "nobody"
                     THEN write ELSE G!NoCompletion
<1>1. completion' = [completion EXCEPT ![k] = next]
    BY <1>0 DEF G!ReceiptRead
<1>2. /\ write \in CompletionStates /\ write.owner = completion[k].owner
      /\ write.guest = completion[k].guest
    BY <1>0 DEF CompletionStates
<1> HIDE DEF write
<1>3. next = write \/ next = G!NoCompletion
    OBVIOUS
<1> HIDE DEF next
<1>4. UNCHANGED <<G!rows, code, claim, G!history>>
    BY DEF G!ReceiptRead
<1>5. /\ next \in CompletionStates /\ next.owner # "nobody"
      /\ next.at # "idle" /\ next.guest \notin split => next.owner = Owns(next.guest)
    BY <1>0, <1>2, <1>3, IdleClaimStates
<1> QED BY <1>1, <1>4, <1>5, CompletionTurns

\* Rows that are not there yet are made for one record, in its owner's name;
\* the other records keep theirs.
LEMMA RowsAreMade ==
    ASSUME ClaimInv, NEW g \in G!Guests, NEW row \in GuestRows,
           guest' = [guest EXCEPT ![g] = row], row.claimed = guest[g].claimed,
           guest[g].pending # "nobody" => row.pending = guest[g].pending,
           guest[g].payer # "nobody" => row.payer = guest[g].payer,
           g \notin split => {row.pending, row.payer, row.receipt}
                                 \subseteq {"nobody", Owns(g)},
           completion' \in [Completers -> CompletionStates],
           OwnerThere',
           \A k \in Completers : \/ completion'[k] = completion[k]
                                 \/ completion'[k].at = "idle"
                                 \/ /\ completion'[k].guest = completion[k].guest
                                    /\ completion'[k].owner = completion[k].owner
                                    /\ completion[k].at # "idle",
           UNCHANGED <<paid, backer, code, claim, G!history>>
    PROVE  ClaimInv'
<1>1. UNCHANGED <<paid, backer, code, claim, split, late>>
    BY DEF G!history
<1>2. guest \in [G!Guests -> GuestRows] /\ guest' \in [G!Guests -> GuestRows]
    BY ClaimsTyped DEF ClaimInv
<1>3. G!TypeOK'
    BY <1>1, <1>2, ClaimsTyped DEF ClaimInv, G!TypeOK, GuestRows, CodeRows, ClaimStates,
       CompletionStates
<1>4. \A h \in G!Guests : guest'[h] = IF h = g THEN row ELSE guest[h]
    BY <1>2
<1>5. \A h \in G!Guests : /\ guest'[h].claimed = guest[h].claimed
                          /\ guest[h].pending # "nobody" => guest'[h].pending = guest[h].pending
                          /\ guest[h].payer # "nobody" => guest'[h].payer = guest[h].payer
    BY <1>4
<1>6. AskedFirst'
    BY <1>1, <1>5 DEF ClaimInv, AskedFirst
<1>7. OwnerKnown'
    <2> SUFFICES ASSUME NEW k \in Completers, completion'[k].at # "idle",
                        completion'[k].guest \notin split'
                 PROVE  completion'[k].owner = IF guest'[completion'[k].guest].claimed
                                                 THEN "account" ELSE "guest"
        BY DEF OwnerKnown, Owns
    <2>1. /\ completion'[k].guest = completion[k].guest
          /\ completion'[k].owner = completion[k].owner /\ completion[k].at # "idle"
        OBVIOUS
    <2>2. completion[k].owner = Owns(completion[k].guest) /\ completion[k].guest \in G!Guests
        BY <1>1, <2>1, ClaimsTyped DEF ClaimInv, OwnerKnown, CompletionStates
    <2>3. guest'[completion'[k].guest].claimed = guest[completion[k].guest].claimed
        BY <1>5, <2>1, <2>2
    <2> QED BY <2>1, <2>2, <2>3 DEF Owns
<1>8. G!RecordsAgree'
    <2> SUFFICES ASSUME NEW h \in G!Guests, h \notin split
                 PROVE  {guest'[h].pending, guest'[h].payer, guest'[h].receipt}
                            \subseteq {"nobody", IF guest'[h].claimed THEN "account" ELSE "guest"}
        BY <1>1 DEF G!RecordsAgree
    <2>1. CASE h = g
        BY <1>4, <2>1 DEF Owns
    <2>2. CASE h # g
        BY <1>4, <2>2 DEF ClaimInv, G!RecordsAgree
    <2> QED BY <2>1, <2>2
<1>9. BackedRight'
    BY <1>1, <1>5 DEF ClaimInv, BackedRight
<1>10. ListedPaid'
    <2>1. \A v \in Workers : claim[v].listed \subseteq G!Guests
        BY ClaimsTyped DEF ClaimInv, ClaimStates
    <2> QED BY <1>1, <1>5, <2>1 DEF ClaimInv, ListedPaid
<1>11. G!DuesFollowClaims'
    BY <1>1, <1>5 DEF ClaimInv, G!DuesFollowClaims, G!PaidDueIsBacked, G!ClaimSettlesListed
<1> QED BY <1>3, <1>6, <1>7, <1>8, <1>9, <1>10, <1>11 DEF ClaimInv

LEMMA RecordMade ==
    ASSUME ClaimInv, NEW g \in G!Guests, G!MakeGuest(g) \/ G!AskPayment(g)
    PROVE  ClaimInv'
<1>0. /\ guest[g] \in GuestRows /\ guest \in [G!Guests -> GuestRows]
      /\ completion \in [Completers -> CompletionStates]
      /\ UNCHANGED <<paid, backer, code, claim, completion, G!history>>
    BY ClaimsTyped DEF ClaimInv, G!MakeGuest, G!AskPayment
<1>1. OwnerThere'
    BY <1>0 DEF ClaimInv, OwnerThere
<1>2. CASE G!MakeGuest(g)
    <2> DEFINE row == [guest[g] EXCEPT !.made = TRUE]
    <2>1. guest' = [guest EXCEPT ![g] = row]
        BY <1>2 DEF G!MakeGuest
    <2>2. /\ row \in GuestRows /\ row.claimed = guest[g].claimed
          /\ row.pending = guest[g].pending /\ row.payer = guest[g].payer
          /\ row.receipt = guest[g].receipt
        BY <1>0 DEF GuestRows
    <2> HIDE DEF row
    <2> QED BY <1>0, <1>1, <2>1, <2>2, OwnersAgree, RowsAreMade
<1>3. CASE G!AskPayment(g)
    <2> DEFINE row == [guest[g] EXCEPT !.pending = "guest"]
    <2>1. guest' = [guest EXCEPT ![g] = row] /\ guest[g].pending = "nobody"
        BY <1>3 DEF G!AskPayment
    <2>2. /\ row \in GuestRows /\ row.claimed = guest[g].claimed
          /\ row.pending = "guest" /\ row.payer = guest[g].payer
          /\ row.receipt = guest[g].receipt
        BY <1>0 DEF GuestRows, G!Owner
    <2> HIDE DEF row
    <2>3. g \notin split => Owns(g) = "guest"
        BY <2>1 DEF ClaimInv, AskedFirst, Owns
    <2>4. g \notin split => {row.pending, row.payer, row.receipt} \subseteq {"nobody",
       Owns(g)}
        BY <2>2, <2>3, OwnersAgree
    <2> QED BY <1>0, <1>1, <2>1, <2>2, <2>4, RowsAreMade
<1> QED BY <1>2, <1>3

LEMMA PaymentMade ==
    ASSUME ClaimInv, NEW k \in Completers, G!CompleteCommit(k)
    PROVE  ClaimInv'
<1>0. /\ completion \in [Completers -> CompletionStates]
      /\ completion[k] \in CompletionStates /\ completion[k].owner # "nobody"
      /\ completion[k].at = "commit" /\ completion[k].guest \in G!Guests
      /\ completion[k].guest \notin split => completion[k].owner = Owns(completion[k].guest)
      /\ UNCHANGED <<paid, backer, code, claim, G!history>>
    BY ClaimsTyped DEF G!CompleteCommit, ClaimInv, OwnerThere, OwnerKnown, CompletionStates
<1>1. CASE guest[completion[k].guest].payer # "nobody"
    <2>1. completion' = [completion EXCEPT ![k] = G!NoCompletion] /\ UNCHANGED guest
        BY <1>1 DEF G!CompleteCommit
    <2> QED BY <1>0, <2>1, IdleClaimStates, CompletionTurns DEF G!rows
<1>2. CASE guest[completion[k].guest].payer = "nobody"
    <2> DEFINE g == completion[k].guest
               row == [guest[g] EXCEPT !.payer = completion[k].owner]
               next == [completion[k] EXCEPT !.at = "receipt"]
    <2>1. /\ guest' = [guest EXCEPT ![g] = row]
          /\ completion' = [completion EXCEPT ![k] = next]
        BY <1>2 DEF G!CompleteCommit
    <2>2. g \in G!Guests /\ guest[g] \in GuestRows
        BY <1>0, OwnersAgree
    <2>3. /\ row \in GuestRows /\ row.claimed = guest[g].claimed
          /\ row.pending = guest[g].pending /\ row.payer = completion[k].owner
          /\ row.receipt = guest[g].receipt
        BY <1>0, <2>2 DEF GuestRows, CompletionStates
    <2>4. /\ next \in CompletionStates /\ next.guest = completion[k].guest
          /\ next.owner = completion[k].owner
        BY <1>0 DEF CompletionStates
    <2>5. g \notin split => {row.pending, row.payer, row.receipt} \subseteq {"nobody",
       Owns(g)}
        BY <1>0, <2>2, <2>3, OwnersAgree
    <2>6. guest[g].payer = "nobody"
        BY <1>2
    <2> HIDE DEF row, next, g
    <2>7. completion' \in [Completers -> CompletionStates]
        BY <1>0, <2>1, <2>4
    <2>8. \A h \in Completers : completion'[h] = IF h = k THEN next ELSE completion[h]
        BY <1>0, <2>1
    <2>9. OwnerThere'
        BY <1>0, <2>4, <2>8 DEF ClaimInv, OwnerThere
    <2> QED BY <1>0, <2>1, <2>2, <2>3, <2>4, <2>5, <2>6, <2>7, <2>8, <2>9, RowsAreMade
<1> QED BY <1>1, <1>2

LEMMA ReceiptMade ==
    ASSUME ClaimInv, NEW k \in Completers, G!ReceiptWrite(k)
    PROVE  ClaimInv'
<1>0. /\ completion \in [Completers -> CompletionStates]
      /\ completion[k] \in CompletionStates /\ completion[k].owner # "nobody"
      /\ completion[k].at = "write" /\ completion[k].guest \in G!Guests
      /\ completion[k].guest \notin split => completion[k].owner = Owns(completion[k].guest)
      /\ completion' = [completion EXCEPT ![k] = G!NoCompletion]
      /\ UNCHANGED <<paid, backer, code, claim, G!history>>
    BY ClaimsTyped DEF G!ReceiptWrite, ClaimInv, OwnerThere, OwnerKnown, CompletionStates
<1>1. CASE guest[completion[k].guest].receipt # "nobody"
    <2>1. UNCHANGED guest
        BY <1>1 DEF G!ReceiptWrite
    <2> QED BY <1>0, <2>1, IdleClaimStates, CompletionTurns DEF G!rows
<1>2. CASE guest[completion[k].guest].receipt = "nobody"
    <2> DEFINE g == completion[k].guest
               row == [guest[g] EXCEPT !.receipt = completion[k].owner]
    <2>1. guest' = [guest EXCEPT ![g] = row]
        BY <1>2 DEF G!ReceiptWrite
    <2>2. g \in G!Guests /\ guest[g] \in GuestRows
        BY <1>0, OwnersAgree
    <2>3. /\ row \in GuestRows /\ row.claimed = guest[g].claimed
          /\ row.pending = guest[g].pending /\ row.payer = guest[g].payer
          /\ row.receipt = completion[k].owner
        BY <1>0, <2>2 DEF GuestRows, CompletionStates
    <2>4. g \notin split => {row.pending, row.payer, row.receipt} \subseteq {"nobody",
       Owns(g)}
        BY <1>0, <2>2, <2>3, OwnersAgree
    <2> HIDE DEF row, g
    <2>5. completion' \in [Completers -> CompletionStates]
        BY <1>0, IdleClaimStates
    <2>6. \A h \in Completers : completion'[h] = IF h = k THEN G!NoCompletion ELSE completion[h]
        BY <1>0
    <2>7. OwnerThere'
        BY <2>6, IdleClaimStates DEF ClaimInv, OwnerThere
    <2> QED BY <1>0, <2>1, <2>2, <2>3, <2>4, <2>5, <2>6, <2>7, IdleClaimStates, RowsAreMade
<1> QED BY <1>1, <1>2

----------------------------------------------------------------------------
(* A payment in the application *)

LEMMA DuePaidInApplication ==
    ASSUME ClaimInv, NEW d \in GuestDues, G!PayInApplication(d)
    PROVE  ClaimInv'
<1>1. /\ UNCHANGED <<guest, code, claim, completion, split, late>>
      /\ paid' = paid \cup {d} /\ backer' = [backer EXCEPT ![d] = G!Application]
    BY DEF G!PayInApplication, G!history
<1>2. paid' \subseteq GuestDues /\ backer' \in [GuestDues -> G!Guests \cup {None, G!Application}]
    BY <1>1, ClaimsTyped DEF ClaimInv
<1>3. G!TypeOK'
    BY <1>1, <1>2, ClaimsTyped DEF ClaimInv, G!TypeOK, GuestRows, CodeRows, ClaimStates,
       CompletionStates
<1>4. AskedFirst' /\ OwnerKnown' /\ OwnerThere' /\ G!RecordsAgree' /\ ListedPaid'
    BY <1>1 DEF ClaimInv, AskedFirst, OwnerKnown, OwnerThere, Owns, G!RecordsAgree,
       ListedPaid
<1>5. \A e \in GuestDues : backer'[e] = IF e = d THEN G!Application ELSE backer[e]
    BY <1>1, ClaimsTyped DEF ClaimInv
<1>6. G!Application \notin G!Guests /\ G!Application # None
    BY NoneIsNoNumber, ClaimsAssumption DEF G!Application, G!Guests
<1>7. BackedRight'
    BY <1>1, <1>5, <1>6 DEF ClaimInv, BackedRight
<1>8. paid \subseteq GuestDues
    BY ClaimsTyped DEF ClaimInv
<1>9. G!PaidDueIsBacked'
    BY <1>1, <1>5, <1>6, <1>7, <1>8 DEF ClaimInv, G!DuesFollowClaims, G!PaidDueIsBacked,
       BackedRight
<1>10. G!ClaimSettlesListed'
    BY <1>1 DEF ClaimInv, G!DuesFollowClaims, G!ClaimSettlesListed
<1> QED BY <1>3, <1>4, <1>7, <1>9, <1>10 DEF ClaimInv, G!DuesFollowClaims

----------------------------------------------------------------------------
(* The transaction of verifyClaimCode *)

LEMMA ClaimedRow ==
    ASSUME ClaimInv, NEW g \in G!Guests
    PROVE  /\ G!Claimed(g) \in GuestRows
           /\ G!Claimed(g).claimed = TRUE
           /\ G!Claimed(g).pending = G!Moved(guest[g].pending)
           /\ G!Claimed(g).payer = G!Moved(guest[g].payer)
           /\ G!Claimed(g).receipt = G!Moved(guest[g].receipt)
<1>0. guest[g] \in GuestRows
    BY OwnersAgree
<1>1. \A o \in G!Owner : G!Moved(o) \in G!Owner
    BY DEF G!Owner, G!Moved
<1> DEFINE a == [guest[g] EXCEPT !.receipt = G!Moved(guest[g].receipt)]
           b == [a EXCEPT !.payer = G!Moved(guest[g].payer)]
           c == [b EXCEPT !.pending = G!Moved(guest[g].pending)]
           row == [c EXCEPT !.claimed = TRUE]
<1>2. G!Claimed(g) = row
    BY <1>0 DEF G!Claimed, GuestRows
<1>3. a \in GuestRows /\ a.receipt = G!Moved(guest[g].receipt)
    BY <1>0, <1>1 DEF GuestRows
<1> HIDE DEF a
<1>4. /\ b \in GuestRows /\ b.receipt = G!Moved(guest[g].receipt)
      /\ b.payer = G!Moved(guest[g].payer)
    BY <1>0, <1>1, <1>3 DEF GuestRows
<1> HIDE DEF b
<1>5. /\ c \in GuestRows /\ c.receipt = G!Moved(guest[g].receipt)
      /\ c.payer = G!Moved(guest[g].payer) /\ c.pending = G!Moved(guest[g].pending)
    BY <1>0, <1>1, <1>4 DEF GuestRows
<1> HIDE DEF c
<1>6. /\ row \in GuestRows /\ row.receipt = G!Moved(guest[g].receipt)
      /\ row.payer = G!Moved(guest[g].payer) /\ row.pending = G!Moved(guest[g].pending)
      /\ row.claimed = TRUE
    BY <1>5 DEF GuestRows
<1> HIDE DEF row
<1> QED BY <1>2, <1>6

LEMMA BackerAfter ==
    ASSUME ClaimInv, NEW listed \in SUBSET G!Guests, NEW d \in GuestDues
    PROVE  /\ G!NewBacker(listed, d) \in G!Guests \cup {None, G!Application}
           /\ \/ G!NewBacker(listed, d) = backer[d]
              \/ backer[d] = None /\ G!NewBacker(listed, d) \in listed
           /\ d \in G!Settled(listed) => G!NewBacker(listed, d) # None
<1> DEFINE paying == {g \in listed : DueOf[g] = d}
<1>0. backer[d] \in G!Guests \cup {None, G!Application} /\ None \notin G!Guests
    BY ClaimsTyped, NoneIsNoNumber, ClaimsAssumption DEF ClaimInv, G!Guests
<1>1. CASE backer[d] = None /\ paying # {}
    <2>1. G!NewBacker(listed, d) = G!Oldest(paying)
        BY <1>1 DEF G!NewBacker
    <2>2. paying \subseteq listed /\ \A g \in listed : g \in G!Guests
        OBVIOUS
    <2> HIDE DEF paying
    <2>3. \A g \in G!Guests : g \in Nat
        BY DEF G!Guests
    <2>6. paying \subseteq Nat
        BY <2>2, <2>3
    <2>7. G!Oldest(paying) \in paying
        BY <1>1, <2>6, OldestIsOne
    <2>4. G!Oldest(paying) \in listed
        BY <2>2, <2>7
    <2> QED BY <1>0, <1>1, <2>1, <2>4
<1>2. CASE backer[d] # None
    BY <1>0, <1>2 DEF G!NewBacker
<1>3. CASE backer[d] = None /\ paying = {}
    BY <1>0, <1>3 DEF G!NewBacker, G!Settled
<1> QED BY <1>1, <1>2, <1>3

LEMMA ClaimCommitted ==
    ASSUME ClaimInv, NEW v \in Workers, G!ClaimCommit(v)
    PROVE  ClaimInv'
<1> DEFINE guests == claim[v].guests
           listed == claim[v].listed
           first == {g \in guests : ~guest[g].claimed}
<1>0. /\ claim[v].at = "commit"
      /\ guest' = [g \in G!Guests |-> IF g \in guests THEN G!Claimed(g) ELSE guest[g]]
      /\ paid' = paid \cup G!Settled(listed)
      /\ backer' = [d \in GuestDues |-> G!NewBacker(listed, d)]
      /\ code' = [code EXCEPT ![claim[v].code].used = TRUE]
      /\ claim' = [claim EXCEPT ![v] = G!NoClaim]
      /\ split' = split \cup {g \in first : guest[g].pending = "nobody" \/ G!Busy(g)}
      /\ late' = late \cup (first \ listed)
      /\ completion' = completion
    BY DEF G!ClaimCommit
<1>1. /\ claim \in [Workers -> ClaimStates] /\ code \in [G!Codes -> CodeRows]
      /\ completion \in [Completers -> CompletionStates] /\ guest \in [G!Guests -> GuestRows]
      /\ paid \subseteq GuestDues /\ split \subseteq G!Guests /\ late \subseteq G!Guests
    BY ClaimsTyped DEF ClaimInv
<1>2. /\ guests \subseteq G!Guests /\ listed \subseteq guests /\ claim[v].code \in G!Codes
      /\ \A g \in listed : guest[g].payer # "nobody"
    BY <1>0, <1>1 DEF ClaimInv, ListedPaid, ClaimStates
<1>3. first \subseteq guests
    OBVIOUS
<1>4. code' \in [G!Codes -> CodeRows]
    <2> DEFINE row == [code[claim[v].code] EXCEPT !.used = TRUE]
    <2>1. code' = [code EXCEPT ![claim[v].code] = row]
        BY <1>0
    <2>2. code[claim[v].code] \in CodeRows
        BY <1>1, <1>2
    <2>3. row \in CodeRows
        BY <2>2 DEF CodeRows
    <2> HIDE DEF row
    <2> QED BY <1>1, <1>2, <2>1, <2>3
<1>5. claim' \in [Workers -> ClaimStates]
    BY <1>0, <1>1, IdleClaimStates
<1>6. \A w \in Workers : claim'[w] = IF w = v THEN G!NoClaim ELSE claim[w]
    BY <1>0, <1>1
<1>7. \A g \in G!Guests : guest'[g] = IF g \in guests THEN G!Claimed(g) ELSE guest[g]
    BY <1>0
<1>8. \A g \in G!Guests : guest'[g] \in GuestRows
    BY <1>1, <1>7, ClaimedRow
<1>9. guest' \in [G!Guests -> GuestRows]
    BY <1>0, <1>8
<1>10. \A d \in GuestDues : /\ backer'[d] = G!NewBacker(listed, d)
                            /\ backer'[d] \in G!Guests \cup {None, G!Application}
                            /\ \/ backer'[d] = backer[d]
                               \/ backer[d] = None /\ backer'[d] \in listed
                            /\ d \in G!Settled(listed) => backer'[d] # None
    <2> SUFFICES ASSUME NEW d \in GuestDues
                 PROVE  /\ backer'[d] = G!NewBacker(listed, d)
                        /\ backer'[d] \in G!Guests \cup {None, G!Application}
                        /\ \/ backer'[d] = backer[d]
                           \/ backer[d] = None /\ backer'[d] \in listed
                        /\ d \in G!Settled(listed) => backer'[d] # None
        OBVIOUS
    <2>1. listed \in SUBSET G!Guests
        BY <1>2
    <2>2. backer'[d] = G!NewBacker(listed, d)
        BY <1>0
    <2> HIDE DEF listed
    <2> QED BY <2>1, <2>2, BackerAfter
<1>11. backer' \in [GuestDues -> G!Guests \cup {None, G!Application}]
    BY <1>0, <1>10
<1>12. G!Settled(listed) \subseteq GuestDues
    BY <1>2, ClaimsAssumption DEF G!Settled, G!Guests
<1>13. /\ split' \subseteq G!Guests /\ late' \subseteq G!Guests /\ paid' \subseteq GuestDues
       /\ split \subseteq split' /\ late \subseteq late'
       /\ \A g \in first \ split' : guest[g].pending # "nobody" /\ ~G!Busy(g)
       /\ \A g \in first : g \in late' \/ g \in listed
    BY <1>0, <1>1, <1>2, <1>3, <1>12
<1>14. \A g \in guests : g \in first \/ guest[g].claimed
    OBVIOUS
<1> HIDE DEF guests, listed, first
<1>15. \A o \in G!Owner : /\ G!Moved(o) = "nobody" <=> o = "nobody"
                          /\ G!Moved(o) # "guest"
                          /\ o = "account" => G!Moved(o) = "account"
    BY DEF G!Owner, G!Moved
<1>16. \A g \in G!Guests :
           /\ g \in guests =>
                 /\ guest'[g].claimed
                 /\ guest'[g].pending = G!Moved(guest[g].pending)
                 /\ guest'[g].payer = G!Moved(guest[g].payer)
                 /\ guest'[g].receipt = G!Moved(guest[g].receipt)
           /\ g \notin guests => guest'[g] = guest[g]
    BY <1>7, ClaimedRow
<1>17. \A g \in G!Guests : /\ guest[g].pending \in G!Owner /\ guest[g].payer \in G!Owner
                           /\ guest[g].receipt \in G!Owner
    BY <1>1 DEF GuestRows
<1>18. \A g \in G!Guests : /\ guest[g].claimed => guest'[g].claimed
                           /\ guest[g].payer # "nobody" => guest'[g].payer # "nobody"
                           /\ guest[g].pending # "nobody" => guest'[g].pending # "nobody"
                           /\ guest[g].payer = "account" => guest'[g].payer = "account"
    BY <1>15, <1>16, <1>17
<1>19. G!TypeOK'
    BY <1>0, <1>1, <1>4, <1>5, <1>9, <1>11, <1>13
       DEF G!TypeOK, GuestRows, CodeRows, ClaimStates, CompletionStates
<1>20. AskedFirst'
    <2> SUFFICES ASSUME NEW g \in G!Guests, g \notin split', guest'[g].claimed
                 PROVE  guest'[g].pending # "nobody"
        BY DEF AskedFirst
    <2>1. guest[g].pending # "nobody"
        BY <1>13, <1>14, <1>16 DEF ClaimInv, AskedFirst
    <2> QED BY <1>18, <2>1
<1>21. OwnerThere'
    BY <1>0 DEF ClaimInv, OwnerThere
<1>22. OwnerKnown'
    <2> SUFFICES ASSUME NEW k \in Completers, completion[k].at # "idle",
                        completion[k].guest \notin split'
                 PROVE  completion[k].owner = IF guest'[completion[k].guest].claimed
                                                THEN "account" ELSE "guest"
        BY <1>0 DEF OwnerKnown, Owns
    <2>1. PICK g \in G!Guests : g = completion[k].guest
        BY <1>1 DEF CompletionStates
    <2>2. G!Busy(g)
        BY <2>1 DEF G!Busy
    <2>3. g \notin first /\ completion[k].owner = IF guest[g].claimed THEN "account" ELSE "guest"
        BY <1>13, <2>1, <2>2 DEF ClaimInv, OwnerKnown, Owns
    <2>4. guest'[g].claimed = guest[g].claimed
        BY <1>14, <1>16, <2>3, <1>18, <1>1, <1>9 DEF GuestRows
    <2> QED BY <2>1, <2>3, <2>4
<1>23. G!RecordsAgree'
    <2> SUFFICES ASSUME NEW g \in G!Guests, g \notin split'
                 PROVE  {guest'[g].pending, guest'[g].payer, guest'[g].receipt}
                            \subseteq {"nobody", IF guest'[g].claimed THEN "account" ELSE "guest"}
        BY DEF G!RecordsAgree
    <2>1. {guest[g].pending, guest[g].payer, guest[g].receipt}
              \subseteq {"nobody", IF guest[g].claimed THEN "account" ELSE "guest"}
        BY <1>13 DEF ClaimInv, G!RecordsAgree
    <2>2. CASE g \in guests
        <3>1. \A o \in G!Owner : G!Moved(o) \in {"nobody", "account"}
            BY DEF G!Owner, G!Moved
        <3> QED BY <1>16, <1>17, <2>2, <3>1
    <2>3. CASE g \notin guests
        BY <1>16, <2>1, <2>3
    <2> QED BY <2>2, <2>3
<1>24. \A g \in listed : guest'[g].claimed /\ guest'[g].payer = "account"
    <2>1. \A o \in G!Owner : o # "nobody" => G!Moved(o) = "account"
        BY DEF G!Owner, G!Moved
    <2> QED BY <1>2, <1>16, <1>17, <2>1
<1>25. BackedRight'
    <2> SUFFICES ASSUME NEW d \in GuestDues, NEW g \in G!Guests, backer'[d] = g
                 PROVE  guest'[g].claimed /\ guest'[g].payer = "account"
        BY DEF BackedRight
    <2>1. CASE backer'[d] \in listed
        BY <1>24, <2>1
    <2>2. CASE backer'[d] = backer[d]
        BY <1>18, <2>2 DEF ClaimInv, BackedRight
    <2> QED BY <1>10, <2>1, <2>2
<1>26. ListedPaid'
    <2> SUFFICES ASSUME NEW w \in Workers
                 PROVE  /\ claim'[w].at = "create" => claim'[w].guests # {}
                        /\ claim'[w].at = "commit" =>
                              /\ claim'[w].listed \subseteq claim'[w].guests
                              /\ \A g \in claim'[w].listed : guest'[g].payer # "nobody"
        BY DEF ListedPaid
    <2>1. CASE w = v
        BY <1>6, <2>1, IdleClaimStates
    <2>2. CASE w # v
        <3>1. claim'[w] = claim[w] /\ claim[w].listed \subseteq G!Guests
            BY <1>1, <1>6, <2>2 DEF ClaimStates
        <3> QED BY <1>18, <3>1 DEF ClaimInv, ListedPaid
    <2> QED BY <2>1, <2>2
<1>27. G!PaidDueIsBacked'
    <2> SUFFICES ASSUME NEW d \in paid'
                 PROVE  backer'[d] # None
        BY <1>13, <1>25 DEF G!PaidDueIsBacked, BackedRight
    <2>1. d \in GuestDues
        BY <1>13
    <2>2. CASE d \in G!Settled(listed)
        BY <1>10, <2>1, <2>2
    <2>3. CASE d \in paid
        BY <1>10, <2>1, <2>3 DEF ClaimInv, G!DuesFollowClaims, G!PaidDueIsBacked
    <2> QED BY <1>0, <2>2, <2>3
<1>28. G!ClaimSettlesListed'
    <2> SUFFICES ASSUME NEW g \in G!Guests, guest'[g].claimed, g \notin late'
                 PROVE  DueOf[g] \in paid'
        BY DEF G!ClaimSettlesListed
    <2>1. CASE g \in listed
        BY <1>0, <2>1 DEF G!Settled
    <2>2. CASE g \notin listed
        <3>1. guest[g].claimed
            BY <1>13, <1>14, <1>16, <2>2
        <3>2. DueOf[g] \in paid
            BY <1>13, <3>1 DEF ClaimInv, G!DuesFollowClaims, G!ClaimSettlesListed
        <3> QED BY <1>0, <3>2
    <2> QED BY <2>1, <2>2
<1> QED BY <1>19, <1>20, <1>21, <1>22, <1>23, <1>25, <1>26, <1>27, <1>28
        DEF ClaimInv, G!DuesFollowClaims

----------------------------------------------------------------------------
LEMMA ClaimInvStart == G!Init => ClaimInv
<1> SUFFICES ASSUME G!Init PROVE ClaimInv
    OBVIOUS
<1>0. G!Guests \subseteq Nat /\ None \notin G!Guests
    BY NoneIsNoNumber, ClaimsAssumption DEF G!Guests
<1>1. G!TypeOK
    BY IdleClaimStates, ClaimsTyped DEF G!Init
<1>2. \A g \in G!Guests : guest[g] = G!NoGuest
    BY DEF G!Init
<1>3. AskedFirst /\ G!RecordsAgree /\ G!ClaimSettlesListed
    BY <1>2 DEF AskedFirst, G!RecordsAgree, G!ClaimSettlesListed, G!NoGuest
<1>4. OwnerKnown /\ OwnerThere /\ ListedPaid
    BY IdleClaimStates DEF G!Init, OwnerKnown, OwnerThere, ListedPaid
<1>5. BackedRight /\ G!PaidDueIsBacked
    BY <1>0 DEF G!Init, BackedRight, G!PaidDueIsBacked
<1> QED BY <1>1, <1>3, <1>4, <1>5 DEF ClaimInv, G!DuesFollowClaims

LEMMA ClaimInvKept == ClaimInv /\ [G!Next]_(G!vars) => ClaimInv'
<1> SUFFICES ASSUME ClaimInv, [G!Next]_(G!vars) PROVE ClaimInv'
    OBVIOUS
<1>1. ASSUME NEW g \in G!Guests, G!MakeGuest(g) \/ G!AskPayment(g) PROVE ClaimInv'
    BY <1>1, RecordMade
<1>2. ASSUME NEW v \in Workers, G!ClaimStep(v) PROVE ClaimInv'
    BY <1>2, CodesKeep, CodeRequests, CodeCreated, CodeVerified, ClaimListed, ClaimCommitted
       DEF G!ClaimStep
<1>3. ASSUME NEW k \in Completers, G!CompletionStep(k) PROVE ClaimInv'
    BY <1>3, CompletionReads, CompletionEnds, PaymentMade, ReceiptAsked, ReceiptMade
       DEF G!CompletionStep
<1>4. ASSUME NEW i \in G!Codes, G!CodeAges(i) PROVE ClaimInv'
    BY <1>4, CodeAgesKeeps
<1>5. ASSUME NEW d \in GuestDues, G!PayInApplication(d) PROVE ClaimInv'
    BY <1>5, DuePaidInApplication
<1>6. CASE UNCHANGED G!vars
    <2>1. UNCHANGED <<guest, paid, backer, code, claim, completion, split, late>>
        BY <1>6 DEF G!vars, G!rows, G!history
    <2>2. G!TypeOK'
        BY <2>1 DEF ClaimInv, G!TypeOK
    <2>3. AskedFirst' /\ OwnerKnown' /\ OwnerThere' /\ G!RecordsAgree'
          /\ BackedRight' /\ ListedPaid'
        BY <2>1 DEF ClaimInv, AskedFirst, OwnerKnown, OwnerThere, Owns, G!RecordsAgree,
           BackedRight, ListedPaid
    <2>4. G!DuesFollowClaims'
        BY <2>1 DEF ClaimInv, G!DuesFollowClaims, G!PaidDueIsBacked, G!ClaimSettlesListed
    <2> QED BY <2>2, <2>3, <2>4 DEF ClaimInv
<1> QED BY <1>1, <1>2, <1>3, <1>4, <1>5, <1>6 DEF G!Next

\* A due that has a due payment row is paid.
BackersPaid == \A d \in GuestDues : backer[d] # None => d \in paid

LEMMA BackersPaidKept ==
    ASSUME ClaimInv, BackersPaid, [G!Next]_(G!vars)
    PROVE  BackersPaid'
<1>1. ASSUME NEW v \in Workers, G!ClaimCommit(v) PROVE BackersPaid'
    <2> DEFINE listed == claim[v].listed
    <2>1. /\ paid' = paid \cup G!Settled(listed)
          /\ backer' = [d \in GuestDues |-> G!NewBacker(listed, d)]
        BY <1>1 DEF G!ClaimCommit
    <2> SUFFICES ASSUME NEW d \in GuestDues, G!NewBacker(listed, d) # None
                 PROVE  d \in paid \cup G!Settled(listed)
        BY <2>1 DEF BackersPaid
    <2>2. CASE backer[d] # None
        BY <2>2 DEF BackersPaid
    <2>3. CASE backer[d] = None
        BY <2>3 DEF G!NewBacker, G!Settled
    <2> QED BY <2>2, <2>3
<1>2. ASSUME NEW d \in GuestDues, G!PayInApplication(d) PROVE BackersPaid'
    <2>1. paid' = paid \cup {d} /\ \A e \in GuestDues \ {d} : backer'[e] = backer[e]
        BY <1>2, ClaimsTyped DEF ClaimInv, G!PayInApplication
    <2> QED BY <2>1 DEF BackersPaid
<1>3. CASE UNCHANGED <<paid, backer>>
    BY <1>3 DEF BackersPaid
<1>4. \/ UNCHANGED <<paid, backer>> \/ \E v \in Workers : G!ClaimCommit(v)
      \/ \E d \in GuestDues : G!PayInApplication(d)
    BY DEF G!Next, G!vars, G!rows, G!MakeGuest, G!AskPayment, G!ClaimStep, G!RequestCode,
       G!CreateCode, G!MailSent,
       G!MailFails, G!VerifyRead, G!CountAttempt, G!ClaimList, G!ClaimStops,
       G!CompletionStep, G!CompleteRead,
       G!CompleteAgain, G!CompleteCommit, G!ReceiptRead, G!ReceiptWrite, G!CompletionStops,
       G!CodeAges
<1> QED BY <1>1, <1>2, <1>3, <1>4

\* What ClaimIsIdempotent says of a step, of the guests and of the dues.
GuestsKept ==
    \A g \in G!Guests :
        /\ guest[g].claimed => guest'[g].claimed
        /\ guest[g].payer = "account" => guest'[g].payer = "account"
        /\ guest[g].receipt = "account" => guest'[g].receipt = "account"
BackersKept == \A d \in GuestDues : backer[d] # None => backer'[d] = backer[d]

LEMMA GuestsAreKept ==
    ASSUME ClaimInv, [G!Next]_(G!vars)
    PROVE  GuestsKept
<1>0. guest \in [G!Guests -> GuestRows]
    BY ClaimsTyped DEF ClaimInv
<1>1. ASSUME NEW v \in Workers, G!ClaimCommit(v) PROVE GuestsKept
    <2>1. guest' = [g \in G!Guests |-> IF g \in claim[v].guests THEN G!Claimed(g) ELSE guest[g]]
        BY <1>1 DEF G!ClaimCommit
    <2> SUFFICES ASSUME NEW g \in G!Guests
                 PROVE  /\ guest[g].claimed => guest'[g].claimed
                        /\ guest[g].payer = "account" => guest'[g].payer = "account"
                        /\ guest[g].receipt = "account" => guest'[g].receipt = "account"
        BY DEF GuestsKept
    <2>2. guest'[g] = guest[g] \/ guest'[g] = G!Claimed(g)
        BY <2>1
    <2>3. G!Moved("account") = "account"
        BY DEF G!Moved
    <2> QED BY <2>2, <2>3, ClaimedRow
<1>2. ASSUME NEW g \in G!Guests, NEW row, guest' = [guest EXCEPT ![g] = row],
             /\ row.claimed = guest[g].claimed
             /\ guest[g].payer = "account" => row.payer = "account"
             /\ guest[g].receipt = "account" => row.receipt = "account"
      PROVE  GuestsKept
    BY <1>0, <1>2 DEF GuestsKept
<1>3. ASSUME NEW g \in G!Guests, G!MakeGuest(g) \/ G!AskPayment(g) PROVE GuestsKept
    <2>1. guest[g] \in GuestRows
        BY <1>0
    <2>2. CASE G!MakeGuest(g)
        <3> DEFINE row == [guest[g] EXCEPT !.made = TRUE]
        <3>1. guest' = [guest EXCEPT ![g] = row]
            BY <2>2 DEF G!MakeGuest
        <3>2. row.claimed = guest[g].claimed /\ row.payer = guest[g].payer
              /\ row.receipt = guest[g].receipt
            BY <2>1 DEF GuestRows
        <3> HIDE DEF row
        <3> QED BY <1>2, <3>1, <3>2
    <2>3. CASE G!AskPayment(g)
        <3> DEFINE row == [guest[g] EXCEPT !.pending = "guest"]
        <3>1. guest' = [guest EXCEPT ![g] = row]
            BY <2>3 DEF G!AskPayment
        <3>2. row.claimed = guest[g].claimed /\ row.payer = guest[g].payer
              /\ row.receipt = guest[g].receipt
            BY <2>1 DEF GuestRows
        <3> HIDE DEF row
        <3> QED BY <1>2, <3>1, <3>2
    <2> QED BY <1>3, <2>2, <2>3
<1>4. ASSUME NEW k \in Completers, G!CompleteCommit(k) \/ G!ReceiptWrite(k) PROVE GuestsKept
    <2> DEFINE g == completion[k].guest
    <2>1. g \in G!Guests /\ guest[g] \in GuestRows
        BY ClaimsTyped DEF ClaimInv, CompletionStates
    <2>2. CASE UNCHANGED guest
        BY <2>2 DEF GuestsKept
    <2>3. CASE /\ guest[g].payer = "nobody"
               /\ guest' = [guest EXCEPT ![g].payer = completion[k].owner]
        <3> DEFINE row == [guest[g] EXCEPT !.payer = completion[k].owner]
        <3>1. guest' = [guest EXCEPT ![g] = row]
            BY <2>3
        <3>2. row.claimed = guest[g].claimed /\ guest[g].payer # "account"
              /\ row.receipt = guest[g].receipt
            BY <2>1, <2>3 DEF GuestRows
        <3> HIDE DEF row, g
        <3> QED BY <1>2, <2>1, <3>1, <3>2
    <2>4. CASE /\ guest[g].receipt = "nobody"
               /\ guest' = [guest EXCEPT ![g].receipt = completion[k].owner]
        <3> DEFINE row == [guest[g] EXCEPT !.receipt = completion[k].owner]
        <3>1. guest' = [guest EXCEPT ![g] = row]
            BY <2>4
        <3>2. row.claimed = guest[g].claimed /\ row.payer = guest[g].payer
              /\ guest[g].receipt # "account"
            BY <2>1, <2>4 DEF GuestRows
        <3> HIDE DEF row, g
        <3> QED BY <1>2, <2>1, <3>1, <3>2
    <2> QED BY <1>4, <2>2, <2>3, <2>4 DEF G!CompleteCommit, G!ReceiptWrite
<1>5. CASE UNCHANGED guest
    BY <1>5 DEF GuestsKept
<1>6. \/ UNCHANGED guest \/ \E v \in Workers : G!ClaimCommit(v)
      \/ \E g \in G!Guests : G!MakeGuest(g) \/ G!AskPayment(g)
      \/ \E k \in Completers : G!CompleteCommit(k) \/ G!ReceiptWrite(k)
    BY DEF G!Next, G!vars, G!rows, G!ClaimStep, G!RequestCode, G!CreateCode, G!MailSent,
       G!MailFails, G!VerifyRead,
       G!CountAttempt, G!ClaimList, G!ClaimStops, G!CompletionStep, G!CompleteRead,
       G!CompleteAgain,
       G!ReceiptRead, G!CompletionStops, G!CodeAges, G!PayInApplication
<1> QED BY <1>1, <1>3, <1>4, <1>5, <1>6

LEMMA BackersAreKept ==
    ASSUME ClaimInv, BackersPaid, [G!Next]_(G!vars)
    PROVE  BackersKept
<1>1. ASSUME NEW v \in Workers, G!ClaimCommit(v) PROVE BackersKept
    BY <1>1 DEF G!ClaimCommit, G!NewBacker, BackersKept
<1>2. ASSUME NEW d \in GuestDues, G!PayInApplication(d) PROVE BackersKept
    <2>1. d \notin paid /\ \A e \in GuestDues \ {d} : backer'[e] = backer[e]
        BY <1>2, ClaimsTyped DEF ClaimInv, G!PayInApplication
    <2> QED BY <2>1 DEF BackersPaid, BackersKept
<1>3. CASE UNCHANGED backer
    BY <1>3 DEF BackersKept
<1>4. \/ UNCHANGED backer \/ \E v \in Workers : G!ClaimCommit(v)
      \/ \E d \in GuestDues : G!PayInApplication(d)
    BY DEF G!Next, G!vars, G!rows, G!MakeGuest, G!AskPayment, G!ClaimStep, G!RequestCode,
       G!CreateCode, G!MailSent,
       G!MailFails, G!VerifyRead, G!CountAttempt, G!ClaimList, G!ClaimStops,
       G!CompletionStep, G!CompleteRead,
       G!CompleteAgain, G!CompleteCommit, G!ReceiptRead, G!ReceiptWrite, G!CompletionStops,
       G!CodeAges
<1> QED BY <1>1, <1>2, <1>3, <1>4

\* A due payment row is never replaced and a row of the account never goes back,
\* whatever claims, completions and payments in the application overlap
\* (verifyClaimCode).
THEOREM ClaimsIdempotent == G!Spec => G!ClaimIsIdempotent
<1>1. G!Init => BackersPaid
    BY DEF G!Init, BackersPaid
<1>2. ClaimInv /\ BackersPaid /\ [G!Next]_(G!vars) => BackersPaid'
    BY BackersPaidKept
<1>3. ClaimInv /\ BackersPaid /\ [G!Next]_(G!vars) => BackersKept /\ GuestsKept
    BY BackersAreKept, GuestsAreKept
<1>4. BackersKept /\ GuestsKept =>
          /\ \A d \in GuestDues : backer[d] # None => backer'[d] = backer[d]
          /\ \A g \in G!Guests :
                /\ guest[g].claimed => guest'[g].claimed
                /\ guest[g].payer = "account" => guest'[g].payer = "account"
                /\ guest[g].receipt = "account" => guest'[g].receipt = "account"
    BY DEF BackersKept, GuestsKept
<1> QED BY <1>1, <1>2, <1>3, <1>4, ClaimInvStart, ClaimInvKept, PTL DEF G!Spec,
   G!ClaimIsIdempotent

\* Every variable keeps its type (the guest dues service and the completions).
THEOREM ClaimsTypeCorrect == G!Spec => []G!TypeOK
<1>1. ClaimInv => G!TypeOK
    BY DEF ClaimInv
<1> QED BY <1>1, ClaimInvStart, ClaimInvKept, PTL DEF G!Spec

\* The checkout row, the payment and the receipt of a guest record have one owner,
\* unless the record was claimed while it was being paid (verifyClaimCode,
\* completePayment, generateReceipt).
THEOREM RecordsHaveOneOwner == G!Spec => []G!RecordsAgree
<1>1. ClaimInv => G!RecordsAgree
    BY DEF ClaimInv
<1> QED BY <1>1, ClaimInvStart, ClaimInvKept, PTL DEF G!Spec

\* A paid due has a due payment row that names a payment of the account, and the
\* due of a claimed payment is paid (verifyClaimCode).
THEOREM DuesAreBacked == G!Spec => []G!DuesFollowClaims
<1>1. ClaimInv => G!DuesFollowClaims
    BY DEF ClaimInv
<1> QED BY <1>1, ClaimInvStart, ClaimInvKept, PTL DEF G!Spec

LEMMA ClaimsSide == PaymentsSpec => G!Spec
<1>1. PaymentsInit => G!Init
    BY DEF PaymentsInit
<1>2. [PaymentsNext]_allvars => [G!Next]_(G!vars)
    BY DEF PaymentsNext, allvars, claimVars, checkoutVars, accountVars, G!vars, G!rows,
       G!history
<1> QED BY <1>1, <1>2, PTL DEF PaymentsSpec, G!Spec

\* The rows of a guest record have one owner, in the modules about money side by
\* side (verifyClaimCode, completePayment, generateReceipt).
THEOREM RecordsKeepOneOwner == PaymentsSpec => []RecordsAgree
BY ClaimsSide, RecordsHaveOneOwner, PTL DEF RecordsAgree

\* Paid dues and claimed payments agree, in the modules about money side by side
\* (verifyClaimCode).
THEOREM DuesKeepTheirBacking == PaymentsSpec => []DuesFollowClaims
BY ClaimsSide, DuesAreBacked, PTL DEF DuesFollowClaims

\* A claim undoes nothing, in the modules about money side by side
\* (verifyClaimCode).
THEOREM ClaimsRepeatNothing == PaymentsSpec => ClaimIsIdempotent
BY ClaimsSide, ClaimsIdempotent, PTL DEF ClaimIsIdempotent

----------------------------------------------------------------------------
(* Bank accounts *)

BankRows == [state : {"none", "live", "deleted"}, details : Details \cup {None},
        default : BOOLEAN, destination : Details \cup {None}]
TellerStates == [at : {"idle", "unset", "add", "update", "set", "promote", "delete", "ask",
                "store"},
          task : {"none", "add", "update", "set", "delete", "ensure"},
          row : B!Accounts \cup {None}, details : Details \cup {None},
          default : BOOLEAN \cup {None}, changed : BOOLEAN, next : B!Accounts \cup {None}]

\* What a handler s holds for the statement it is to send.
Holding(s) ==
    /\ s.at \in {"ask", "store", "update", "set", "delete", "promote"} => s.row \in B!Accounts
    /\ s.at = "promote" => s.next \in B!Accounts
    /\ s.at = "add" => s.default \in BOOLEAN
    /\ s.at = "unset" =>
          \/ s.task = "add" /\ s.default \in BOOLEAN
          \/ s.task \in {"update", "set"} /\ s.row \in B!Accounts

\* What a handler that asks for a destination has read is still so, or the row
\* has been crossed, or the provider has answered with something older.
AsksForDetails(s) ==
    /\ s.at = "ask" => s.row \in crossed \/ s.details = bank[s.row].details
    /\ s.at = "store" =>
          \/ s.row \in crossed \cup replayed
          \/ s.details \in {None, bank[s.row].details}

\* A handler that changes no details writes what the row says, or the row has
\* been crossed.
KeepsDetails(s) ==
    (s.at = "update" \/ (s.at = "unset" /\ s.task = "update")) /\ ~s.changed =>
        s.row \in crossed \/ s.details \in {None, bank[s.row].details}

TellerKnows(s) == Holding(s) /\ AsksForDetails(s) /\ KeepsDetails(s)

TellersKnow == \A t \in Workers, s \in TellerStates : s = teller[t] => TellerKnows(s)

AccountsInv == B!TypeOK /\ TellersKnow /\ B!DestinationFollowsDetails

----------------------------------------------------------------------------
(* What a write takes from the handlers that do not make it *)

\* A handler goes on knowing what it knew unless the details of its row were
\* written under it, and then the row is crossed.
LEMMA TellerStillKnows ==
    ASSUME NEW s \in TellerStates, TellerKnows(s), crossed \subseteq crossed',
    replayed \subseteq replayed',
           s.at \in {"ask", "store", "unset", "update"} /\ s.row \in B!Accounts =>
               s.row \in crossed' \/ bank'[s.row].details = bank[s.row].details
    PROVE  TellerKnows(s)'
BY DEF TellerKnows, Holding, AsksForDetails, KeepsDetails, TellerStates

\* A step of one handler that leaves the rows alone.
LEMMA BankRowsStay ==
    ASSUME AccountsInv, NEW t \in Workers, NEW s \in TellerStates, TellerKnows(s)',
           teller' = [teller EXCEPT ![t] = s],
           UNCHANGED <<bank, crossed>>,
           replayed \subseteq replayed', replayed' \subseteq B!Accounts,
           made' \in [B!Accounts -> Details \cup {None}]
    PROVE  AccountsInv'
<1>1. B!TypeOK'
    BY DEF AccountsInv, B!TypeOK, TellerStates
<1>2. TellersKnow'
    <2> SUFFICES ASSUME NEW e \in Workers, NEW w \in TellerStates, w = teller'[e] PROVE TellerKnows(w)'
        BY DEF TellersKnow
    <2>1. CASE e = t
        BY <2>1 DEF AccountsInv, B!TypeOK
    <2>2. CASE e # t
        <3>1. TellerKnows(w)
            BY <2>2 DEF AccountsInv, B!TypeOK, TellersKnow
        <3> QED BY <3>1, TellerStillKnows
    <2> QED BY <2>1, <2>2
<1>3. B!DestinationFollowsDetails'
    BY DEF AccountsInv, B!DestinationFollowsDetails
<1> QED BY <1>1, <1>2, <1>3 DEF AccountsInv

----------------------------------------------------------------------------
(* The steps that leave the rows alone *)

LEMMA AddIsRead ==
    ASSUME AccountsInv, NEW t \in Workers, NEW d \in Details, B!AddRead(t, d)
    PROVE  AccountsInv'
<1>1. PICK wish \in BOOLEAN :
         LET first == wish \/ B!Live = {}
         IN  teller' = [teller EXCEPT ![t] =
                [B!Idle EXCEPT !.at = IF first THEN "unset" ELSE "add", !.task = "add",
                    !.row = IF B!With(d) = {} THEN None ELSE CHOOSE r \in B!With(d) : TRUE,
                    !.details = d, !.default = first]]
    BY DEF B!AddRead, B!Goto
<1> DEFINE first == wish \/ B!Live = {}
           s == [B!Idle EXCEPT !.at = IF first THEN "unset" ELSE "add", !.task = "add",
                    !.row = IF B!With(d) = {} THEN None ELSE CHOOSE r \in B!With(d) : TRUE,
                    !.details = d, !.default = first]
<1>2. (IF B!With(d) = {} THEN None ELSE CHOOSE r \in B!With(d) : TRUE) \in B!Accounts \cup {None}
    BY DEF B!With, B!Used
<1>3. first \in BOOLEAN
    OBVIOUS
<1>4. s \in TellerStates /\ s.at \in {"unset", "add"} /\ s.task = "add" /\ s.default \in BOOLEAN
    BY <1>2, <1>3 DEF B!Idle, TellerStates
<1>5. PICK w : w = s
    OBVIOUS
<1>6. TellerKnows(w)'
    BY <1>4, <1>5 DEF TellerKnows, Holding, AsksForDetails, KeepsDetails
<1>7. teller' = [teller EXCEPT ![t] = w] /\ w \in TellerStates
    BY <1>1, <1>4, <1>5
<1> QED BY <1>6, <1>7, BankRowsStay DEF B!AddRead, AccountsInv, B!TypeOK

LEMMA UpdateIsRead ==
    ASSUME AccountsInv, NEW t \in Workers, NEW r \in B!Accounts, B!UpdateRead(t, r)
    PROVE  AccountsInv'
<1>1. PICK d \in Details \cup {None}, default \in BOOLEAN \cup {None} :
          teller' = [teller EXCEPT ![t] =
             [B!Idle EXCEPT !.at = IF default = TRUE THEN "unset" ELSE "update",
                  !.task = "update", !.row = r, !.details = d, !.default = default,
                  !.changed = (d \notin {None, bank[r].details})]]
    BY DEF B!UpdateRead, B!Goto
<1> DEFINE place == IF default = TRUE THEN "unset" ELSE "update"
           changed == (d \notin {None, bank[r].details})
           s == [B!Idle EXCEPT !.at = place, !.task = "update", !.row = r, !.details = d,
                             !.default = default, !.changed = changed]
<1>2. place \in {"unset", "update"} /\ changed \in BOOLEAN
    OBVIOUS
<1>3. /\ s \in TellerStates /\ s.at \in {"unset", "update"} /\ s.task = "update" /\ s.row = r
      /\ s.details = d /\ s.changed = changed
    <2> HIDE DEF place, changed
    <2> QED BY <1>2 DEF B!Idle, TellerStates
<1>4. PICK w : w = s
    OBVIOUS
<1>5. ~w.changed => w.details \in {None, bank[r].details}
    BY <1>3, <1>4
<1>6. bank' = bank
    BY DEF B!UpdateRead
<1>7. w \in TellerStates /\ w.at \in {"unset", "update"} /\ w.task = "update" /\ w.row = r
    BY <1>3, <1>4
<1>8. TellerKnows(w)'
    BY <1>5, <1>6, <1>7 DEF TellerKnows, Holding, AsksForDetails, KeepsDetails
<1>9. teller' = [teller EXCEPT ![t] = w]
    BY <1>1, <1>4
<1> QED BY <1>7, <1>8, <1>9, BankRowsStay DEF B!UpdateRead, AccountsInv, B!TypeOK

LEMMA SetIsRead ==
    ASSUME AccountsInv, NEW t \in Workers, NEW r \in B!Accounts, B!SetRead(t, r)
    PROVE  AccountsInv'
<1>1. PICK w : w = [B!Idle EXCEPT !.at = "unset", !.task = "set", !.row = r]
    OBVIOUS
<1>2. w \in TellerStates /\ w.at = "unset" /\ w.task = "set" /\ w.row = r
    BY <1>1 DEF B!Idle, TellerStates
<1>3. TellerKnows(w)'
    BY <1>2 DEF TellerKnows, Holding, AsksForDetails, KeepsDetails
<1>4. teller' = [teller EXCEPT ![t] = w]
    BY <1>1 DEF B!SetRead, B!Goto
<1> QED BY <1>2, <1>3, <1>4, BankRowsStay DEF B!SetRead, AccountsInv, B!TypeOK

LEMMA DeleteIsRead ==
    ASSUME AccountsInv, NEW t \in Workers, NEW r \in B!Accounts, B!DeleteRead(t, r)
    PROVE  AccountsInv'
<1>1. ASSUME NEW q \in B!Accounts,
             B!Goto(t, [B!Idle EXCEPT !.at = "promote", !.task = "delete", !.row = r, !.next = q])
      PROVE  AccountsInv'
    <2>1. PICK w : w = [B!Idle EXCEPT !.at = "promote", !.task = "delete", !.row = r, !.next = q]
        OBVIOUS
    <2>2. w \in TellerStates /\ w.at = "promote" /\ w.row = r /\ w.next = q
        BY <2>1 DEF B!Idle, TellerStates
    <2>3. TellerKnows(w)'
        BY <2>2 DEF TellerKnows, Holding, AsksForDetails, KeepsDetails
    <2>4. teller' = [teller EXCEPT ![t] = w]
        BY <1>1, <2>1 DEF B!Goto
    <2> QED BY <2>2, <2>3, <2>4, BankRowsStay DEF B!DeleteRead, AccountsInv, B!TypeOK
<1>2. ASSUME B!Goto(t, [B!Idle EXCEPT !.at = "delete", !.task = "delete", !.row = r])
      PROVE  AccountsInv'
    <2>1. PICK w : w = [B!Idle EXCEPT !.at = "delete", !.task = "delete", !.row = r]
        OBVIOUS
    <2>2. w \in TellerStates /\ w.at = "delete" /\ w.row = r
        BY <2>1 DEF B!Idle, TellerStates
    <2>3. TellerKnows(w)'
        BY <2>2 DEF TellerKnows, Holding, AsksForDetails, KeepsDetails
    <2>4. teller' = [teller EXCEPT ![t] = w]
        BY <1>2, <2>1 DEF B!Goto
    <2> QED BY <2>2, <2>3, <2>4, BankRowsStay DEF B!DeleteRead, AccountsInv, B!TypeOK
<1> QED BY <1>1, <1>2 DEF B!DeleteRead, B!Live

\* The details of the row are read, or the destination in it.
LEMMA EnsureIsRead ==
    ASSUME AccountsInv, NEW t \in Workers, NEW r \in B!Accounts, B!EnsureRead(t, r)
    PROVE  AccountsInv'
<1> DEFINE place == IF bank[r].destination = None THEN "ask" ELSE "store"
           read == IF bank[r].destination = None THEN bank[r].details
                                                    ELSE bank[r].destination
<1>1. PICK w : w = [B!Idle EXCEPT !.task = "ensure", !.row = r, !.at = place, !.details = read]
    OBVIOUS
<1>2. read \in Details \cup {None} /\ place \in {"ask", "store"}
    BY DEF AccountsInv, B!TypeOK
<1>3. w \in TellerStates /\ w.at = place /\ w.row = r /\ w.details = read /\ w.task = "ensure"
    <2> HIDE DEF place, read
    <2> QED BY <1>1, <1>2 DEF B!Idle, TellerStates
<1>4. bank' = bank /\ crossed' = crossed /\ replayed' = replayed
    BY DEF B!EnsureRead
<1>5. place = "ask" => read = bank[r].details
    OBVIOUS
<1>6. r \in crossed \cup replayed \/ read \in {None, bank[r].details}
    BY DEF AccountsInv, B!DestinationFollowsDetails
<1>7. TellerKnows(w)'
    <2> HIDE DEF place, read
    <2> QED BY <1>2, <1>3, <1>4, <1>5, <1>6 DEF TellerKnows, Holding, AsksForDetails,
       KeepsDetails
<1>8. teller' = [teller EXCEPT ![t] = w]
    BY <1>1 DEF B!EnsureRead, B!Goto
<1> QED BY <1>3, <1>7, <1>8, BankRowsStay DEF B!EnsureRead, AccountsInv, B!TypeOK

\* The provider's answer is for the details that were sent, or the row is
\* known to have been answered with older ones.
LEMMA ProviderAsked ==
    ASSUME AccountsInv, NEW t \in Workers, B!Ask(t)
    PROVE  AccountsInv'
<1> DEFINE s == teller[t]
<1>1. s \in TellerStates /\ s.at = "ask" /\ TellerKnows(s) /\ s.row \in B!Accounts
    BY DEF AccountsInv, B!TypeOK, TellersKnow, TellerKnows, Holding, B!Ask, TellerStates
<1>2. s.row \in crossed \/ s.details = bank[s.row].details
    BY <1>1 DEF TellerKnows, AsksForDetails
<1>3. bank' = bank /\ crossed' = crossed
    BY DEF B!Ask
<1>4. CASE made' = [made EXCEPT ![s.row] = s.details] /\ B!Point(t, "store") /\ replayed' = replayed
    <2>1. PICK w : w = [s EXCEPT !.at = "store"]
        OBVIOUS
    <2>2. w \in TellerStates /\ w.at = "store" /\ w.row = s.row /\ w.details = s.details
        <3> HIDE DEF s
        <3> QED BY <1>1, <2>1 DEF TellerStates
    <2>3. TellerKnows(w)'
        BY <1>1, <1>2, <1>3, <1>4, <2>2 DEF TellerKnows, Holding, AsksForDetails,
           KeepsDetails
    <2>4. teller' = [teller EXCEPT ![t] = w]
        BY <1>4, <2>1 DEF B!Point, B!Goto
    <2>5. made' \in [B!Accounts -> Details \cup {None}] /\ replayed \subseteq replayed'
        BY <1>1, <1>4 DEF AccountsInv, B!TypeOK, TellerStates
    <2> QED BY <1>3, <1>4, <2>2, <2>3, <2>4, <2>5, BankRowsStay DEF AccountsInv, B!TypeOK
<1>5. CASE /\ B!Goto(t, [s EXCEPT !.at = "store", !.details = made[s.row]])
           /\ replayed' = replayed \cup {s.row} /\ made' = made
    <2> DEFINE older == made[s.row]
    <2>1. PICK w : w = [s EXCEPT !.at = "store", !.details = older]
        OBVIOUS
    <2>2. older \in Details \cup {None}
        BY <1>1 DEF AccountsInv, B!TypeOK
    <2>3. w \in TellerStates /\ w.at = "store" /\ w.row = s.row
        <3> HIDE DEF s, older
        <3> QED BY <1>1, <2>1, <2>2 DEF TellerStates
    <2>4. TellerKnows(w)'
        BY <1>1, <1>5, <2>3 DEF TellerKnows, Holding, AsksForDetails, KeepsDetails
    <2>5. teller' = [teller EXCEPT ![t] = w]
        BY <1>5, <2>1 DEF B!Goto
    <2>6. replayed \subseteq replayed' /\ replayed' \subseteq B!Accounts
        BY <1>1, <1>5 DEF AccountsInv, B!TypeOK
    <2> QED BY <1>3, <1>5, <2>3, <2>4, <2>5, <2>6, BankRowsStay DEF AccountsInv, B!TypeOK
<1> QED BY <1>4, <1>5 DEF B!Ask

LEMMA IdleTellerKnows == B!Idle \in TellerStates /\ TellerKnows(B!Idle) /\ TellerKnows(B!Idle)'
BY DEF B!Idle, TellerStates, TellerKnows, Holding, AsksForDetails, KeepsDetails

LEMMA TellerStopped ==
    ASSUME AccountsInv, NEW t \in Workers, B!TellerStops(t)
    PROVE  AccountsInv'
<1>1. teller' = [teller EXCEPT ![t] = B!Idle]
    BY DEF B!TellerStops, B!Goto
<1> QED BY <1>1, IdleTellerKnows, BankRowsStay DEF B!TellerStops, AccountsInv, B!TypeOK

----------------------------------------------------------------------------
(* The steps that write rows *)

LEMMA BankRowsWritten ==
    ASSUME AccountsInv, NEW t \in Workers, NEW s \in TellerStates, TellerKnows(s)',
           teller' = [teller EXCEPT ![t] = s],
           bank' \in [B!Accounts -> BankRows],
           crossed \subseteq crossed', crossed' \subseteq B!Accounts,
           UNCHANGED <<made, replayed>>,
           \A r \in B!Accounts :
              bank'[r].details = bank[r].details \/ r \in crossed' \/ B!Readers(t, r) = {},
           \A r \in B!Accounts \ (crossed' \cup replayed') :
              bank'[r].destination \in {None, bank'[r].details}
    PROVE  AccountsInv'
<1>1. B!TypeOK'
    BY DEF AccountsInv, B!TypeOK, TellerStates, BankRows
<1>2. TellersKnow'
    <2> SUFFICES ASSUME NEW e \in Workers, NEW w \in TellerStates, w = teller'[e] PROVE TellerKnows(w)'
        BY DEF TellersKnow
    <2>1. CASE e = t
        BY <2>1 DEF AccountsInv, B!TypeOK
    <2>2. CASE e # t
        <3>1. w = teller[e] /\ TellerKnows(w)
            BY <2>2 DEF AccountsInv, B!TypeOK, TellersKnow
        <3>2. w.at \in {"ask", "store", "unset", "update"} => e \in B!Readers(t, w.row)
            BY <2>2, <3>1 DEF B!Readers
        <3> QED BY <3>1, <3>2, TellerStillKnows
    <2> QED BY <2>1, <2>2
<1>3. B!DestinationFollowsDetails'
    BY DEF B!DestinationFollowsDetails
<1> QED BY <1>1, <1>2, <1>3 DEF AccountsInv

\* A step that changes which rows are the default, or deleted, and no more.
LEMMA DefaultsWritten ==
    ASSUME AccountsInv, NEW t \in Workers, NEW s \in TellerStates, TellerKnows(s)',
           teller' = [teller EXCEPT ![t] = s],
           bank' \in [B!Accounts -> BankRows],
           \A r \in B!Accounts : /\ bank'[r].details = bank[r].details
                                 /\ bank'[r].destination = bank[r].destination,
           UNCHANGED <<made, crossed, replayed>>
    PROVE  AccountsInv'
<1>1. crossed' \subseteq B!Accounts
    BY DEF AccountsInv, B!TypeOK
<1>2. \A r \in B!Accounts \ (crossed' \cup replayed') :
          bank'[r].destination \in {None, bank'[r].details}
    BY DEF AccountsInv, B!DestinationFollowsDetails
<1> QED BY <1>1, <1>2, BankRowsWritten

\* A row keeps its type when its default is written, or its deletion.
LEMMA WithDefault ==
    ASSUME NEW row \in BankRows, NEW b \in BOOLEAN
    PROVE  /\ [row EXCEPT !.default = b] \in BankRows
           /\ [row EXCEPT !.default = b].details = row.details
           /\ [row EXCEPT !.default = b].destination = row.destination
BY DEF BankRows

LEMMA WithDeletion ==
    ASSUME NEW row \in BankRows
    PROVE  LET deleted == [row EXCEPT !.state = "deleted", !.default = FALSE]
           IN  /\ deleted \in BankRows
               /\ deleted.details = row.details
               /\ deleted.destination = row.destination
BY DEF BankRows

\* One row is written so.
LEMMA OneBankRowWritten ==
    ASSUME AccountsInv, NEW r \in B!Accounts, NEW row \in BankRows,
           row.details = bank[r].details, row.destination = bank[r].destination,
           bank' = [bank EXCEPT ![r] = row]
    PROVE  /\ bank' \in [B!Accounts -> BankRows]
           /\ \A q \in B!Accounts : /\ bank'[q].details = bank[q].details
                                    /\ bank'[q].destination = bank[q].destination
BY DEF AccountsInv, B!TypeOK, BankRows

LEMMA DefaultsUnset ==
    ASSUME AccountsInv, NEW t \in Workers, B!Unset(t)
    PROVE  AccountsInv'
<1> DEFINE s == teller[t]
<1>1. s \in TellerStates /\ s.at = "unset" /\ TellerKnows(s)
    BY DEF AccountsInv, B!TypeOK, TellersKnow, B!Unset, TellerStates
<1>2. /\ bank' \in [B!Accounts -> BankRows]
      /\ \A r \in B!Accounts : /\ bank'[r].details = bank[r].details
                               /\ bank'[r].destination = bank[r].destination
    <2>1. bank \in [B!Accounts -> BankRows]
        BY DEF AccountsInv, B!TypeOK, BankRows
    <2>2. \A r \in B!Accounts : bank'[r] \in {bank[r], [bank[r] EXCEPT !.default = FALSE]}
        BY DEF B!Unset
    <2>3. \A r \in B!Accounts : /\ bank'[r] \in BankRows
                                /\ bank'[r].details = bank[r].details
                                /\ bank'[r].destination = bank[r].destination
        BY <2>1, <2>2, WithDefault
    <2>4. bank' = [r \in B!Accounts |-> bank'[r]]
        BY DEF B!Unset
    <2> QED BY <2>3, <2>4
<1>3. s.task \in {"add", "update", "set"}
    BY <1>1 DEF TellerKnows, Holding
<1>4. PICK w : w = [s EXCEPT !.at = s.task]
    OBVIOUS
<1>5. /\ w \in TellerStates /\ w.at = s.task /\ w.row = s.row /\ w.details = s.details
      /\ w.changed = s.changed /\ w.default = s.default
    <2> HIDE DEF s
    <2> QED BY <1>1, <1>3, <1>4 DEF TellerStates
<1>6. crossed' = crossed
    BY DEF B!Unset
<1>7. s.task = "update" /\ ~s.changed =>
         s.row \in crossed' \/ s.details \in {None, bank'[s.row].details}
    BY <1>1, <1>2, <1>6 DEF TellerKnows, Holding, KeepsDetails
<1>8. TellerKnows(w)'
    <2>1. Holding(w)'
        BY <1>1, <1>3, <1>5 DEF TellerKnows, Holding
    <2>2. AsksForDetails(w)'
        BY <1>3, <1>5 DEF AsksForDetails
    <2>3. KeepsDetails(w)'
        BY <1>3, <1>5, <1>7 DEF KeepsDetails
    <2> QED BY <2>1, <2>2, <2>3 DEF TellerKnows
<1>9. teller' = [teller EXCEPT ![t] = w]
    BY <1>4 DEF B!Unset, B!Point, B!Goto
<1>0. UNCHANGED <<made, crossed, replayed>>
    BY DEF B!Unset
<1> QED BY <1>0, <1>2, <1>5, <1>8, <1>9, DefaultsWritten

LEMMA DefaultSet ==
    ASSUME AccountsInv, NEW t \in Workers, B!SetWrite(t)
    PROVE  AccountsInv'
<1>1. teller' = [teller EXCEPT ![t] = B!Idle]
    BY DEF B!SetWrite, B!Goto
<1>2. /\ bank' \in [B!Accounts -> BankRows]
      /\ \A r \in B!Accounts : /\ bank'[r].details = bank[r].details
                               /\ bank'[r].destination = bank[r].destination
    <2> DEFINE r == teller[t].row
    <2>1. r \in B!Accounts /\ bank[r] \in BankRows
        BY DEF AccountsInv, B!TypeOK, TellersKnow, TellerKnows, Holding, B!SetWrite,
           TellerStates, BankRows
    <2>2. PICK row : row = [bank[r] EXCEPT !.default = TRUE]
        OBVIOUS
    <2>3. /\ row \in BankRows /\ row.details = bank[r].details
          /\ row.destination = bank[r].destination
        BY <2>1, <2>2, WithDefault
    <2>4. bank' = [bank EXCEPT ![r] = row]
        BY <2>2 DEF B!SetWrite
    <2> QED BY <2>1, <2>3, <2>4, OneBankRowWritten
<1>0. UNCHANGED <<made, crossed, replayed>>
    BY DEF B!SetWrite
<1> QED BY <1>0, <1>1, <1>2, IdleTellerKnows, DefaultsWritten

LEMMA NextPromoted ==
    ASSUME AccountsInv, NEW t \in Workers, B!PromoteNext(t)
    PROVE  AccountsInv'
<1> DEFINE s == teller[t]
<1>1. s \in TellerStates /\ s.at = "promote" /\ s.row \in B!Accounts
    BY DEF AccountsInv, B!TypeOK, TellersKnow, TellerKnows, Holding, B!PromoteNext,
       TellerStates
<1>2. PICK w : w = [s EXCEPT !.at = "delete"]
    OBVIOUS
<1>3. w \in TellerStates /\ w.at = "delete" /\ w.row \in B!Accounts
    <2> HIDE DEF s
    <2> QED BY <1>1, <1>2 DEF TellerStates
<1>4. TellerKnows(w)'
    BY <1>3 DEF TellerKnows, Holding, AsksForDetails, KeepsDetails
<1>5. teller' = [teller EXCEPT ![t] = w]
    BY <1>2 DEF B!PromoteNext, B!Point, B!Goto
<1>6. /\ bank' \in [B!Accounts -> BankRows]
      /\ \A r \in B!Accounts : /\ bank'[r].details = bank[r].details
                               /\ bank'[r].destination = bank[r].destination
    <2> DEFINE r == teller[t].next
    <2>1. r \in B!Accounts /\ bank[r] \in BankRows
        BY DEF AccountsInv, B!TypeOK, TellersKnow, TellerKnows, Holding, B!PromoteNext,
           TellerStates, BankRows
    <2>2. PICK row : row = [bank[r] EXCEPT !.default = TRUE]
        OBVIOUS
    <2>3. /\ row \in BankRows /\ row.details = bank[r].details
          /\ row.destination = bank[r].destination
        BY <2>1, <2>2, WithDefault
    <2>4. bank' = [bank EXCEPT ![r] = row]
        BY <2>2 DEF B!PromoteNext
    <2> QED BY <2>1, <2>3, <2>4, OneBankRowWritten
<1>0. UNCHANGED <<made, crossed, replayed>>
    BY DEF B!PromoteNext
<1> QED BY <1>0, <1>3, <1>4, <1>5, <1>6, DefaultsWritten

LEMMA AccountDeleted ==
    ASSUME AccountsInv, NEW t \in Workers, B!DeleteWrite(t)
    PROVE  AccountsInv'
<1>1. teller' = [teller EXCEPT ![t] = B!Idle]
    BY DEF B!DeleteWrite, B!Goto
<1>2. /\ bank' \in [B!Accounts -> BankRows]
      /\ \A r \in B!Accounts : /\ bank'[r].details = bank[r].details
                               /\ bank'[r].destination = bank[r].destination
    <2> DEFINE r == teller[t].row
    <2>1. r \in B!Accounts /\ bank[r] \in BankRows
        BY DEF AccountsInv, B!TypeOK, TellersKnow, TellerKnows, Holding, B!DeleteWrite,
           TellerStates, BankRows
    <2>2. PICK row : row = B!Deleted(r)
        OBVIOUS
    <2>3. /\ row \in BankRows /\ row.details = bank[r].details
          /\ row.destination = bank[r].destination
        BY <2>1, <2>2, WithDeletion DEF B!Deleted
    <2>4. bank' = [bank EXCEPT ![r] = row]
        BY <2>2 DEF B!DeleteWrite
    <2> QED BY <2>1, <2>3, <2>4, OneBankRowWritten
<1>0. UNCHANGED <<made, crossed, replayed>>
    BY DEF B!DeleteWrite
<1> QED BY <1>0, <1>1, <1>2, IdleTellerKnows, DefaultsWritten

\* A row that is made or comes back has no destination.
LEMMA AccountAdded ==
    ASSUME AccountsInv, NEW t \in Workers, B!AddWrite(t)
    PROVE  AccountsInv'
<1> DEFINE s == teller[t]
<1>1. s \in TellerStates /\ s.at = "add" /\ s.default \in BOOLEAN
    BY DEF AccountsInv, B!TypeOK, TellersKnow, TellerKnows, Holding, B!AddWrite,
       TellerStates
<1>2. PICK r \in B!Accounts, row \in BankRows :
         /\ bank' = [bank EXCEPT ![r] = row]
         /\ row.destination = None
         /\ s.row = r \/ r \notin B!Used
    <2>1. CASE s.row # None /\ bank' = [bank EXCEPT ![s.row] = B!Revived(t)]
        <3>1. s.row \in B!Accounts
            BY <1>1, <2>1 DEF TellerStates
        <3>2. B!Revived(t) \in BankRows /\ B!Revived(t).destination = None
            <4>1. bank[s.row] \in BankRows /\ s.details \in Details \cup {None}
                BY <1>1, <3>1 DEF AccountsInv, B!TypeOK, BankRows, TellerStates
            <4>2. B!Revived(t) = [bank[s.row] EXCEPT !.state = "live", !.default = s.default,
                                    !.details = s.details, !.destination = None]
                BY DEF B!Revived
            <4> HIDE DEF s
            <4> QED BY <1>1, <4>1, <4>2 DEF BankRows
        <3> QED BY <2>1, <3>1, <3>2
    <2>2. ASSUME NEW r \in B!Accounts \ B!Used,
                 bank' = [bank EXCEPT ![r] =
                     [state |-> "live", details |-> s.details, default |-> s.default,
                      destination |-> None]]
          PROVE  \E q \in B!Accounts, row \in BankRows :
                    /\ bank' = [bank EXCEPT ![q] = row]
                    /\ row.destination = None
                    /\ s.row = q \/ q \notin B!Used
        <3> DEFINE row == [state |-> "live", details |-> s.details, default |-> s.default,
                           destination |-> None]
        <3>1. row \in BankRows /\ row.destination = None
            BY <1>1 DEF BankRows, TellerStates
        <3> HIDE DEF row
        <3>2. bank' = [bank EXCEPT ![r] = row]
            BY <2>2 DEF row
        <3> QED BY <3>1, <3>2
    <2> QED BY <2>1, <2>2 DEF B!AddWrite
<1>3. crossed' = crossed \cup {q \in B!Accounts : bank'[q] # bank[q] /\ B!Readers(t, q) # {}}
    BY DEF B!AddWrite
<1>4. /\ crossed \subseteq crossed' /\ crossed' \subseteq B!Accounts
      /\ \A q \in B!Accounts :
            bank'[q].details = bank[q].details \/ q \in crossed' \/ B!Readers(t, q) = {}
    BY <1>3 DEF AccountsInv, B!TypeOK
<1>5. bank' \in [B!Accounts -> BankRows]
    BY <1>2 DEF AccountsInv, B!TypeOK, BankRows
<1>6. UNCHANGED <<made, replayed>> /\ teller' = [teller EXCEPT ![t] = B!Idle]
    BY DEF B!AddWrite, B!Goto
<1>7. \A q \in B!Accounts \ (crossed' \cup replayed') :
          bank'[q].destination \in {None, bank'[q].details}
    BY <1>2, <1>4, <1>6 DEF AccountsInv, B!TypeOK, B!DestinationFollowsDetails
<1> QED BY <1>4, <1>5, <1>6, <1>7, IdleTellerKnows, BankRowsWritten

\* An update that keeps the destination keeps the details, unless it was
\* crossed.
LEMMA AccountUpdated ==
    ASSUME AccountsInv, NEW t \in Workers, B!UpdateWrite(t)
    PROVE  AccountsInv'
<1> DEFINE s == teller[t]
           r == s.row
<1>1. s \in TellerStates /\ s.at = "update" /\ TellerKnows(s) /\ r \in B!Accounts
    BY DEF AccountsInv, B!TypeOK, TellersKnow, TellerKnows, Holding, B!UpdateWrite,
       TellerStates
<1>2. bank' = [bank EXCEPT ![r] = B!Updated(t)]
    BY DEF B!UpdateWrite
<1>3. /\ B!Updated(t) \in BankRows
      /\ B!Updated(t).details = IF s.details = None THEN bank[r].details ELSE s.details
      /\ B!Updated(t).destination = IF s.changed THEN None ELSE bank[r].destination
    <2>1. bank[r] \in BankRows
        BY <1>1 DEF AccountsInv, B!TypeOK, BankRows
    <2> QED BY <1>1, <2>1 DEF B!Updated, BankRows, TellerStates
<1>4. bank' \in [B!Accounts -> BankRows]
    BY <1>1, <1>2, <1>3 DEF AccountsInv, B!TypeOK, BankRows
<1>5. crossed' = IF s.details # None /\ B!Readers(t, r) # {} THEN crossed \cup {r} ELSE crossed
    BY DEF B!UpdateWrite
<1>6. crossed \subseteq crossed' /\ crossed' \subseteq B!Accounts
    BY <1>1, <1>5 DEF AccountsInv, B!TypeOK
<1>7. \A q \in B!Accounts :
         bank'[q].details = bank[q].details \/ q \in crossed' \/ B!Readers(t, q) = {}
    <2> SUFFICES ASSUME NEW q \in B!Accounts
                 PROVE  bank'[q].details = bank[q].details \/ q \in crossed'
                          \/ B!Readers(t, q) = {}
        OBVIOUS
    <2>1. CASE q = r
        <3>1. bank'[r] = B!Updated(t)
            BY <1>1, <1>2 DEF AccountsInv, B!TypeOK
        <3>2. CASE s.details = None
            BY <1>3, <2>1, <3>1, <3>2
        <3>3. CASE s.details # None
            BY <1>5, <2>1, <3>3
        <3> QED BY <3>2, <3>3
    <2>2. CASE q # r
        BY <1>2, <2>2 DEF AccountsInv, B!TypeOK
    <2> QED BY <2>1, <2>2
<1>8. UNCHANGED <<made, replayed>> /\ teller' = [teller EXCEPT ![t] = B!Idle]
    BY DEF B!UpdateWrite, B!Goto
<1>9. ASSUME NEW q \in B!Accounts \ (crossed' \cup replayed')
      PROVE  bank'[q].destination \in {None, bank'[q].details}
    <2>1. q \notin crossed \cup replayed /\ bank[q].destination \in {None, bank[q].details}
        BY <1>6, <1>8 DEF AccountsInv, B!DestinationFollowsDetails
    <2>2. CASE q = r
        <3>1. bank'[r] = B!Updated(t)
            BY <1>1, <1>2 DEF AccountsInv, B!TypeOK
        <3>2. ~s.changed => s.details \in {None, bank[r].details}
            BY <1>1, <2>1, <2>2 DEF TellerKnows, KeepsDetails
        <3>3. CASE s.changed
            BY <1>3, <2>2, <3>1, <3>3
        <3>4. CASE ~s.changed
            BY <1>3, <2>1, <2>2, <3>1, <3>2, <3>4
        <3> QED BY <3>3, <3>4
    <2>3. CASE q # r
        BY <1>2, <2>1, <2>3 DEF AccountsInv, B!TypeOK
    <2> QED BY <2>2, <2>3
<1> QED BY <1>4, <1>6, <1>7, <1>8, <1>9, IdleTellerKnows, BankRowsWritten

\* What is stored was made for the details the row has, or the row is exempt.
LEMMA DestinationStored ==
    ASSUME AccountsInv, NEW t \in Workers, B!Store(t)
    PROVE  AccountsInv'
<1> DEFINE s == teller[t]
           r == s.row
<1>1. s \in TellerStates /\ s.at = "store" /\ TellerKnows(s) /\ r \in B!Accounts
    BY DEF AccountsInv, B!TypeOK, TellersKnow, TellerKnows, Holding, B!Store, TellerStates
<1>2. bank' = [bank EXCEPT ![r].destination = s.details]
    BY DEF B!Store
<1>3. s.details \in Details \cup {None}
    BY <1>1 DEF TellerStates
<1>4. /\ bank' \in [B!Accounts -> BankRows]
      /\ \A q \in B!Accounts : bank'[q].details = bank[q].details
      /\ \A q \in B!Accounts \ {r} : bank'[q].destination = bank[q].destination
      /\ bank'[r].destination = s.details
    <2> HIDE DEF s
    <2> QED BY <1>1, <1>2, <1>3 DEF AccountsInv, B!TypeOK, BankRows
<1>5. UNCHANGED <<made, crossed, replayed>> /\ teller' = [teller EXCEPT ![t] = B!Idle]
    BY DEF B!Store, B!Goto
<1>6. r \in crossed \cup replayed \/ s.details \in {None, bank[r].details}
    BY <1>1 DEF TellerKnows, AsksForDetails
<1>7. \A q \in B!Accounts \ (crossed' \cup replayed') :
          bank'[q].destination \in {None, bank'[q].details}
    BY <1>1, <1>4, <1>5, <1>6 DEF AccountsInv, B!DestinationFollowsDetails
<1>8. crossed \subseteq crossed' /\ crossed' \subseteq B!Accounts
    BY <1>5 DEF AccountsInv, B!TypeOK
<1> QED BY <1>4, <1>5, <1>7, <1>8, IdleTellerKnows, BankRowsWritten

----------------------------------------------------------------------------
LEMMA AccountsStart == B!Init => AccountsInv
<1> SUFFICES ASSUME B!Init PROVE AccountsInv
    OBVIOUS
<1>1. B!TypeOK
    BY DEF B!Init, B!TypeOK, B!NoAccount, B!Idle
<1>2. TellersKnow
    BY IdleTellerKnows DEF B!Init, TellersKnow
<1>3. B!DestinationFollowsDetails
    BY DEF B!Init, B!DestinationFollowsDetails, B!NoAccount
<1> QED BY <1>1, <1>2, <1>3 DEF AccountsInv

LEMMA AccountsInductive == AccountsInv /\ [B!Next]_(B!vars) => AccountsInv'
<1> SUFFICES ASSUME AccountsInv, [B!Next]_(B!vars) PROVE AccountsInv'
    OBVIOUS
<1>1. ASSUME NEW t \in Workers, B!TellerStep(t) PROVE AccountsInv'
    BY <1>1, AddIsRead, UpdateIsRead, SetIsRead, DeleteIsRead, EnsureIsRead, DefaultsUnset,
       AccountAdded, AccountUpdated,
       DefaultSet, NextPromoted, AccountDeleted, ProviderAsked, DestinationStored,
       TellerStopped DEF B!TellerStep
<1>2. CASE UNCHANGED B!vars
    <2>1. B!TypeOK' /\ B!DestinationFollowsDetails'
        BY <1>2 DEF AccountsInv, B!TypeOK, B!DestinationFollowsDetails, B!vars
    <2>2. TellersKnow'
        BY <1>2, TellerStillKnows DEF AccountsInv, TellersKnow, B!vars
    <2> QED BY <2>1, <2>2 DEF AccountsInv
<1> QED BY <1>1, <1>2 DEF B!Next

\* Every variable keeps its type: what createBankAccount, updateBankAccount,
\* deleteBankAccount and ensurePayoutDestination hold is what they need.
THEOREM AccountsTypeCorrect == B!Spec => []B!TypeOK
<1>1. AccountsInv => B!TypeOK
    BY DEF AccountsInv
<1> QED BY <1>1, AccountsStart, AccountsInductive, PTL DEF B!Spec

\* Whatever changes, deletions and returns of a bank account overlap requests
\* for its destination, the destination ensurePayoutDestination has stored pays
\* to the account the row names, unless the row was changed under a handler that
\* had read it or the provider answered with an older destination.
THEOREM DestinationKept == B!Spec => []B!DestinationFollowsDetails
<1>1. AccountsInv => B!DestinationFollowsDetails
    BY DEF AccountsInv
<1> QED BY <1>1, AccountsStart, AccountsInductive, PTL DEF B!Spec

LEMMA BankSide == PaymentsSpec => B!Spec
<1>1. PaymentsInit => B!Init
    BY DEF PaymentsInit
<1>2. [PaymentsNext]_allvars => [B!Next]_(B!vars)
    BY DEF PaymentsNext, allvars, claimVars, checkoutVars, accountVars, B!vars
<1> QED BY <1>1, <1>2, PTL DEF PaymentsSpec, B!Spec

\* A stored destination pays to the account its row names, in the modules about
\* money side by side (ensurePayoutDestination).
THEOREM DestinationsFollowDetails == PaymentsSpec => []DestinationFollowsDetails
BY BankSide, DestinationKept, PTL DEF DestinationFollowsDetails

----------------------------------------------------------------------------
(* The refinement of DueCollection, as the composition states it *)

\* The theorems of Checkouts about the checkouts of Payments; their assumption
\* is CheckoutsAssumption.
CP == INSTANCE CheckoutsProofs WITH
        balance <- funds, pc <- point, crashes <- stops, MaxCrashes <- MaxStops

\* C and CP are one module under two names.
LEMMA CheckoutsTwice == (C!Init <=> CP!Init) /\ (C!Next <=> CP!Next) /\ C!vars = CP!vars
BY DEF C!attempts, CP!attempts, C!books, CP!books, C!provider, CP!provider,
   C!handlers, CP!handlers, C!vars, CP!vars, C!Accounts, CP!Accounts, C!NoTask,
   CP!NoTask, C!Init, CP!Init, C!CommitPoints, CP!CommitPoints, C!MayRun, CP!MayRun,
   C!Closed, CP!Closed, C!IndexAllows, CP!IndexAllows, C!Unused, CP!Unused,
   C!Continue, CP!Continue, C!InitiateCommit, CP!InitiateCommit, C!Finish,
   CP!Finish, C!InitiateConflict, CP!InitiateConflict, C!OpenSession,
   CP!OpenSession, C!StoreCheckout, CP!StoreCheckout, C!Share, CP!Share, C!Credited,
   CP!Credited, C!SettleDue, CP!SettleDue, C!CompleteCommit, CP!CompleteCommit,
   C!CompleteConflict, CP!CompleteConflict, C!IssueReceipt, CP!IssueReceipt,
   C!PollCommit, CP!PollCommit, C!Calm, CP!Calm, C!FailedWebhook, CP!FailedWebhook,
   C!ExpiredWebhook, CP!ExpiredWebhook, C!Pay, CP!Pay, C!AttemptFails,
   CP!AttemptFails, C!Lapse, CP!Lapse, C!Age, CP!Age, C!Environment, CP!Environment,
   C!CancelCommit, CP!CancelCommit, C!Proceed, CP!Proceed, C!Active, CP!Active,
   C!Initiate, CP!Initiate, C!CompleteRead, CP!CompleteRead, C!SucceededWebhook,
   CP!SucceededWebhook, C!Poll, CP!Poll, C!CancelRead, CP!CancelRead, C!Start,
   CP!Start, C!Crash, CP!Crash, C!Next, CP!Next

\* So are the promises they are held to.
LEMMA CollectionTwice == CP!ImplementsCollection => C!ImplementsCollection
<1>1. CP!Collection!Init => C!Collection!Init
    BY DEF CP!Collection!Init, C!Collection!Init
<1>2. [\E d \in Dues : CP!Collection!Collect(d)]_(CP!Collection!books)
        => [\E d \in Dues : C!Collection!Collect(d)]_(C!Collection!books)
    BY DEF CP!Collection!Collect, C!Collection!Collect, CP!Collection!books,
       C!Collection!books
<1> QED BY <1>1, <1>2, PTL DEF CP!ImplementsCollection, C!ImplementsCollection,
           CP!Collection!Spec, C!Collection!Spec

\* The steps of the other parts leave the checkouts alone.
LEMMA CheckoutsSide == PaymentsSpec => CP!Spec
<1>1. PaymentsInit => CP!Init
    BY CheckoutsTwice DEF PaymentsInit
<1>2. [PaymentsNext]_allvars => [CP!Next]_(CP!vars)
    <2>1. [PaymentsNext]_allvars => [C!Next]_(C!vars)
        BY DEF PaymentsNext, allvars, checkoutVars, C!vars, C!attempts, C!books,
           C!provider, C!handlers
    <2>2. UNCHANGED C!vars => UNCHANGED CP!vars
        BY DEF C!vars, C!attempts, C!books, C!provider, C!handlers, CP!vars,
           CP!attempts, CP!books, CP!provider, CP!handlers
    <2> QED BY <2>1, <2>2, CheckoutsTwice
<1> QED BY <1>1, <1>2, PTL DEF PaymentsSpec, CP!Spec

\* Every due is collected at most once, and the balances show exactly what has
\* been collected (completePayment, the webhooks and the status poll), when no
\* two handlers are between a read and its commit.
THEOREM CheckoutsCollect ==
    ASSUME Isolated
    PROVE  PaymentsSpec => ImplementsCollection
<1>1. CP!Spec => CP!ImplementsCollection
    BY CheckoutsAssumption, CP!Implementation
<1> QED BY <1>1, CheckoutsSide, CollectionTwice DEF ImplementsCollection
============================================================================
