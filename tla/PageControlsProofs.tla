------------------------ MODULE PageControlsProofs ------------------------
(***************************************************************************)
(* Proofs about PageControls, for any number of saves and requests.        *)
(*                                                                         *)
(* A request is refused on the row the server loads, and was sent on the   *)
(* row the page showed.  Saves are only ever appended to rows, so what was *)
(* Offered stays so: if the server then refuses, its row is another, and   *)
(* a later one.  What is left to show is that nothing else is ever sent:   *)
(* what is in a dialog was offered when it was opened, and what is shown   *)
(* or told is a row that was there.                                        *)
(***************************************************************************)
EXTENDS PageControls, TLAPS

\* What save n wrote can be shown, and an operation on it is not refused.
Shows(n) == n \in 1 .. row /\ rows[n] # Removed
Offered(op, by, n) == n \in 1 .. row /\ ~Refuses(op, by, rows[n])

DialogOp == [confirm |-> "remove", edit |-> "update"]

RequestOK(q) ==
  /\ q.op = "load" => q.seen = 0
  /\ q.pc = "sent" /\ q.op # "load" => Offered(q.op, q.by, q.seen)
  /\ q.pc = "loaded" => q.op # "load" /\ Shows(q.row)
  /\ q.pc = "answered" => q.row \in 1 .. row /\ (q.op # "remove" => Shows(q.row))
  /\ q.pc = "refused" => q.seen < q.row

PageOK ==
  /\ \A n \in told : Shows(n)
  /\ page.shown # 0 => Shows(page.shown)
  /\ page.dialog.kind # "none" =>
       Offered(DialogOp[page.dialog.kind], page.session, page.dialog.seen)

ControlsInv ==
  /\ TypeOK
  /\ \A i \in DOMAIN requests : RequestOK(requests[i])
  /\ PageOK

-----------------------------------------------------------------------------
(* What a step that leaves the rows alone, or appends to them, keeps.      *)

Extended ==
  /\ rows' \in Seq(Content) /\ row' >= row
  /\ \A n \in 1 .. row : rows'[n] = rows[n]

LEMMA Stays == TypeOK /\ UNCHANGED rows => Extended
BY DEF TypeOK, Extended, row

LEMMA Appends ==
  ASSUME TypeOK, NEW c \in Content, rows' = Append(rows, c)
  PROVE  Extended /\ row' = row + 1 /\ row + 1 \in 1 .. row' /\ rows'[row + 1] = c
BY DEF TypeOK, Extended, row

LEMMA Kept ==
  ASSUME TypeOK, Extended
  PROVE  /\ row \in Nat \ {0} /\ row' \in Nat \ {0}
         /\ \A n \in Nat : Shows(n) => Shows(n)'
         /\ \A n \in Nat : \A op, by : Offered(op, by, n) => Offered(op, by, n)'
         /\ \A q \in Request : RequestOK(q) => RequestOK(q)'
<1>1. row \in Nat \ {0} /\ row' \in Nat \ {0}
  BY DEF TypeOK, Extended, row
<1>2. ASSUME NEW n \in Nat, Shows(n) PROVE Shows(n)'
  BY <1>1, <1>2 DEF Extended, Shows
<1>3. ASSUME NEW n \in Nat, NEW op, NEW by, Offered(op, by, n) PROVE Offered(op, by, n)'
  BY <1>1, <1>3 DEF Extended, Offered, Refuses
<1>4. ASSUME NEW q \in Request, RequestOK(q) PROVE RequestOK(q)'
  <2>1. q.seen \in Nat /\ q.row \in Nat
    BY DEF Request
  <2>2. q.row \in 1 .. row => q.row \in 1 .. row'
    BY <2>1, <1>1 DEF Extended
  <2> QED BY <1>4, <1>2, <1>3, <2>1, <2>2 DEF RequestOK
<1> QED BY <1>1, <1>2, <1>3, <1>4

LEMMA Requested ==
  ASSUME TypeOK
  PROVE  \A i \in DOMAIN requests :
           requests[i] \in Request /\ requests[i].seen \in Nat /\ requests[i].row \in Nat
<1>1. \A i \in DOMAIN requests : requests[i] \in Request
  BY DEF TypeOK
<1> QED BY <1>1 DEF Request

RequestsOK ==
  /\ requests \in Seq(Request)
  /\ \A i \in DOMAIN requests : requests[i].row <= row /\ RequestOK(requests[i])

\* The requests that were there, when nothing is done to them ...
LEMMA SameRequests ==
  ASSUME ControlsInv, Extended, UNCHANGED requests
  PROVE  RequestsOK'
<1>1. \A i \in DOMAIN requests : requests[i] \in Request /\ requests[i].row \in Nat
  BY Requested DEF ControlsInv
<1>2. row \in Nat /\ row' \in Nat
  BY Kept DEF ControlsInv
<1>3. \A i \in DOMAIN requests : RequestOK(requests[i])'
  BY <1>1, Kept DEF ControlsInv
<1> QED BY <1>1, <1>2, <1>3 DEF ControlsInv, TypeOK, Extended, RequestsOK

\* ... when one more is sent ...
LEMMA OneMore ==
  ASSUME ControlsInv, Extended,
         NEW q \in Request, requests' = Append(requests, q), RequestOK(q)', q.row <= row'
  PROVE  RequestsOK'
<1>1. \A i \in DOMAIN requests : requests[i] \in Request /\ requests[i].row \in Nat
  BY Requested DEF ControlsInv
<1>2. row \in Nat /\ row' \in Nat
  BY Kept DEF ControlsInv
<1>3. \A i \in DOMAIN requests : RequestOK(requests[i])'
  BY <1>1, Kept DEF ControlsInv
<1>4. ASSUME NEW i \in DOMAIN requests' PROVE requests'[i].row <= row' /\ RequestOK(requests[i])'
  <2>1. CASE i \in DOMAIN requests
    <3>1. requests'[i] = requests[i]
      BY <2>1 DEF ControlsInv, TypeOK
    <3> QED BY <3>1, <2>1, <1>1, <1>2, <1>3 DEF ControlsInv, TypeOK, Extended
  <2>2. CASE i \notin DOMAIN requests
    <3>1. requests'[i] = q
      BY <2>2 DEF ControlsInv, TypeOK
    <3> QED BY <3>1
  <2> QED BY <2>1, <2>2
<1> QED BY <1>4 DEF ControlsInv, TypeOK, RequestsOK

\* ... and when one of them gets on.
LEMMA OneMoves ==
  ASSUME ControlsInv, Extended, NEW i \in DOMAIN requests,
         NEW q \in Request, requests' = [requests EXCEPT ![i] = q], RequestOK(q)', q.row <= row'
  PROVE  RequestsOK'
<1>1. \A j \in DOMAIN requests : requests[j] \in Request /\ requests[j].row \in Nat
  BY Requested DEF ControlsInv
<1>2. row \in Nat /\ row' \in Nat
  BY Kept DEF ControlsInv
<1>3. \A j \in DOMAIN requests : RequestOK(requests[j])'
  BY <1>1, Kept DEF ControlsInv
<1>4. requests' \in Seq(Request) /\ DOMAIN requests' = DOMAIN requests
  BY DEF ControlsInv, TypeOK
<1>5. ASSUME NEW j \in DOMAIN requests' PROVE requests'[j].row <= row' /\ RequestOK(requests[j])'
  <2>1. CASE j # i
    <3>1. requests'[j] = requests[j]
      BY <2>1, <1>4 DEF ControlsInv, TypeOK
    <3> QED BY <3>1, <1>1, <1>2, <1>3, <1>4 DEF ControlsInv, TypeOK, Extended
  <2>2. CASE j = i
    <3>1. requests'[j] = q
      BY <2>2 DEF ControlsInv, TypeOK
    <3> QED BY <3>1
  <2> QED BY <2>1, <2>2
<1> QED BY <1>4, <1>5 DEF RequestsOK

\* What TypeOK says of everything but the rows and the requests
Dialog == [kind : {"none", "confirm", "edit"}, seen : Nat]
Page == [open : BOOLEAN, session : Roles, shown : Nat, dialog : Dialog]

PageTypeOK ==
  /\ told \subseteq 1 .. row
  /\ page \in Page /\ page.shown \in 0 .. row /\ page.dialog.seen \in 0 .. row
  /\ ~page.open => page = NoPage /\ requests = <<>> /\ told = {}
  /\ saves \in 0 .. MaxSaves /\ asks \in 0 .. MaxAsks

LEMMA Parts ==
  ControlsInv <=> rows \in Seq(Content) /\ rows # <<>> /\ RequestsOK /\ PageTypeOK /\ PageOK
<1>1. row \in Nat => (page \in [open : BOOLEAN, session : Roles, shown : 0 .. row,
                               dialog : [kind : {"none", "confirm", "edit"}, seen : 0 .. row]]
                  <=> page \in Page /\ page.shown \in 0 .. row /\ page.dialog.seen \in 0 .. row)
  BY DEF Page, Dialog
<1>2. rows \in Seq(Content) => row \in Nat
  BY DEF row
<1> QED BY <1>1, <1>2 DEF ControlsInv, TypeOK, RequestsOK, PageTypeOK

LEMMA Assembled == Extended /\ ControlsInv /\ RequestsOK' /\ PageTypeOK' /\ PageOK' => ControlsInv'
<1> SUFFICES ASSUME Extended, ControlsInv, RequestsOK', PageTypeOK', PageOK' PROVE ControlsInv'
  OBVIOUS
<1>1. rows' \in Seq(Content) /\ rows' # <<>>
  BY Kept DEF Extended, ControlsInv, row
<1>2. (ControlsInv <=> rows \in Seq(Content) /\ rows # <<>> /\ RequestsOK /\ PageTypeOK /\ PageOK)'
  BY Parts, PTL
<1> QED BY <1>1, <1>2

\* What is shown, told and in a dialog stays as good as it was.
LEMMA SamePage ==
  ASSUME ControlsInv, Extended, UNCHANGED page, page.open \/ UNCHANGED requests,
         \A n \in told' : n \in told \/ (page.open /\ Shows(n)'),
         saves' \in 0 .. MaxSaves, asks' \in 0 .. MaxAsks
  PROVE  PageTypeOK' /\ PageOK'
<1>1. PageTypeOK
  BY Parts
<1>2. row \in Nat /\ row' \in Nat /\ row' >= row
  BY Kept DEF ControlsInv, Extended
<1>3. PageTypeOK'
  <2>1. ASSUME NEW n \in told' PROVE n \in 1 .. row'
    <3>1. CASE n \in told
      <4>1. n \in 1 .. row
        BY <1>1, <3>1 DEF PageTypeOK
      <4> QED BY <4>1, <1>2
    <3>2. CASE Shows(n)'
      BY <3>2 DEF Shows
    <3> QED BY <3>1, <3>2
  <2>2. page'.shown \in 0 .. row' /\ page'.dialog.seen \in 0 .. row'
    BY <1>1, <1>2 DEF PageTypeOK
  <2> QED BY <1>1, <2>1, <2>2 DEF PageTypeOK, NoPage
<1>4. page.shown \in Nat /\ page.dialog.seen \in Nat /\ \A n \in told : n \in Nat
  BY <1>1, <1>2 DEF PageTypeOK
<1>5. PageOK'
  BY <1>4, Kept DEF ControlsInv, PageOK
<1> QED BY <1>3, <1>5

-----------------------------------------------------------------------------
(* The server.                                                             *)

LEMMA InitInv == Init => ControlsInv
BY ControlsAssumption DEF Init, ControlsInv, TypeOK, PageOK, NoPage, NoDialog, row, Content, Roles, Request

LEMMA Written ==
  ASSUME TypeOK
  PROVE  /\ Copies \subseteq Content \ {Removed}
         /\ Loud \subseteq Content \ {Removed} /\ Silent \subseteq Content
<1>1. Copies \subseteq Content \ {Removed}
  BY DEF TypeOK, Copies
<1>2. Loud \subseteq Content \ {Removed}
  BY <1>1 DEF Loud, Content, Removed
<1>3. Silent \subseteq Content
  BY <1>1 DEF Silent, Content, Removed
<1> QED BY <1>1, <1>2, <1>3

LEMMA SaveInv == ControlsInv /\ Save => ControlsInv'
<1> SUFFICES ASSUME ControlsInv, Save PROVE ControlsInv'
  OBVIOUS
<1>1. TypeOK
  BY DEF ControlsInv
<1>2. saves' \in 0 .. MaxSaves /\ asks' \in 0 .. MaxAsks
  BY <1>1, ControlsAssumption DEF Save, TypeOK
<1>3. Extended /\ \A n \in told' : n \in told \/ (page.open /\ Shows(n)')
  <2>1. CASE (\E c \in Loud : rows' = Append(rows, c)) /\ Tell(row + 1)
    <3>1. PICK c \in Loud : rows' = Append(rows, c)
      BY <2>1
    <3>2. c \in Content /\ c # Removed
      BY <1>1, Written
    <3>3. PICK n : n = row + 1
      OBVIOUS
    <3>4. Extended /\ Shows(n)'
      BY <1>1, <3>1, <3>2, <3>3, Appends DEF Shows
    <3> QED BY <2>1, <3>3, <3>4 DEF Tell
  <2>2. CASE (\E c \in Silent : rows' = Append(rows, c)) /\ UNCHANGED told
    <3>1. PICK c \in Silent : rows' = Append(rows, c)
      BY <2>2
    <3>2. c \in Content
      BY <1>1, Written
    <3> QED BY <1>1, <2>2, <3>1, <3>2, Appends
  <2> QED BY <2>1, <2>2 DEF Save
<1>4. PageTypeOK' /\ PageOK'
  BY <1>2, <1>3, SamePage DEF Save
<1>5. RequestsOK'
  BY <1>3, SameRequests DEF Save
<1> QED BY <1>3, <1>4, <1>5, Assembled

\* A step of a request that writes nothing
LEMMA Answering ==
  ASSUME ControlsInv, UNCHANGED <<rows, told, page, saves, asks>>, NEW i \in DOMAIN requests,
         NEW q \in Request, requests' = [requests EXCEPT ![i] = q], RequestOK(q)', q.row <= row
  PROVE  ControlsInv'
<1>1. Extended /\ TypeOK /\ row' = row
  BY Stays DEF ControlsInv, row
<1>2. page.open
  BY <1>1 DEF TypeOK
<1>3. PageTypeOK' /\ PageOK'
  BY <1>1, <1>2, SamePage DEF TypeOK
<1>4. RequestsOK'
  BY <1>1, OneMoves
<1> QED BY <1>1, <1>3, <1>4, Assembled

\* The server refuses what was offered only on a row that is not the one shown.
LEMMA RefuseInv ==
  ASSUME ControlsInv, NEW i \in DOMAIN requests, Refuse(i)
  PROVE  ControlsInv'
<1>1. TypeOK /\ row \in Nat \ {0}
  BY DEF ControlsInv, TypeOK, row
<1>2. PICK r \in Request : r = requests[i]
  BY <1>1, Requested
<1>3. PICK q \in Request : q = [r EXCEPT !.pc = "refused", !.row = row]
  BY <1>1 DEF Request
<1>4. requests' = [requests EXCEPT ![i] = q]
  BY <1>1, <1>2, <1>3 DEF Refuse, Become, TypeOK
<1>5. r.seen \in Nat /\ r.seen < row
  <2>1. r.seen \in Nat
    BY DEF Request
  <2>2. CASE r.op = "load"
    BY <1>1, <1>2, <2>2 DEF ControlsInv, RequestOK
  <2>3. CASE r.op # "load"
    BY <1>1, <1>2, <2>1, <2>3 DEF ControlsInv, RequestOK, Offered, Refuse
  <2> QED BY <2>1, <2>2, <2>3
<1>6. q.op = r.op /\ q.seen = r.seen /\ q.pc = "refused" /\ q.row = row
  BY <1>3 DEF Request
<1>7. RequestOK(r)
  BY <1>2 DEF ControlsInv
<1>8. RequestOK(q)' /\ q.row <= row
  BY <1>1, <1>5, <1>6, <1>7 DEF RequestOK
<1> QED BY <1>4, <1>8, Answering DEF Refuse

LEMMA Finish ==
  ASSUME ControlsInv, NEW i \in DOMAIN requests, requests' = [requests EXCEPT ![i] = Finished],
         UNCHANGED <<rows, told, page, saves, asks>>
  PROVE  ControlsInv'
<1>1. Finished \in Request /\ RequestOK(Finished)' /\ Finished.row <= row
  BY Stays, Kept DEF ControlsInv, Finished, Request, Roles, RequestOK
<1> QED BY <1>1, Answering

LEMMA AcceptInv ==
  ASSUME ControlsInv, NEW i \in DOMAIN requests, Accept(i)
  PROVE  ControlsInv'
<1>1. TypeOK /\ row \in Nat \ {0}
  BY DEF ControlsInv, TypeOK, row
<1>2. PICK r \in Request : r = requests[i]
  BY <1>1, Requested
<1>3. PICK q \in Request : q = [r EXCEPT !.pc = IF r.op = "load" THEN "answered" ELSE "loaded", !.row = row]
  BY <1>1 DEF Request
<1>4. requests' = [requests EXCEPT ![i] = q]
  BY <1>1, <1>2, <1>3 DEF Accept, Become, TypeOK
<1>5. Shows(row) /\ row' = row /\ rows' = rows
  BY <1>1, <1>2 DEF Accept, Refuses, Shows, row
<1>6. /\ q.op = r.op /\ q.seen = r.seen /\ q.row = row
      /\ q.pc = IF r.op = "load" THEN "answered" ELSE "loaded"
  BY <1>3 DEF Request
<1>7. RequestOK(r)
  BY <1>2 DEF ControlsInv
<1>8. RequestOK(q)' /\ q.row <= row
  BY <1>1, <1>5, <1>6, <1>7 DEF RequestOK, Shows
<1> QED BY <1>4, <1>8, Answering DEF Accept

LEMMA ServeInv ==
  ASSUME ControlsInv, NEW i \in DOMAIN requests, Serve(i)
  PROVE  ControlsInv'
<1>1. TypeOK /\ row \in Nat \ {0}
  BY DEF ControlsInv, TypeOK, row
<1>2. PICK r \in Request : r = requests[i]
  BY <1>1, Requested
<1>3. RequestOK(r) /\ r.pc = "loaded" /\ Shows(r.row)
  BY <1>2 DEF ControlsInv, Serve, RequestOK
<1>4. PICK c : c = Effect(r.op, rows[r.row])
  OBVIOUS
<1>5. c \in Content /\ (r.op # "remove" => c # Removed)
  <2>1. PICK d \in Content \ {Removed} : d = rows[r.row]
    BY <1>1, <1>3 DEF TypeOK, Shows, row
  <2>2. d \in [status : {"Idle", "Running"}, locked : BOOLEAN] /\ Removed.status = "Removed"
    BY <2>1 DEF Content, Removed
  <2>3. /\ [d EXCEPT !.status = "Idle"] \in Content \ {Removed}
        /\ [d EXCEPT !.locked = TRUE] \in Content \ {Removed}
        /\ [d EXCEPT !.locked = FALSE] \in Content \ {Removed}
    BY <2>2 DEF Content
  <2>4. Removed \in Content
    BY DEF Content
  <2> QED BY <1>4, <2>1, <2>3, <2>4 DEF Effect
<1>6. rows' = Append(rows, c)
  BY <1>2, <1>4 DEF Serve
<1>7. PICK n \in Nat : n = row + 1
  BY <1>1
<1>8. Extended /\ row' = n /\ n \in 1 .. row' /\ rows'[n] = c
  BY <1>1, <1>5, <1>6, <1>7, Appends
<1>9. PICK q \in Request : q = [r EXCEPT !.pc = "answered", !.row = n]
  BY DEF Request
<1>10. q.op = r.op /\ q.seen = r.seen /\ q.row = n /\ q.pc = "answered" /\ q.row <= row'
  BY <1>8, <1>9 DEF Request
<1>11. RequestOK(q)'
  BY <1>3, <1>5, <1>8, <1>10 DEF RequestOK, Shows
<1>12. RequestsOK'
  <2>1. requests' = [requests EXCEPT ![i] = q]
    BY <1>1, <1>2, <1>9, <1>7 DEF Serve, Become, TypeOK
  <2> QED BY <1>1, <1>8, <1>10, <1>11, <2>1, OneMoves
<1>13. page.open
  BY <1>1 DEF TypeOK
<1>14. \A k \in told' : k \in told \/ (page.open /\ Shows(k)')
  BY <1>2, <1>5, <1>8, <1>13, <1>7 DEF Serve, Tell, Shows
<1>15. PageTypeOK' /\ PageOK'
  BY <1>1, <1>8, <1>13, <1>14, SamePage DEF Serve, TypeOK
<1> QED BY <1>8, <1>12, <1>15, Assembled
-----------------------------------------------------------------------------
(* The page.                                                               *)

\* A request about nothing, or about a row that it is offered on
LEMMA Askable ==
  ASSUME ControlsInv, Extended,
         NEW op \in {"load", "restart", "update", "lock", "unlock", "remove"},
         NEW by \in Roles, NEW seen \in Nat,
         IF op = "load" THEN seen = 0 ELSE Offered(op, by, seen),
         NEW q, q = [op |-> op, by |-> by, seen |-> seen, pc |-> "sent", row |-> 0]
  PROVE  q \in Request /\ RequestOK(q)' /\ q.row <= row'
<1>1. q \in Request /\ q.op = op /\ q.by = by /\ q.seen = seen /\ q.pc = "sent" /\ q.row = 0
  BY DEF Request
<1>2. RequestOK(q)
  BY <1>1 DEF RequestOK
<1> QED BY <1>1, <1>2, Kept DEF ControlsInv

\* The page asks on what it shows, and stays as it is.
LEMMA Asking ==
  ASSUME ControlsInv, page.open, NEW op \in {"load", "restart", "update", "lock", "unlock", "remove"},
         NEW seen \in Nat, IF op = "load" THEN seen = 0 ELSE Offered(op, page.session, seen),
         Ask(op, seen), UNCHANGED <<rows, told, page>>
  PROVE  ControlsInv'
<1>1. TypeOK /\ Extended
  BY Stays DEF ControlsInv
<1>2. PICK by \in Roles : by = page.session
  BY <1>1 DEF TypeOK
<1>3. PICK q : q = [op |-> op, by |-> by, seen |-> seen, pc |-> "sent", row |-> 0]
  OBVIOUS
<1>4. q \in Request /\ RequestOK(q)' /\ q.row <= row'
  BY <1>1, <1>2, <1>3, Askable
<1>5. requests' = Append(requests, q)
  BY <1>2, <1>3 DEF Ask, Asked
<1>6. RequestsOK'
  BY <1>1, <1>4, <1>5, OneMore
<1>7. saves' \in 0 .. MaxSaves /\ asks' \in 0 .. MaxAsks
  BY <1>1, ControlsAssumption DEF Ask, Asks, TypeOK
<1>8. PageTypeOK' /\ PageOK'
  BY <1>1, <1>7, SamePage
<1> QED BY <1>1, <1>6, <1>8, Assembled

LEMMA ReloadInv == ControlsInv /\ Reload => ControlsInv'
BY Asking DEF Reload

\* The row that is shown can be clicked on.
LEMMA Clicked ==
  ASSUME ControlsInv, CanClick
  PROVE  /\ page.open /\ page.shown \in 1 .. row /\ page.shown \in Nat
         /\ shown \in Content \ {Removed} /\ shown.locked \in BOOLEAN
         /\ page.session \in {"user", "admin"}
         /\ \A op : page.session \in RequiredRole(op) /\ ~Conflict(op, shown) =>
              Offered(op, page.session, page.shown)
<1>1. TypeOK /\ Shows(page.shown) /\ row \in Nat
  BY DEF ControlsInv, TypeOK, row, PageOK, CanClick
<1>2. page.shown \in 1 .. row /\ shown \in Content \ {Removed}
  BY <1>1 DEF Shows, shown, TypeOK, row
<1>3. shown.locked \in BOOLEAN
  BY <1>2 DEF Content
<1>4. page.open /\ page.session \in {"user", "admin"}
  BY <1>1 DEF CanClick, TypeOK, Roles
<1>5. \A op : page.session \in RequiredRole(op) /\ ~Conflict(op, shown) =>
             Offered(op, page.session, page.shown)
  BY <1>2 DEF Offered, Refuses, shown
<1> QED BY <1>1, <1>2, <1>3, <1>4, <1>5

LEMMA RestartInv == ControlsInv /\ OnRestart => ControlsInv'
<1> SUFFICES ASSUME ControlsInv, OnRestart PROVE ControlsInv'
  OBVIOUS
<1>1. Offered("restart", page.session, page.shown) /\ page.open /\ page.shown \in Nat
  BY Clicked DEF OnRestart, Enabled, RequiredRole, Conflict
<1> QED BY <1>1, Asking DEF OnRestart

LEMMA LockInv == ControlsInv /\ OnLockOrUnlock => ControlsInv'
<1> SUFFICES ASSUME ControlsInv, OnLockOrUnlock PROVE ControlsInv'
  OBVIOUS
<1>1. page.open /\ page.shown \in Nat
  BY Clicked DEF OnLockOrUnlock
<1>2. CASE shown.locked
  <2>1. Offered("unlock", page.session, page.shown)
    BY <1>2, Clicked DEF OnLockOrUnlock, IsAdmin, RequiredRole, Conflict
  <2> QED BY <1>1, <1>2, <2>1, Asking DEF OnLockOrUnlock
<1>3. CASE ~shown.locked
  <2>1. Offered("lock", page.session, page.shown)
    BY <1>3, Clicked DEF OnLockOrUnlock, IsAdmin, RequiredRole, Conflict
  <2> QED BY <1>1, <1>3, <2>1, Asking DEF OnLockOrUnlock
<1> QED BY <1>2, <1>3
\* The page changes, to one that is open.
LEMMA OtherPage ==
  ASSUME ControlsInv, UNCHANGED rows, told' \subseteq told, RequestsOK',
         NEW p \in Page, page' = p, p.open,
         p.shown = 0 \/ Shows(p.shown), p.dialog.seen \in 0 .. row,
         p.dialog.kind # "none" => Offered(DialogOp[p.dialog.kind], p.session, p.dialog.seen),
         saves' \in 0 .. MaxSaves, asks' \in 0 .. MaxAsks
  PROVE  ControlsInv'
<1>1. Extended /\ row' = row /\ row \in Nat
  BY Stays DEF ControlsInv, TypeOK, row
<1>2. PageTypeOK'
  <2>1. told' \subseteq 1 .. row'
    BY <1>1 DEF ControlsInv, TypeOK
  <2>2. p.shown \in 0 .. row'
    BY <1>1 DEF Shows
  <2> QED BY <1>1, <2>1, <2>2 DEF PageTypeOK
<1>3. PageOK'
  <2>1. \A n \in told' : Shows(n)'
    BY <1>1 DEF ControlsInv, PageOK, Shows
  <2>2. p.shown # 0 => Shows(p.shown)'
    BY <1>1 DEF Shows
  <2>3. p.dialog.kind # "none" => Offered(DialogOp[p.dialog.kind], p.session, p.dialog.seen)'
    BY <1>1 DEF Offered, Refuses
  <2> QED BY <2>1, <2>2, <2>3 DEF PageOK, Shows, Offered, Refuses
<1> QED BY <1>1, <1>2, <1>3, Assembled

\* A dialog opens on what is shown.
LEMMA OpenDialogInv ==
  ASSUME ControlsInv, CanClick, NEW kind \in {"confirm", "edit"}, OpenDialog(kind),
         Offered(DialogOp[kind], page.session, page.shown)
  PROVE  ControlsInv'
<1>1. TypeOK /\ Extended /\ Shows(page.shown) /\ page.shown \in Nat
  BY Stays, Clicked DEF ControlsInv, PageOK, OpenDialog, CanClick
<1>2. RequestsOK'
  BY <1>1, SameRequests DEF OpenDialog
<1>3. page \in Page /\ page.open /\ page.shown \in 0 .. row
  BY Parts, Clicked DEF PageTypeOK
<1>4. PICK p \in Page : p = [page EXCEPT !.dialog = [kind |-> kind, seen |-> page.shown]]
  BY <1>1, <1>3 DEF Page, Dialog
<1>5. /\ p.open /\ p.shown = page.shown /\ p.session = page.session
      /\ p.dialog.kind = kind /\ p.dialog.seen = page.shown
  BY <1>3, <1>4 DEF Page
<1> QED BY <1>1, <1>2, <1>3, <1>4, <1>5, OtherPage DEF OpenDialog, TypeOK

LEMMA DeleteInv == ControlsInv /\ OnDelete => ControlsInv'
<1> SUFFICES ASSUME ControlsInv, OnDelete PROVE ControlsInv'
  OBVIOUS
<1>1. CanClick /\ OpenDialog("confirm")
  BY DEF OnDelete, Enabled
<1>2. Offered("remove", page.session, page.shown)
  BY <1>1, Clicked DEF OnDelete, IsAdmin, RequiredRole, Conflict
<1> QED BY <1>1, <1>2, OpenDialogInv DEF DialogOp

LEMMA EditInv == ControlsInv /\ OnClickEditIcon => ControlsInv'
<1> SUFFICES ASSUME ControlsInv, OnClickEditIcon PROVE ControlsInv'
  OBVIOUS
<1>1. CanClick /\ OpenDialog("edit")
  BY DEF OnClickEditIcon, Enabled
<1>2. Offered("update", page.session, page.shown)
  BY <1>1, Clicked DEF OnClickEditIcon, Enabled, RequiredRole, Conflict
<1> QED BY <1>1, <1>2, OpenDialogInv DEF DialogOp

\* What a dialog sends was offered when it was opened.
LEMMA Dialogs ==
  ASSUME ControlsInv, page.dialog # NoDialog
  PROVE  /\ page.open /\ page \in Page /\ page.dialog.seen \in Nat
         /\ page.dialog.kind = "confirm" => Offered("remove", page.session, page.dialog.seen)
         /\ page.dialog.kind = "edit" => Offered("update", page.session, page.dialog.seen)
<1>1. page.open /\ page \in Page /\ page.dialog.seen \in Nat
  BY Parts DEF PageTypeOK, NoPage, Page, Dialog
<1> QED BY <1>1 DEF ControlsInv, PageOK, DialogOp

LEMMA Closing ==
  ASSUME ControlsInv, page.dialog # NoDialog, UNCHANGED <<rows, told>>, RequestsOK',
         page' = [page EXCEPT !.dialog = NoDialog],
         saves' \in 0 .. MaxSaves, asks' \in 0 .. MaxAsks
  PROVE  ControlsInv'
<1>1. row \in Nat /\ (page.shown = 0 \/ Shows(page.shown))
  BY DEF ControlsInv, TypeOK, row, PageOK
<1>2. PICK p \in Page : p = [page EXCEPT !.dialog = NoDialog]
  BY Dialogs DEF Page, Dialog, NoDialog
<1>3. p.open /\ p.shown = page.shown /\ p.dialog.kind = "none" /\ p.dialog.seen = 0
  BY <1>2, Dialogs DEF Page, NoDialog
<1>4. (p.shown = 0 \/ Shows(p.shown)) /\ p.dialog.seen \in 0 .. row
  BY <1>1, <1>3
<1>5. UNCHANGED rows /\ told' \subseteq told /\ page' = p
  BY <1>2
<1> QED BY <1>3, <1>4, <1>5, OtherPage

LEMMA ConfirmInv == ControlsInv /\ OnConfirm => ControlsInv'
<1> SUFFICES ASSUME ControlsInv, OnConfirm PROVE ControlsInv'
  OBVIOUS
<1>1. TypeOK /\ Extended /\ page.dialog # NoDialog
  BY Stays DEF ControlsInv, OnConfirm, NoDialog
<1>2. PICK by \in Roles, seen \in Nat : by = page.session /\ seen = page.dialog.seen
  BY <1>1, Dialogs DEF TypeOK
<1>3. PICK q : q = [op |-> "remove", by |-> by, seen |-> seen, pc |-> "sent", row |-> 0]
  OBVIOUS
<1>4. Offered("remove", by, seen)
  BY <1>1, <1>2, Dialogs DEF OnConfirm
<1>5. q \in Request /\ RequestOK(q)' /\ q.row <= row'
  BY <1>1, <1>3, <1>4, Askable
<1>6. requests' = Append(requests, q)
  BY <1>2, <1>3 DEF OnConfirm, Ask, Asked
<1>7. RequestsOK'
  BY <1>1, <1>5, <1>6, OneMore
<1>8. saves' \in 0 .. MaxSaves /\ asks' \in 0 .. MaxAsks
  BY <1>1, ControlsAssumption DEF OnConfirm, Ask, Asks, TypeOK
<1> QED BY <1>1, <1>7, <1>8, Closing DEF OnConfirm

LEMMA SubmitInv == ControlsInv /\ OnSubmit => ControlsInv'
<1> SUFFICES ASSUME ControlsInv, OnSubmit PROVE ControlsInv'
  OBVIOUS
<1>1. page.dialog # NoDialog
  BY DEF OnSubmit, NoDialog
<1>2. PICK seen \in Nat : seen = page.dialog.seen
  BY <1>1, Dialogs
<1>3. page.open /\ Offered("update", page.session, seen)
  BY <1>1, <1>2, Dialogs DEF OnSubmit
<1> QED BY <1>2, <1>3, Asking DEF OnSubmit

LEMMA CloseInv == ControlsInv /\ OnClose => ControlsInv'
<1> SUFFICES ASSUME ControlsInv, OnClose PROVE ControlsInv'
  OBVIOUS
<1>1. TypeOK /\ Extended
  BY Stays DEF ControlsInv, OnClose
<1>2. RequestsOK'
  BY <1>1, SameRequests DEF OnClose
<1> QED BY <1>1, <1>2, Closing DEF OnClose, TypeOK
LEMMA OpenInv == ControlsInv /\ Open => ControlsInv'
<1> SUFFICES ASSUME ControlsInv, Open PROVE ControlsInv'
  OBVIOUS
<1>1. TypeOK /\ Extended /\ row \in Nat
  BY Stays DEF ControlsInv, Open, TypeOK, row
<1>2. PICK q : q = [op |-> "load", by |-> "none", seen |-> 0, pc |-> "sent", row |-> 0]
  OBVIOUS
<1>3. q \in Request /\ RequestOK(q)' /\ q.row <= row'
  BY <1>1, <1>2, Askable DEF Roles
<1>4. RequestsOK'
  <2>1. requests' = <<q>>
    BY <1>2 DEF Open
  <2> QED BY <1>3, <2>1 DEF RequestsOK
<1>5. PICK p \in Page : p = NewPage
  BY DEF Page, Dialog, NewPage, NoPage, NoDialog, Roles
<1>6. p.open /\ p.shown = 0 /\ p.dialog.kind = "none" /\ p.dialog.seen = 0
  BY <1>5 DEF NewPage, NoPage, NoDialog
<1>7. UNCHANGED rows /\ told' \subseteq told /\ page' = p /\ p.dialog.seen \in 0 .. row
  BY <1>1, <1>5, <1>6 DEF Open
<1>8. saves' \in 0 .. MaxSaves /\ asks' \in 0 .. MaxAsks
  BY <1>1, ControlsAssumption DEF Open, Asks, TypeOK
<1> QED BY <1>4, <1>6, <1>7, <1>8, OtherPage

LEMMA RestoreSessionInv == ControlsInv /\ RestoreSession => ControlsInv'
<1> SUFFICES ASSUME ControlsInv, RestoreSession PROVE ControlsInv'
  OBVIOUS
<1>1. TypeOK /\ Extended /\ row \in Nat
  BY Stays DEF ControlsInv, RestoreSession, TypeOK, row
<1>2. PICK role \in {"user", "admin"} :
        /\ page' = [page EXCEPT !.session = role]
        /\ requests' = Append(requests, [Asked("load", 0) EXCEPT !.by = role])
  BY DEF RestoreSession
<1>3. PICK q : q = [op |-> "load", by |-> role, seen |-> 0, pc |-> "sent", row |-> 0]
  OBVIOUS
<1>4. q \in Request /\ RequestOK(q)' /\ q.row <= row'
  BY <1>1, <1>3, Askable DEF Roles
<1>5. requests' = Append(requests, q)
  BY <1>2, <1>3 DEF Asked
<1>6. RequestsOK'
  BY <1>1, <1>4, <1>5, OneMore
<1>7. page \in Page /\ page.open /\ page.dialog.seen \in 0 .. row
  BY Parts DEF PageTypeOK, RestoreSession
<1>8. page.dialog.kind = "none"
  BY <1>7, Dialogs DEF RestoreSession, Offered, Refuses, RequiredRole, NoDialog, Page, Dialog
<1>9. PICK p \in Page : p = [page EXCEPT !.session = role]
  BY <1>7 DEF Page, Roles
<1>10. p.open /\ p.shown = page.shown /\ p.dialog = page.dialog
  BY <1>7, <1>9 DEF Page
<1>11. (p.shown = 0 \/ Shows(p.shown)) /\ p.dialog.seen \in 0 .. row /\ p.dialog.kind = "none"
  BY <1>7, <1>8, <1>10 DEF ControlsInv, PageOK
<1>12. /\ UNCHANGED rows /\ told' \subseteq told /\ page' = p
       /\ saves' \in 0 .. MaxSaves /\ asks' \in 0 .. MaxAsks
  BY <1>1, <1>2, <1>9 DEF RestoreSession, TypeOK
<1> QED BY <1>6, <1>10, <1>11, <1>12, OtherPage

\* A page shows another row, and may close a dialog.
LEMMA Showing ==
  ASSUME ControlsInv, page.open, NEW n \in Nat, Shows(n), NEW d \in {page.dialog, NoDialog},
         page' = [page EXCEPT !.shown = n, !.dialog = d],
         UNCHANGED <<rows, saves, asks>>, told' \subseteq told, RequestsOK'
  PROVE  ControlsInv'
<1>1. TypeOK /\ row \in Nat /\ page \in Page /\ page.dialog.seen \in 0 .. row
  BY Parts DEF ControlsInv, PageTypeOK, TypeOK, row
<1>2. d \in Dialog /\ d.seen \in 0 .. row
  BY <1>1 DEF Page, Dialog, NoDialog
<1>3. PICK p \in Page : p = [page EXCEPT !.shown = n, !.dialog = d]
  BY <1>1, <1>2 DEF Page
<1>4. p.open /\ p.shown = n /\ p.dialog = d /\ p.session = page.session
  BY <1>1, <1>3 DEF Page
<1>5. d.kind # "none" => Offered(DialogOp[d.kind], page.session, d.seen)
  BY DEF NoDialog, ControlsInv, PageOK
<1>6. p.dialog.kind # "none" => Offered(DialogOp[p.dialog.kind], p.session, p.dialog.seen)
  BY <1>4, <1>5
<1>7. (p.shown = 0 \/ Shows(p.shown)) /\ p.dialog.seen \in 0 .. row
  BY <1>2, <1>4
<1>8. UNCHANGED rows /\ page' = p /\ saves' \in 0 .. MaxSaves /\ asks' \in 0 .. MaxAsks
  BY <1>1, <1>3 DEF TypeOK
<1> QED BY <1>4, <1>6, <1>7, <1>8, OtherPage

LEMMA RefreshInv ==
  ASSUME ControlsInv, NEW i \in DOMAIN requests, Refresh(i)
  PROVE  ControlsInv'
<1>1. TypeOK /\ Extended /\ row \in Nat
  BY Stays DEF ControlsInv, Refresh, TypeOK, row
<1>2. page.open
  BY <1>1 DEF TypeOK
<1>3. PICK n \in Nat : n = requests[i].row /\ Shows(n)
  BY <1>1, Requested DEF ControlsInv, Refresh, RequestOK
<1>4. Finished \in Request /\ RequestOK(Finished)' /\ Finished.row <= row'
  BY <1>1, Kept DEF Finished, Request, Roles, RequestOK
<1>5. RequestsOK'
  BY <1>1, <1>4, OneMoves DEF Refresh
<1>6. PICK d \in {page.dialog, NoDialog} : page' = [page EXCEPT !.shown = n, !.dialog = d]
  <2>1. CASE requests[i].op = "update" /\ page.dialog.kind = "edit"
    BY <1>3, <2>1 DEF Refresh
  <2>2. CASE ~(requests[i].op = "update" /\ page.dialog.kind = "edit")
    BY <1>3, <2>2 DEF Refresh
  <2> QED BY <2>1, <2>2
<1>7. UNCHANGED <<rows, saves, asks>> /\ told' \subseteq told
  BY DEF Refresh
<1> QED BY <1>2, <1>3, <1>5, <1>6, <1>7, Showing

LEMMA HearInv ==
  ASSUME ControlsInv, NEW n \in told, Hear(n)
  PROVE  ControlsInv'
<1>1. TypeOK /\ Extended /\ row \in Nat
  BY Stays DEF ControlsInv, Hear, TypeOK, row
<1>2. page.open /\ n \in Nat /\ Shows(n) /\ page \in Page
  BY <1>1, Parts DEF TypeOK, ControlsInv, PageOK, PageTypeOK
<1>3. RequestsOK'
  BY <1>1, SameRequests DEF Hear
<1>4. page' = [page EXCEPT !.shown = n, !.dialog = page.dialog]
  BY <1>2 DEF Hear, Page
<1>5. UNCHANGED <<rows, saves, asks>> /\ told' \subseteq told
  BY DEF Hear
<1> QED BY <1>2, <1>3, <1>4, <1>5, Showing

LEMMA LeaveInv == ControlsInv /\ Leave => ControlsInv'
<1> SUFFICES ASSUME ControlsInv, Leave PROVE ControlsInv'
  OBVIOUS
<1>1. TypeOK /\ Extended /\ row' \in Nat
  BY Stays, Kept DEF ControlsInv, Leave
<1>2. RequestsOK'
  BY DEF Leave, RequestsOK
<1>3. NoPage \in Page /\ NoPage.shown = 0 /\ NoPage.dialog.seen = 0 /\ NoPage.dialog.kind = "none"
  BY DEF Page, Dialog, NoPage, NoDialog, Roles
<1>4. PageTypeOK'
  BY <1>1, <1>3 DEF Leave, PageTypeOK, TypeOK
<1>5. PageOK'
  BY <1>3 DEF Leave, PageOK
<1> QED BY <1>1, <1>2, <1>4, <1>5, Assembled

-----------------------------------------------------------------------------
(* The theorems.                                                           *)

LEMMA NextInv == ControlsInv /\ [Next]_vars => ControlsInv'
<1> SUFFICES ASSUME ControlsInv, [Next]_vars PROVE ControlsInv'
  OBVIOUS
<1>1. CASE Save
  BY <1>1, SaveInv
<1>2. ASSUME NEW n \in told, Hear(n) PROVE ControlsInv'
  BY <1>2, HearInv
<1>3. ASSUME NEW i \in DOMAIN requests, ServerStep(i) PROVE ControlsInv'
  <2>1. CASE Refuse(i)
    BY <2>1, RefuseInv
  <2>2. CASE RejectSettings(i)
    BY <2>2, Finish DEF RejectSettings
  <2>3. CASE Accept(i)
    BY <2>3, AcceptInv
  <2>4. CASE Serve(i)
    BY <2>4, ServeInv
  <2> QED BY <1>3, <2>1, <2>2, <2>3, <2>4 DEF ServerStep
<1>4. ASSUME NEW i \in DOMAIN requests, AnswerStep(i) PROVE ControlsInv'
  <2>1. CASE Refresh(i)
    BY <2>1, RefreshInv
  <2>2. CASE TimeOut(i)
    BY <2>2, Finish DEF TimeOut
  <2>3. CASE LeaveRemoved(i) \/ Redirect(i)
    BY <2>3, LeaveInv DEF LeaveRemoved, Redirect
  <2> QED BY <1>4, <2>1, <2>2, <2>3 DEF AnswerStep
<1>5. CASE Open \/ RestoreSession \/ Reload
  BY <1>5, OpenInv, RestoreSessionInv, ReloadInv
<1>6. CASE UserStep
  BY <1>6, RestartInv, DeleteInv, LockInv, EditInv, ConfirmInv, SubmitInv, CloseInv DEF UserStep
<1>7. CASE UNCHANGED vars
  <2>1. Extended /\ TypeOK
    BY <1>7, Stays DEF vars, ControlsInv
  <2>2. RequestsOK'
    BY <1>7, <2>1, SameRequests DEF vars
  <2>3. PageTypeOK' /\ PageOK'
    BY <1>7, <2>1, SamePage DEF vars, TypeOK
  <2> QED BY <2>1, <2>2, <2>3, Assembled
<1> QED BY <1>1, <1>2, <1>3, <1>4, <1>5, <1>6, <1>7 DEF Next

LEMMA Invariance == Spec => []ControlsInv
BY InitInv, NextInv, PTL DEF Spec

\* The page shows, and its requests and dialogs are about, rows that were
\* saved; a page that is left waits for nothing.
THEOREM TypeCorrect == Spec => []TypeOK
<1>1. ControlsInv => TypeOK
  BY DEF ControlsInv
<1> QED BY <1>1, Invariance, PTL

\* Whatever others save, whatever is sent twice and whenever the answers come:
\* the server refuses what the page offered only if it has loaded a row that
\* was saved after the one the page showed.
THEOREM Refusals == Spec => []RefusalIsStale
<1>1. ControlsInv => RefusalIsStale
  BY DEF ControlsInv, RequestOK, RefusalIsStale
<1> QED BY <1>1, Invariance, PTL

===========================================================================
