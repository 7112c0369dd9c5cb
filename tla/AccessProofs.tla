---------------------------- MODULE AccessProofs ----------------------------
(***************************************************************************)
(* The rate limit, revocation and the wall between tenants, for every       *)
(* number of threads, keys, tenants, scopes and requests.                   *)
(*                                                                          *)
(* The limiter first, by itself.  tokens - last_refilled_at is the          *)
(* bucket's balance carried back to time 0.  A refill, forwards or          *)
(* backwards, leaves it unchanged or, at the cap, lowers it; a grant lowers *)
(* it by Cost.  From the first grant in the window on, balance and grants   *)
(* together stay below Full - WindowStart.                                  *)
(*                                                                          *)
(* Then the requests.  What a request holds (the row of its key, the row it *)
(* is about to save, the keys it shows) was read some steps ago.  It is     *)
(* still good because of what no step does: a key keeps its tenant, scopes  *)
(* and issuer for life, and never becomes valid again.                      *)
(***************************************************************************)
EXTENDS Access, TLAPS

Balance(k) == bucket[k].tokens - bucket[k].last_refilled_at

Conserved ==
    \A k \in Key :
        /\ bucket[k] = None => spent[k] = 0
        /\ bucket[k] # None /\ spent[k] # 0 => Balance(k) + spent[k] <= Full - WindowStart

LInv == LimiterTypeOK /\ Conserved /\ WindowBound

LEMMA CheckKeeps ==
    ASSUME LInv, NEW t \in Thread, Check(t)
    PROVE  LInv'
  <1> DEFINE k == reading[t].key
             now == reading[t].now
             b == BucketOf(k, now)
             level == Refilled(b, now)
  <1>1. k \in Key /\ now \in Time
    BY DEF LInv, LimiterTypeOK, Check, Reading
  <1>2. b \in Bucket /\ (bucket[k] # None => b = bucket[k])
        /\ (bucket[k] = None => b.tokens = Full /\ b.last_refilled_at = now)
    BY <1>1, CostAssumption DEF BucketOf, LInv, LimiterTypeOK, Bucket
  <1>3. level \in Int /\ level <= Full
        /\ level - now <= b.tokens - b.last_refilled_at
    BY <1>1, <1>2, CostAssumption, MaxTimeAssumption DEF Refilled, Bucket, Time
  <1> DEFINE left == IF level >= Cost THEN level - Cost ELSE level
             new == [tokens |-> left, last_refilled_at |-> now]
             more == IF level >= Cost /\ InWindow(now) THEN spent[k] + Cost ELSE spent[k]
  <1>4. spent[k] \in Nat /\ left \in Int /\ more \in Nat /\ new \in Bucket
    BY <1>1, <1>3, CostAssumption DEF LInv, LimiterTypeOK, Bucket
  <1>5. bucket' = [bucket EXCEPT ![k] = new] /\ spent' = [spent EXCEPT ![k] = more]
    <2>1. CASE Allowed(t)
      BY <1>3, <2>1, CostAssumption DEF Allowed
    <2>2. CASE Exceeded(t)
      <3>1. more = spent[k] /\ left = level
        BY <1>3, <2>2, CostAssumption DEF Exceeded
      <3> QED
        BY <2>2, <3>1 DEF Exceeded, LInv, LimiterTypeOK
    <2> QED
      BY <2>1, <2>2 DEF Check
  <1>6. /\ more # 0 => left - now + more <= Full - WindowStart
        /\ more <= Full + (WindowEnd - WindowStart)
    <2>1. spent[k] # 0 => level - now + spent[k] <= Full - WindowStart
      <3>1. spent[k] # 0 =>
                b.tokens - b.last_refilled_at + spent[k] <= Full - WindowStart
        BY <1>1, <1>2 DEF LInv, Conserved, Balance
      <3>2. b.tokens \in Int /\ b.last_refilled_at \in Int /\ now \in Int
        BY <1>1, <1>2, MaxTimeAssumption DEF Bucket, Time
      <3> HIDE DEF k, now, b, level
      <3> QED
        BY <1>3, <1>4, <3>1, <3>2, CostAssumption, WindowAssumption
    <2>2. spent[k] <= Full + (WindowEnd - WindowStart)
      BY <1>1 DEF LInv, WindowBound
    <2>3. CASE level >= Cost /\ InWindow(now)
      BY <1>1, <1>3, <1>4, <2>1, <2>2, <2>3, CostAssumption, WindowAssumption, MaxTimeAssumption
         DEF InWindow, Time
    <2>4. CASE ~(level >= Cost /\ InWindow(now))
      BY <1>1, <1>3, <1>4, <2>1, <2>2, <2>4, CostAssumption, WindowAssumption, MaxTimeAssumption
         DEF Time
    <2> QED
      BY <2>3, <2>4
  <1>7. new.tokens = left /\ new.last_refilled_at = now /\ new # None
    BY <1>4, NoneAssumption
  <1> HIDE DEF k, now, b, level, left, new, more
  <1>8. LimiterTypeOK'
    BY <1>1, <1>4, <1>5 DEF LInv, LimiterTypeOK, Check
  <1>9. /\ bucket'[k] = new /\ spent'[k] = more
        /\ \A j \in Key \ {k} : bucket'[j] = bucket[j] /\ spent'[j] = spent[j]
    BY <1>1, <1>5 DEF LInv, LimiterTypeOK
  <1>10. Conserved'
    BY <1>6, <1>7, <1>9 DEF LInv, Conserved, Balance
  <1>11. WindowBound'
    BY <1>6, <1>9 DEF LInv, WindowBound
  <1> QED
    BY <1>8, <1>10, <1>11 DEF LInv

LEMMA LimiterStep == LInv /\ [LimiterNext]_limiterVars => LInv'
  <1> SUFFICES ASSUME LInv, [LimiterNext]_limiterVars PROVE LInv'
    OBVIOUS
  <1>1. CASE Tick
    BY <1>1, MaxTimeAssumption
       DEF Tick, LInv, LimiterTypeOK, Conserved, WindowBound, Balance, Time
  <1>2. ASSUME NEW t \in Thread, NEW k \in Key, ReadClock(t, k)
        PROVE  LInv'
    <2>1. [key |-> k, now |-> clock] \in Reading
      BY DEF LInv, LimiterTypeOK, Reading
    <2> QED
      BY <1>2, <2>1 DEF ReadClock, LInv, LimiterTypeOK, Conserved, WindowBound, Balance
  <1>3. CASE UNCHANGED limiterVars
    BY <1>3 DEF limiterVars, LInv, LimiterTypeOK, Conserved, WindowBound, Balance
  <1> QED
    BY <1>1, <1>2, <1>3, CheckKeeps DEF LimiterNext

\* For every number of threads, capacity, refill rate and window, no key is ever
\* granted more in the window than a full bucket and the window's own refill.
THEOREM LimiterRateIsBounded == LimiterSpec => []WindowBound
  <1>1. LimiterInit => LInv
    BY CostAssumption, WindowAssumption, MaxTimeAssumption
       DEF LimiterInit, LInv, LimiterTypeOK, Conserved, WindowBound, Time
  <1>2. LInv => WindowBound
    BY DEF LInv
  <1> QED
    BY <1>1, <1>2, LimiterStep, PTL DEF LimiterSpec
-----------------------------------------------------------------------------
(* The requests *)

\* A row read earlier describes key k of the table, but for its revocation.
SameKey(table, k, row) ==
    /\ row \in KeyRow
    /\ table[k] # None
    /\ table[k].tenant = row.tenant
    /\ table[k].scopes = row.scopes
    /\ table[k].issued_by = row.issued_by

MayAct(q, owner) == MayManage(q.caller) \/ q.key = owner

\* What a request holds, at each of its steps, agrees with the table.
Held(q, table) ==
    /\ q.pc # "idle" => q.key \in Key /\ (q.op # "issue" => q.target \in Key)
    /\ q.pc \in {"revoke", "save"} => q.op = "revoke"
    /\ q.pc \in {"list", "rows", "listed"} => q.op = "list"
    /\ q.pc \notin {"idle", "auth"} => SameKey(table, q.key, q.caller)
    /\ q.pc = "save" => /\ SameKey(table, q.target, q.row)
                        /\ q.row.revoked
                        /\ q.row.tenant = q.caller.tenant
                        /\ MayAct(q, q.row.issued_by)
    /\ q.pc = "rows" => MayAct(q, q.target)
    /\ q.late => q.pc = "auth" /\ table[q.key] # None /\ table[q.key].revoked
    /\ q.shown # {} => q.pc = "listed"
    /\ \A k \in q.shown : /\ table[k] # None
                          /\ table[k].tenant = q.caller.tenant
                          /\ MayAct(q, table[k].issued_by)

Holds == \A t \in Thread : Held(req[t], keys)

\* The part of the state that is not the limiter's keeps its type.
RequestsTypeOK ==
    /\ keys \in [Key -> KeyRow \cup {None}]
    /\ req \in [Thread -> Request]
    /\ arrived \in 0 .. MaxRequests
    /\ revoker \in [Key -> [key : Key, row : KeyRow] \cup {None}]

\* Issuance is one level deep, within the tenant of a managing key.
OneLevel ==
    \A k \in Key : Issued(k) /\ keys[k].issued_by # None =>
        /\ Issued(keys[k].issued_by) /\ keys[keys[k].issued_by].issued_by = None
        /\ MayManage(keys[keys[k].issued_by])
        /\ keys[keys[k].issued_by].tenant = keys[k].tenant
        /\ keys[k].scopes = {}

\* A revoked key was revoked by a caller that had the right to.
RightfullyRevoked ==
    \A k \in Key : Issued(k) /\ keys[k].revoked =>
        /\ revoker[k] # None
        /\ revoker[k].row.tenant = keys[k].tenant
        /\ MayManage(revoker[k].row) \/ revoker[k].key = keys[k].issued_by

IInv == RequestsTypeOK /\ Holds /\ OneLevel /\ RightfullyRevoked

\* What a step may do to the table: issue a key, or revoke one.
KeepsRows ==
    \A k \in Key : Issued(k) =>
        /\ keys'[k] \in KeyRow
        /\ keys'[k].tenant = keys[k].tenant
        /\ keys'[k].scopes = keys[k].scopes
        /\ keys'[k].issued_by = keys[k].issued_by
        /\ keys[k].revoked => keys'[k].revoked

LEMMA RowsAreRows ==
    ASSUME IInv, NEW k \in Key, Issued(k)
    PROVE  keys[k] \in KeyRow /\ keys[k].tenant \in Tenant /\ keys[k].scopes \in SUBSET Scope
           /\ keys[k].issued_by \in Key \cup {None} /\ keys[k].revoked \in BOOLEAN
  <1>1. keys[k] \in KeyRow
    BY DEF IInv, RequestsTypeOK, Issued
  <1> QED
    BY <1>1 DEF KeyRow

\* What a request holds stays good through every change of the table.
LEMMA HeldStays ==
    ASSUME KeepsRows, NEW q \in Request, Held(q, keys)
    PROVE  Held(q, keys')
  <1>1. \A k \in Key : Issued(k) => keys'[k] # None
    BY RowAssumption DEF KeepsRows
  <1>2. \A k \in Key : \A row : SameKey(keys, k, row) => SameKey(keys', k, row)
    BY <1>1 DEF SameKey, KeepsRows, Issued
  <1>3. q.shown \subseteq Key
    BY DEF Request
  <1>4. \A k \in q.shown : keys'[k] # None /\ keys'[k].tenant = q.caller.tenant
                           /\ MayAct(q, keys'[k].issued_by)
    BY <1>1, <1>3 DEF Held, KeepsRows, Issued
  <1>5. q.late => q.pc = "auth" /\ keys'[q.key] # None /\ keys'[q.key].revoked
    BY <1>1 DEF Held, KeepsRows, Issued
  <1>6. q.pc \notin {"idle", "auth"} => SameKey(keys', q.key, q.caller)
    BY <1>2 DEF Held
  <1>7. q.pc = "save" => SameKey(keys', q.target, q.row)
    BY <1>2 DEF Held
  <1> QED
    BY <1>4, <1>5, <1>6, <1>7 DEF Held

\* A step of thread t that leaves it with the request q.
LEMMA RequestStep ==
    ASSUME IInv, KeepsRows, NEW t \in Thread, NEW q \in Request,
           req' = [req EXCEPT ![t] = q], Held(q, keys')
    PROVE  Holds' /\ req' \in [Thread -> Request]
  <1>1. req \in [Thread -> Request] /\ \A u \in Thread : Held(req[u], keys)
    BY DEF IInv, RequestsTypeOK, Holds
  <1>2. \A u \in Thread : Held(req[u], keys')
    BY <1>1, HeldStays
  <1> QED
    BY <1>1, <1>2 DEF Holds

LEMMA NoRequestHeld == NoRequest \in Request /\ \A table : Held(NoRequest, table)
  BY DEF NoRequest, Request, PC, Op, Held

\* A step that writes no row.
LEMMA QuietTable ==
    ASSUME IInv, UNCHANGED <<keys, revoker>>, arrived' \in 0 .. MaxRequests,
           NEW t \in Thread, NEW q \in Request, req' = [req EXCEPT ![t] = q], Held(q, keys)
    PROVE  IInv' /\ KeepsRows
  <1>1. KeepsRows
    BY RowsAreRows DEF KeepsRows
  <1>2. Holds' /\ req' \in [Thread -> Request]
    BY <1>1, RequestStep
  <1> QED
    BY <1>1, <1>2 DEF IInv, RequestsTypeOK, OneLevel, RightfullyRevoked, Issued

LEMMA AnswerKeeps ==
    ASSUME IInv, NEW t \in Thread, Answer(t), UNCHANGED <<keys, arrived, revoker>>
    PROVE  IInv' /\ KeepsRows
  <1>1. arrived \in 0 .. MaxRequests
    BY DEF IInv, RequestsTypeOK
  <1> QED
    BY <1>1, NoRequestHeld, QuietTable DEF Answer

\* A step that only moves the request on.
LEMMA GotoKeeps ==
    ASSUME IInv, NEW t \in Thread, NEW label \in PC, Goto(t, label),
           UNCHANGED <<keys, arrived, revoker>>,
           req[t].pc \notin {"idle", "auth", "listed"}, label \notin {"idle", "auth", "save"},
           label \in {"revoke", "list"} => req[t].op = label,
           label = "rows" => req[t].op = "list" /\ MayAct(req[t], req[t].target),
           label # "listed"
    PROVE  IInv' /\ KeepsRows
  <1> DEFINE q == [req[t] EXCEPT !.pc = label]
  <1>1. req[t] \in Request /\ Held(req[t], keys) /\ arrived \in 0 .. MaxRequests
    BY DEF IInv, RequestsTypeOK, Holds
  <1>2. /\ q \in Request /\ q.pc = label /\ q.op = req[t].op /\ q.key = req[t].key
        /\ q.caller = req[t].caller /\ q.target = req[t].target /\ q.row = req[t].row
        /\ q.shown = req[t].shown /\ q.late = req[t].late
    BY <1>1 DEF Request
  <1>3. req' = [req EXCEPT ![t] = q]
    BY DEF Goto
  <1> HIDE DEF q
  <1>4. Held(q, keys)
    BY <1>1, <1>2 DEF Held, MayAct
  <1> QED
    BY <1>1, <1>2, <1>3, <1>4, QuietTable

LEMMA ArriveKeeps ==
    ASSUME IInv, NEW t \in Thread, NEW k \in Key, NEW op \in Op, NEW target \in Key \cup {None},
           op # "issue" => target \in Key, Arrive(t, k, op, target)
    PROVE  IInv' /\ KeepsRows
  <1> DEFINE late == Issued(k) /\ keys[k].revoked
             q == [NoRequest EXCEPT !.pc = "auth", !.op = op, !.key = k, !.target = target,
                                    !.late = late]
  <1>1. late \in BOOLEAN /\ (late => keys[k] # None /\ keys[k].revoked)
    BY DEF Issued
  <1>2. req' = [req EXCEPT ![t] = q]
    BY DEF Arrive
  <1> HIDE DEF late
  <1>3. /\ q \in Request /\ q.pc = "auth" /\ q.op = op /\ q.key = k /\ q.target = target
        /\ q.late = late /\ q.shown = {}
    BY <1>1 DEF NoRequest, Request, PC, Op
  <1> HIDE DEF q
  <1>4. Held(q, keys)
    BY <1>1, <1>3 DEF Held
  <1>5. arrived' \in 0 .. MaxRequests /\ UNCHANGED <<keys, revoker>>
    BY RequestsAssumption DEF Arrive, IInv, RequestsTypeOK
  <1> QED
    BY <1>2, <1>3, <1>4, <1>5, QuietTable

LEMMA AuthenticateKeeps ==
    ASSUME IInv, NEW t \in Thread, Authenticate(t)
    PROVE  IInv' /\ KeepsRows
  <1>1. req[t] \in Request /\ Held(req[t], keys) /\ arrived \in 0 .. MaxRequests
        /\ req[t].pc = "auth" /\ UNCHANGED <<keys, arrived, revoker>>
    BY DEF IInv, RequestsTypeOK, Holds, Authenticate, At
  <1>2. CASE Valid(req[t].key)
    <2> DEFINE q == [req[t] EXCEPT !.pc = "mark", !.caller = keys[req[t].key]]
    <2>1. req[t].key \in Key /\ Issued(req[t].key) /\ ~keys[req[t].key].revoked
          /\ ~req[t].late /\ req[t].shown = {}
      BY <1>1, <1>2 DEF Held, Valid
    <2>2. keys[req[t].key] \in KeyRow
      BY <2>1, RowsAreRows
    <2>3. /\ q \in Request /\ q.pc = "mark" /\ q.op = req[t].op /\ q.key = req[t].key
          /\ q.caller = keys[req[t].key] /\ q.target = req[t].target
          /\ q.shown = req[t].shown /\ q.late = req[t].late
      BY <1>1, <2>2 DEF Request, PC
    <2>4. req' = [req EXCEPT ![t] = q]
      BY <1>2 DEF Authenticate
    <2> HIDE DEF q
    <2>5. Held(q, keys)
      BY <1>1, <2>1, <2>2, <2>3 DEF Held, SameKey, Issued
    <2> QED
      BY <1>1, <2>3, <2>4, <2>5, QuietTable
  <1>3. CASE ~Valid(req[t].key)
    BY <1>1, <1>3, AnswerKeeps DEF Authenticate
  <1> QED
    BY <1>2, <1>3

LEMMA RevokeReadKeeps ==
    ASSUME IInv, NEW t \in Thread, RevokeRead(t)
    PROVE  IInv' /\ KeepsRows
  <1> DEFINE x == req[t].target
             row == GetById(x, req[t].caller.tenant)
             new == [row EXCEPT !.revoked = TRUE]
             q == [req[t] EXCEPT !.pc = "save", !.row = new]
  <1>1. req[t] \in Request /\ Held(req[t], keys) /\ arrived \in 0 .. MaxRequests
        /\ req[t].pc = "revoke" /\ UNCHANGED <<keys, arrived, revoker>>
    BY DEF IInv, RequestsTypeOK, Holds, RevokeRead, At
  <1>2. x \in Key
    BY <1>1 DEF Held
  <1>3. CASE row # None /\ MayActFor(t, row.issued_by) /\ ~row.revoked
    <2>1. Issued(x) /\ row = keys[x] /\ row.tenant = req[t].caller.tenant /\ row \in KeyRow
      BY <1>2, <1>3, RowsAreRows DEF GetById
    <2>2. req' = [req EXCEPT ![t] = q]
      BY <1>3 DEF RevokeRead
    <2>3. MayAct(req[t], row.issued_by)
      BY <1>3 DEF MayActFor, MayAct
    <2> HIDE DEF row
    <2>4. /\ new \in KeyRow /\ new.revoked /\ new.tenant = row.tenant
          /\ new.scopes = row.scopes /\ new.issued_by = row.issued_by
      BY <2>1 DEF KeyRow
    <2> HIDE DEF new
    <2>5. /\ q \in Request /\ q.pc = "save" /\ q.op = req[t].op /\ q.key = req[t].key
          /\ q.caller = req[t].caller /\ q.target = req[t].target /\ q.row = new
          /\ q.shown = req[t].shown /\ q.late = req[t].late
      BY <1>1, <2>4 DEF Request, PC
    <2> HIDE DEF q
    <2>6. Held(q, keys)
      BY <1>1, <1>2, <2>1, <2>3, <2>4, <2>5 DEF Held, SameKey, MayAct, Issued
    <2> QED
      BY <1>1, <2>2, <2>5, <2>6, QuietTable
  <1>4. CASE ~(row # None /\ MayActFor(t, row.issued_by) /\ ~row.revoked)
    BY <1>1, <1>4, AnswerKeeps DEF RevokeRead
  <1> QED
    BY <1>3, <1>4

LEMMA ListReadKeeps ==
    ASSUME IInv, NEW t \in Thread, ListRead(t)
    PROVE  IInv' /\ KeepsRows
  <1>1. Held(req[t], keys) /\ req[t].pc = "list" /\ UNCHANGED <<keys, arrived, revoker>>
    BY DEF IInv, Holds, ListRead, At
  <1>2. CASE Answer(t)
    BY <1>1, <1>2, AnswerKeeps
  <1>3. CASE ~Answer(t)
    <2>1. Goto(t, "rows") /\ MayAct(req[t], req[t].target) /\ req[t].op = "list"
      BY <1>1, <1>3 DEF ListRead, MayActFor, MayAct, Held
    <2> QED
      BY <1>1, <2>1, GotoKeeps DEF PC
  <1> QED
    BY <1>2, <1>3

LEMMA ListRowsKeeps ==
    ASSUME IInv, NEW t \in Thread, ListRows(t)
    PROVE  IInv' /\ KeepsRows
  <1> DEFINE rows == {k \in Key : /\ GetById(k, req[t].caller.tenant) # None
                                  /\ keys[k].issued_by = req[t].target}
             q == [req[t] EXCEPT !.pc = "listed", !.shown = rows]
  <1>1. req[t] \in Request /\ Held(req[t], keys) /\ arrived \in 0 .. MaxRequests
        /\ req[t].pc = "rows" /\ UNCHANGED <<keys, arrived, revoker>>
    BY DEF IInv, RequestsTypeOK, Holds, ListRows, At
  <1>2. \A k \in rows : keys[k] # None /\ keys[k].tenant = req[t].caller.tenant
                        /\ keys[k].issued_by = req[t].target
    BY DEF GetById, Issued
  <1>3. rows \in SUBSET Key
    OBVIOUS
  <1>4. req' = [req EXCEPT ![t] = q]
    BY DEF ListRows
  <1> HIDE DEF rows
  <1>5. /\ q \in Request /\ q.pc = "listed" /\ q.op = req[t].op /\ q.key = req[t].key
        /\ q.caller = req[t].caller /\ q.target = req[t].target
        /\ q.shown = rows /\ q.late = req[t].late
    BY <1>1, <1>3 DEF Request, PC
  <1> HIDE DEF q
  <1>6. Held(q, keys)
    BY <1>1, <1>2, <1>5 DEF Held, MayAct
  <1> QED
    BY <1>1, <1>4, <1>5, <1>6, QuietTable

\* A key is new: nobody holds its row, and its issuer is what the caller was.
LEMMA NewRow ==
    ASSUME IInv, NEW k \in Key, ~Issued(k), NEW row \in KeyRow, Save(k, row),
           ~row.revoked, req' \in [Thread -> Request], KeepsRows => Holds',
           UNCHANGED <<arrived, revoker>>,
           row.issued_by # None =>
               /\ row.issued_by \in Key /\ Issued(row.issued_by)
               /\ keys[row.issued_by].issued_by = None
               /\ MayManage(keys[row.issued_by])
               /\ keys[row.issued_by].tenant = row.tenant
               /\ row.scopes = {}
    PROVE  IInv' /\ KeepsRows
  <1>1. keys \in [Key -> KeyRow \cup {None}]
    BY DEF IInv, RequestsTypeOK
  <1>2. keys' = [keys EXCEPT ![k] = row]
    BY <1>1 DEF Save, Issued
  <1>3. keys'[k] = row /\ row # None /\ \A j \in Key \ {k} : keys'[j] = keys[j]
    BY <1>1, <1>2, RowAssumption
  <1>4. KeepsRows
    BY <1>3, RowsAreRows DEF KeepsRows
  <1>5. RequestsTypeOK'
    BY <1>1, <1>2 DEF IInv, RequestsTypeOK
  <1>6. OneLevel'
    <2> SUFFICES ASSUME NEW j \in Key, keys'[j] # None, keys'[j].issued_by # None
                 PROVE  /\ keys'[keys'[j].issued_by] # None
                        /\ keys'[keys'[j].issued_by].issued_by = None
                        /\ MayManage(keys'[keys'[j].issued_by])
                        /\ keys'[keys'[j].issued_by].tenant = keys'[j].tenant
                        /\ keys'[j].scopes = {}
      BY DEF OneLevel, Issued, MayManage
    <2>1. CASE j = k
      BY <1>3, <2>1 DEF Issued
    <2>2. CASE j # k
      <3>1. keys[j].issued_by \in Key
        BY <1>3, <2>2, RowsAreRows DEF Issued
      <3> QED
        BY <1>3, <2>2, <3>1 DEF IInv, OneLevel, Issued
    <2> QED
      BY <2>1, <2>2
  <1>7. RightfullyRevoked'
    BY <1>3 DEF IInv, RightfullyRevoked, Issued
  <1> QED
    BY <1>4, <1>5, <1>6, <1>7 DEF IInv

LEMMA IssueKeeps ==
    ASSUME IInv, NEW t \in Thread, NEW k \in Key, Issue(t, k)
    PROVE  IInv' /\ KeepsRows
  <1> DEFINE caller == req[t].caller
             row == IssueChild(req[t].key, caller)
  <1>1. req[t] \in Request /\ Held(req[t], keys) /\ req[t].pc = "issue"
    BY DEF IInv, RequestsTypeOK, Holds, Issue, At
  <1>2. req[t].key \in Key /\ SameKey(keys, req[t].key, caller) /\ MayManage(caller)
    BY <1>1 DEF Held, Issue
  <1>3. caller.tenant \in Tenant
    BY <1>2 DEF SameKey, KeyRow
  <1>4. /\ row \in KeyRow /\ row.issued_by = req[t].key /\ row.tenant = caller.tenant
        /\ row.scopes = {} /\ ~row.revoked
    BY <1>2, <1>3 DEF IssueChild, NewKey, KeyRow
  <1>5. Issued(req[t].key) /\ MayManage(keys[req[t].key])
        /\ keys[req[t].key].tenant = caller.tenant
    BY <1>2 DEF SameKey, Issued, MayManage
  <1>6. keys[req[t].key].issued_by = None
    BY <1>2, <1>5 DEF IInv, OneLevel, MayManage
  <1>7. Save(k, row) /\ ~Issued(k) /\ UNCHANGED <<arrived, revoker>>
        /\ req' = [req EXCEPT ![t] = NoRequest]
    BY DEF Issue, Answer
  <1>8. req' \in [Thread -> Request]
    BY <1>7, NoRequestHeld DEF IInv, RequestsTypeOK
  <1>9. KeepsRows => Holds'
    BY <1>7, NoRequestHeld, RequestStep
  <1> HIDE DEF row, caller
  <1> QED
    BY <1>2, <1>4, <1>5, <1>6, <1>7, <1>8, <1>9, NewRow

LEMMA BootstrapKeeps ==
    ASSUME IInv, NEW k \in Key, NEW n \in Tenant, NEW s \in SUBSET Scope, Bootstrap(k, n, s)
    PROVE  IInv' /\ KeepsRows
  <1> DEFINE row == NewKey(n, s, None)
  <1>1. row \in KeyRow /\ row.issued_by = None /\ ~row.revoked
    BY DEF NewKey, KeyRow
  <1>2. Save(k, row) /\ ~Issued(k) /\ UNCHANGED <<req, arrived, revoker>>
    BY DEF Bootstrap
  <1>3. req' \in [Thread -> Request]
    BY <1>2 DEF IInv, RequestsTypeOK
  <1>4. KeepsRows => Holds'
    <2>1. req \in [Thread -> Request] /\ \A u \in Thread : Held(req[u], keys)
      BY DEF IInv, RequestsTypeOK, Holds
    <2> QED
      BY <1>2, <2>1, HeldStays DEF Holds
  <1> HIDE DEF row
  <1> QED
    BY <1>1, <1>2, <1>3, <1>4, NewRow

\* The saved row is stale in nothing but the revocation it brings.
LEMMA RevokeSaveKeeps ==
    ASSUME IInv, NEW t \in Thread, RevokeSave(t)
    PROVE  IInv' /\ KeepsRows
  <1> DEFINE x == req[t].target
             old == keys[x]
             row == req[t].row
             new == [old EXCEPT !.revoked = row.revoked, !.scopes = row.scopes]
             by == [key |-> req[t].key, row |-> req[t].caller]
  <1>1. req[t] \in Request /\ Held(req[t], keys) /\ req[t].pc = "save"
        /\ keys \in [Key -> KeyRow \cup {None}]
        /\ revoker \in [Key -> [key : Key, row : KeyRow] \cup {None}]
    BY DEF IInv, RequestsTypeOK, Holds, RevokeSave, At
  <1>2. /\ x \in Key /\ req[t].key \in Key /\ SameKey(keys, x, row) /\ row.revoked
        /\ row.tenant = req[t].caller.tenant /\ MayAct(req[t], row.issued_by)
        /\ SameKey(keys, req[t].key, req[t].caller)
    BY <1>1 DEF Held
  <1>3. old \in KeyRow /\ old # None /\ old.tenant = row.tenant /\ row \in KeyRow
        /\ old.issued_by = row.issued_by /\ old.scopes = row.scopes
    BY <1>2, RowsAreRows DEF SameKey, Issued
  <1>4. Save(x, row) /\ revoker' = [revoker EXCEPT ![x] = by] /\ arrived' = arrived
        /\ req' = [req EXCEPT ![t] = NoRequest]
    BY DEF RevokeSave, Answer
  <1>5. keys' = [keys EXCEPT ![x] = new]
    BY <1>1, <1>2, <1>3, <1>4 DEF Save
  <1>6. row.scopes \in SUBSET Scope
    BY <1>3 DEF KeyRow
  <1>7. by \in [key : Key, row : KeyRow] /\ by.key = req[t].key /\ by.row = req[t].caller
        /\ by # None
    BY <1>2, RowAssumption DEF SameKey
  <1> HIDE DEF old, row, x
  <1>8. /\ new \in KeyRow /\ new.revoked /\ new.tenant = old.tenant
        /\ new.issued_by = old.issued_by /\ new.scopes = old.scopes
    BY <1>2, <1>3, <1>6 DEF KeyRow
  <1> HIDE DEF new, by
  <1>9. keys'[x] = new /\ keys[x] = old /\ new # None
        /\ \A j \in Key \ {x} : keys'[j] = keys[j]
    BY <1>1, <1>2, <1>5, <1>8, RowAssumption DEF old
  <1>10. KeepsRows
    BY <1>8, <1>9, RowsAreRows DEF KeepsRows
  <1>11. Holds' /\ req' \in [Thread -> Request]
    BY <1>4, <1>10, NoRequestHeld, RequestStep
  <1>12. RequestsTypeOK'
    BY <1>1, <1>4, <1>5, <1>7, <1>8, <1>11 DEF IInv, RequestsTypeOK
  <1>13. \A j \in Key : /\ keys'[j] # None <=> keys[j] # None
                        /\ keys[j] # None => /\ keys'[j].tenant = keys[j].tenant
                                             /\ keys'[j].scopes = keys[j].scopes
                                             /\ keys'[j].issued_by = keys[j].issued_by
    BY <1>3, <1>8, <1>9
  <1>14. OneLevel'
    <2> SUFFICES ASSUME NEW j \in Key, keys'[j] # None, keys'[j].issued_by # None
                 PROVE  /\ keys'[keys'[j].issued_by] # None
                        /\ keys'[keys'[j].issued_by].issued_by = None
                        /\ MayManage(keys'[keys'[j].issued_by])
                        /\ keys'[keys'[j].issued_by].tenant = keys'[j].tenant
                        /\ keys'[j].scopes = {}
      BY DEF OneLevel, Issued, MayManage
    <2> DEFINE i == keys[j].issued_by
    <2>1. i \in Key /\ keys[j] # None /\ keys'[j].issued_by = i
      BY <1>13, RowsAreRows DEF Issued
    <2>2. /\ keys[i] # None /\ keys[i].issued_by = None /\ MayManage(keys[i])
          /\ keys[i].tenant = keys[j].tenant /\ keys[j].scopes = {}
      BY <2>1 DEF IInv, OneLevel, Issued
    <2> HIDE DEF i
    <2> QED
      BY <1>13, <2>1, <2>2 DEF MayManage
  <1>15. RightfullyRevoked'
    <2> SUFFICES ASSUME NEW j \in Key, keys'[j] # None, keys'[j].revoked
                 PROVE  /\ revoker'[j] # None
                        /\ revoker'[j].row.tenant = keys'[j].tenant
                        /\ MayManage(revoker'[j].row) \/ revoker'[j].key = keys'[j].issued_by
      BY DEF RightfullyRevoked, Issued, MayManage
    <2>1. CASE j = x
      BY <1>1, <1>2, <1>3, <1>4, <1>7, <1>8, <1>9, <2>1 DEF MayAct
    <2>2. CASE j # x
      BY <1>1, <1>4, <1>9, <2>2 DEF IInv, RightfullyRevoked, Issued
    <2> QED
      BY <2>1, <2>2
  <1> QED
    BY <1>10, <1>11, <1>12, <1>14, <1>15 DEF IInv
-----------------------------------------------------------------------------
LEMMA InitIInv == Init => IInv
  <1> SUFFICES ASSUME Init PROVE IInv
    OBVIOUS
  <1>1. RequestsTypeOK
    BY NoRequestHeld, RequestsAssumption DEF Init, RequestsTypeOK
  <1>2. Holds
    BY NoRequestHeld DEF Init, Holds
  <1> QED
    BY <1>1, <1>2 DEF Init, IInv, OneLevel, RightfullyRevoked, Issued

\* A step of a request.
LEMMA StepKeeps ==
    ASSUME IInv, NEW t \in Thread, Step(t)
    PROVE  IInv' /\ KeepsRows
  <1>1. Held(req[t], keys) /\ req[t] \in Request
    BY DEF IInv, Holds, RequestsTypeOK
  <1>2. CASE MarkUsed(t)
    BY <1>2, GotoKeeps DEF MarkUsed, At, PC
  <1>3. CASE LimitRead(t)
    BY <1>3, GotoKeeps DEF LimitRead, At, PC
  <1>4. CASE LimitPass(t)
    <2>1. req[t].op \in {"issue", "revoke", "list"}
      BY <1>1 DEF Request, Op
    <2> QED
      BY <1>4, <2>1, GotoKeeps DEF LimitPass, At, PC
  <1>5. CASE LimitRefuse(t) \/ IssueDenied(t) \/ Listed(t)
    BY <1>5, AnswerKeeps DEF LimitRefuse, IssueDenied, Listed
  <1> QED
    BY <1>2, <1>3, <1>4, <1>5, AuthenticateKeeps, IssueKeeps, RevokeReadKeeps, RevokeSaveKeeps,
       ListReadKeeps, ListRowsKeeps DEF Step

LEMMA NextKeeps == IInv /\ [Next]_vars => IInv' /\ KeepsRows
  <1> SUFFICES ASSUME IInv, [Next]_vars PROVE IInv' /\ KeepsRows
    OBVIOUS
  <1>1. CASE UNCHANGED <<keys, req, arrived, revoker>>
    BY <1>1, RowsAreRows
       DEF KeepsRows, IInv, RequestsTypeOK, Holds, OneLevel, RightfullyRevoked, Issued
  <1>2. ASSUME NEW t \in Thread, NEW k \in Key, Arrive(t, k, "issue", None)
        PROVE  IInv' /\ KeepsRows
    BY <1>2, ArriveKeeps DEF Op
  <1>3. ASSUME NEW t \in Thread, NEW k \in Key, NEW x \in Key, NEW op \in {"revoke", "list"},
               Arrive(t, k, op, x)
        PROVE  IInv' /\ KeepsRows
    BY <1>3, ArriveKeeps DEF Op
  <1> QED
    BY <1>1, <1>2, <1>3, StepKeeps, BootstrapKeeps DEF Next, vars

LEMMA Invariance == Spec => []IInv
  <1>1. IInv /\ [Next]_vars => IInv'
    BY NextKeeps
  <1> QED
    BY <1>1, InitIInv, PTL DEF Spec

\* For every number of threads, keys and tenants: no write of a row that was read
\* before its key was revoked brings the key back.
THEOREM RevocationIsFinal == Spec => RevocationStands
  <1>1. IInv /\ [Next]_vars =>
            [\A k \in Key : Issued(k) /\ keys[k].revoked => keys'[k].revoked]_vars
    BY NextKeeps DEF KeepsRows
  <1> QED
    BY <1>1, Invariance, PTL DEF Spec, RevocationStands

\* A request that arrives with a key revoked before it never passes
\* authentication, however the other requests interleave.
THEOREM RevokedKeysShutOut == Spec => []RevokedKeyShutOut
  <1>1. IInv => RevokedKeyShutOut
    BY DEF IInv, Holds, Held, RevokedKeyShutOut, At
  <1> QED
    BY <1>1, Invariance, PTL

\* Issuance, revocation and listing stay within the tenant and the rights of the
\* caller, although each request decides on rows it read some steps before.
THEOREM TenantsAreWalled == Spec => []TenantWalled
  <1>1. IInv => TenantWalled
    <2> SUFFICES ASSUME IInv PROVE TenantWalled
      OBVIOUS
    <2>1. \A t \in Thread : \A k \in req[t].shown :
              /\ keys[k].tenant = req[t].caller.tenant
              /\ MayManage(req[t].caller) \/ req[t].key = keys[k].issued_by
      BY DEF IInv, Holds, Held, MayAct
    <2> QED
      BY <2>1 DEF IInv, OneLevel, RightfullyRevoked, TenantWalled, Issued
  <1> QED
    BY <1>1, Invariance, PTL

\* To the buckets, all requests together are threads that read the clock and
\* reach the lock.
THEOREM RequestsUseTheLimiter == Spec => LimiterSpec
  <1>1. Init => LimiterInit
    BY DEF Init
  <1>2. IInv /\ [Next]_vars => [LimiterNext]_limiterVars
    <2> SUFFICES ASSUME IInv, [Next]_vars PROVE [LimiterNext]_limiterVars
      OBVIOUS
    <2>1. ASSUME NEW t \in Thread, LimitRead(t) PROVE LimiterNext
      <3>1. req[t].key \in Key
        BY <2>1 DEF IInv, Holds, Held, LimitRead, At
      <3> QED
        BY <2>1, <3>1 DEF LimitRead, LimiterNext
    <2>2. ASSUME NEW t \in Thread, LimitPass(t) \/ LimitRefuse(t) PROVE LimiterNext
      BY <2>2 DEF LimitPass, LimitRefuse, LimiterNext
    <2>3. ASSUME NEW t \in Thread, Step(t) PROVE LimiterNext \/ UNCHANGED limiterVars
      BY <2>1, <2>2, <2>3 DEF Step, Authenticate, MarkUsed, Issue, IssueDenied, RevokeRead,
                              RevokeSave, ListRead, ListRows, Listed
    <2>4. CASE UNCHANGED vars
      BY <2>4 DEF vars
    <2> QED
      BY <2>3, <2>4 DEF Next, Arrive, Bootstrap, LimiterNext
  <1> QED
    BY <1>1, <1>2, Invariance, PTL DEF Spec, LimiterSpec

\* So the bound on every window holds of the service with all its requests.
THEOREM RateIsBounded == Spec => []WindowBound
  BY RequestsUseTheLimiter, LimiterRateIsBounded, PTL
=============================================================================
