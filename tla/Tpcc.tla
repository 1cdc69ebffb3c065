-------------------------------- MODULE Tpcc ---------------------------------
(***************************************************************************)
(* The TPC-C driver (tpcc/src): loading, and a single-threaded loop that    *)
(* takes the next kind of transaction from SeqGen, runs it in a             *)
(* DBTransaction, retries it with new arguments when it fails, and records  *)
(* its response time.  A table is a function from its primary key; money is *)
(* in whole units; strings that nothing depends on are left out.            *)
(***************************************************************************)
EXTENDS Integers, FiniteSets, Sequences, FiniteSetsExt, SequencesExt

CONSTANTS
    NumWare,        \* warehouses (--num-ware)
    DistPerWare,    \* DIST_PER_WARE
    CustPerDist,    \* CUST_PER_DIST, and ORD_PER_DIST
    Delivered,      \* orders up to this one are loaded as delivered (2100)
    MaxItems,       \* MAX_ITEMS
    Named,          \* customers up to this one get a name of their own (1000)
    FirstName,      \* FirstName[c]: the place of c_first in the alphabet
    LoadCnt,        \* lines of a loaded order
    Quantity,       \* s_quantity as loaded
    Workloads,      \* what is drawn at random: see Draws
    MaxRetry,       \* --max-retry
    MaxRec,         \* last cell of a response time histogram
    CkpEvery,       \* rounds between two checkpoints (100)
    MaxRounds,      \* bound: rounds until the time is over
    Null

Kind == 0..4        \* New-Order, Payment, Order-Status, Delivery, Stock-Level
Ware == 1..NumWare
Dist == 1..DistPerWare
Cust == 1..CustPerDist
Item == 1..MaxItems
NotFound == MaxItems + 1

ASSUME TpccAssumption ==
    /\ {NumWare, CustPerDist, MaxItems, Quantity} \subseteq Nat \ {0}
    /\ DistPerWare > 1 /\ CustPerDist > 2
    /\ FirstName \in [Cust -> Nat]

VARIABLES
    pc,         \* where the driver is
    db,         \* the committed tables
    tx,         \* the tables as the open transaction sees them
    kind,       \* the transaction of this round
    attempt,    \* retries of it so far
    gen,        \* SeqGen: the mix, the sequence and the next place in it
    work,       \* the draws of this behaviour
    done,       \* done[k]: transactions that succeeded, in time or late
    hist,       \* RtHist: total, cur and the two maxima, by kind
    rounds,     \* round_count
    paid        \* ghost: what each customer paid in committed payments

vars == <<pc, db, tx, kind, attempt, gen, work, done, hist, rounds, paid>>

-----------------------------------------------------------------------------
(* Loading.                                                                 *)

(* Every place but the first is drawn from the later ones, and a place that *)
(* is drawn twice keeps the second number: not a permutation.               *)
init_permutation ==
    LET N == CustPerDist
        Slots(i) == IF i + 1 >= N - 1 THEN {i + 1} ELSE (i + 1)..(N - 2)
        draw[i \in 0..N - 1] ==
            IF i = 0 THEN {[n \in 0..N - 1 |-> n + 1]}
            ELSE UNION {{[f EXCEPT ![j] = i] : j \in Slots(i - 1)} : f \in draw[i - 1]}
    IN  {[o \in Cust |-> f[o - 1]] : f \in draw[N - 1]}

load_warehouses == [w \in Ware |-> [ytd |-> 3000000]]

stock == [k \in Ware \X Item |-> Quantity]

district == [k \in Ware \X Dist |-> [ytd |-> 30000, next_o_id |-> CustPerDist + 1]]

(* The customers from Named on share the names of the others.               *)
load_customers(last) ==
    [k \in Ware \X Dist \X Cust |->
        [balance |-> -10, delivery_cnt |-> 0,
         last |-> IF k[3] <= Named THEN k[3] ELSE last]]

load_history ==
    [k \in {<<c, d, w, d, w>> : c \in Cust, d \in Dist, w \in Ware} |-> 10]

load_orders(nums) ==
    [orders |-> [k \in Ware \X Dist \X Cust |->
        [c_id |-> nums[k[3]], ol_cnt |-> LoadCnt,
         carrier |-> IF k[3] > Delivered THEN Null ELSE "carrier"]],
     new_orders |-> {k \in Ware \X Dist \X Cust : k[3] > Delivered},
     order_line |-> [k \in Ware \X Dist \X Cust \X (1..LoadCnt) |->
        [i_id |-> 1, supply |-> k[1], quantity |-> 4,
         amount |-> IF k[3] > Delivered THEN 0 ELSE 50,
         delivered |-> k[3] <= Delivered]]]

Loaded(last, nums) ==
    load_orders(nums) @@
    [warehouse |-> load_warehouses, stock |-> stock,
     district |-> district, customer |-> load_customers(last), history |-> load_history]

-----------------------------------------------------------------------------
(* SeqGen: the mix gives how often each kind occurs in a block.  The first  *)
(* block is what the vector is made of: zeros.                              *)
Total(mix) == FoldFunction(+, 0, mix)

SeqGenNew(mix) == [mix |-> mix, seq |-> [i \in 1..Total(mix) |-> 0], next |-> 0]

shuffle(mix) ==
    {s \in [1..Total(mix) -> Kind] :
        \A k \in Kind : Cardinality({i \in DOMAIN s : s[i] = k}) = mix[k]}

get(g) ==
    IF g.next >= Len(g.seq)
    THEN {[g EXCEPT !.seq = s, !.next = 1] : s \in shuffle(g.mix)}
    ELSE {[g EXCEPT !.next = @ + 1]}

-----------------------------------------------------------------------------
(* RtHist.                                                                  *)
RtHistNew ==
    [total |-> [k \in Kind |-> [i \in 0..MaxRec |-> 0]],
     cur |-> [k \in Kind |-> [i \in 0..MaxRec |-> 0]],
     max |-> [k \in Kind |-> 0], cur_max |-> [k \in Kind |-> 0]]

hist_inc(h, k, rt) ==
    [h EXCEPT !.cur[k][IF rt >= MaxRec THEN MaxRec ELSE rt] = @ + 1,
              !.cur_max[k] = IF rt > @ THEN rt ELSE @]

(* Mutant of hist_ckp: all kinds are cleared, only one is added.            *)
hist_ckpClears(h, k) ==
    [total |-> [h.total EXCEPT ![k] = [i \in 0..MaxRec |-> @[i] + h.cur[k][i]]],
     cur |-> [j \in Kind |-> [i \in 0..MaxRec |-> 0]],
     max |-> [j \in Kind |-> IF h.cur_max[j] > h.max[j] THEN h.cur_max[j] ELSE h.max[j]],
     cur_max |-> [j \in Kind |-> 0]]

hist_ckp(h, k) ==
    [total |-> [h.total EXCEPT ![k] = [i \in 0..MaxRec |-> @[i] + h.cur[k][i]]],
     cur |-> [h.cur EXCEPT ![k] = [i \in 0..MaxRec |-> 0]],
     max |-> [j \in Kind |-> IF h.cur_max[j] > h.max[j] THEN h.cur_max[j] ELSE h.max[j]],
     cur_max |-> [j \in Kind |-> 0]]

-----------------------------------------------------------------------------
(* The draws of a transaction.  gen_range(1..DIST_PER_WARE) leaves the last *)
(* district out, and other_ware the last warehouse: with two of them, the   *)
(* first finds no other and draws forever.                                  *)
DrawnDist == 1..(DistPerWare - 1)

other_ware(home) == IF NumWare = 1 THEN {home} ELSE (1..(NumWare - 1)) \ {home}

Supplier(w, remote) == IF remote THEN other_ware(w) ELSE {w}

-----------------------------------------------------------------------------
(* The transactions: what the statements do to the tables t, and whether    *)
(* the transaction ends in an error.                                        *)
Row(k, r) == [x \in {k} |-> r]

(* The selection sort of the lines by supplier and item.                    *)
ol_num_seq(lines) ==
    LET n == Len(lines)
        key(x) == (MaxItems + 1) * x.supply + x.item
        least(s, i) == Min({j \in i..n : \A m \in i..n : key(s[j]) <= key(s[m])})
        swap(s, i, j) == [s EXCEPT ![i] = s[j], ![j] = s[i]]
        pass[i \in 0..n - 1] ==
            IF i = 0 THEN lines ELSE swap(pass[i - 1], i, least(pass[i - 1], i))
    IN  pass[n - 1]

Restock(s, q) == IF s > q THEN s - q ELSE s - q + 91

(* One order line.  An item that does not exist ends the transaction.  The  *)
(* amount is divided by ten until its mantissa is at most 4, which the      *)
(* 28 digits a decimal has leave room for: rounded to cents it is zero.     *)
OrderLine(acc, w, d, o, x) ==
    IF ~acc.ok \/ x.item \notin Item THEN [acc EXCEPT !.ok = FALSE]
    ELSE [acc EXCEPT
            !.n = @ + 1,
            !.t.stock[<<x.supply, x.item>>] = Restock(@, x.qty),
            !.t.order_line = Row(<<w, d, o, acc.n>>,
                [i_id |-> x.item, supply |-> x.supply, quantity |-> x.qty,
                 amount |-> 0, delivered |-> FALSE]) @@ @]

NewOrd(t, w, d, c, lines) ==
    LET o == t.district[<<w, d>>].next_o_id
        begun == [t EXCEPT
            !.district[<<w, d>>].next_o_id = o + 1,
            !.orders = Row(<<w, d, o>>, [c_id |-> c, ol_cnt |-> Len(lines), carrier |-> Null]) @@ @,
            !.new_orders = @ \cup {<<w, d, o>>}]
    IN  FoldLeft(LAMBDA acc, x : OrderLine(acc, w, d, o, x),
                 [t |-> begun, n |-> 1, ok |-> TRUE], ol_num_seq(lines))

(* The customers of a district with a last name, by first name.             *)
ByName(t, w, d, last) ==
    SetToSortSeq({c \in Cust : t.customer[<<w, d, c>>].last = last},
                 LAMBDA a, b : FirstName[a] < FirstName[b])

(* The customer in the middle of those with the name, if there is one.      *)
PaymentCustomer(t, w, d, c, last) ==
    LET named == ByName(t, w, d, last)
    IN  IF last = Null \/ named = <<>> THEN c ELSE named[(Len(named) + 1) \div 2]

(* Mutant of Payment: the balance is set, not added to.                     *)
PaymentSetsBalance(t, w, d, cw, cd, c, amount) ==
    [t EXCEPT
        !.warehouse[w].ytd = @ + amount,
        !.district[<<w, d>>].ytd = @ + amount,
        !.customer[<<cw, cd, c>>].balance = amount - 10,
        !.history = Row(<<c, cd, cw, d, w>>, amount) @@ @]

Payment(t, w, d, cw, cd, c, amount) ==
    [t EXCEPT
        !.warehouse[w].ytd = @ + amount,
        !.district[<<w, d>>].ytd = @ + amount,
        !.customer[<<cw, cd, c>>].balance = @ + amount,
        !.history = Row(<<c, cd, cw, d, w>>, amount) @@ @]

(* The last order of a customer; there may be none.                         *)
OrdersOf(t, w, d, c) == {k \in DOMAIN t.orders : k[1] = w /\ k[2] = d /\ t.orders[k].c_id = c}

OrderStat(t, w, d, c) == OrdersOf(t, w, d, c) # {}

LinesOf(t, w, d, o) == {k \in DOMAIN t.order_line : k[1] = w /\ k[2] = d /\ k[3] = o}

(* Mutant of DeliverDistrict: the newest order is delivered.                *)
DeliverDistrictNewest(t, w, d) ==
    LET waiting == {k \in t.new_orders : k[1] = w /\ k[2] = d}
        o == Max({k[3] : k \in waiting})
        lines == LinesOf(t, w, d, o)
    IN  IF waiting = {} THEN t
        ELSE [t EXCEPT
            !.new_orders = @ \ {<<w, d, o>>},
            !.orders[<<w, d, o>>].carrier = "carrier",
            !.order_line = [k \in DOMAIN @ |->
                IF k \in lines THEN [@[k] EXCEPT !.delivered = TRUE] ELSE @[k]],
            !.customer[<<w, d, t.orders[<<w, d, o>>].c_id>>] =
                [@ EXCEPT !.balance = @ + MapThenSumSet(LAMBDA k : t.order_line[k].amount, lines),
                          !.delivery_cnt = @ + 1]]

(* The oldest order of a district that waits for delivery, if there is one. *)
DeliverDistrict(t, w, d) ==
    LET waiting == {k \in t.new_orders : k[1] = w /\ k[2] = d}
        o == Min({k[3] : k \in waiting})
        lines == LinesOf(t, w, d, o)
    IN  IF waiting = {} THEN t
        ELSE [t EXCEPT
            !.new_orders = @ \ {<<w, d, o>>},
            !.orders[<<w, d, o>>].carrier = "carrier",
            !.order_line = [k \in DOMAIN @ |->
                IF k \in lines THEN [@[k] EXCEPT !.delivered = TRUE] ELSE @[k]],
            !.customer[<<w, d, t.orders[<<w, d, o>>].c_id>>] =
                [@ EXCEPT !.balance = @ + MapThenSumSet(LAMBDA k : t.order_line[k].amount, lines),
                          !.delivery_cnt = @ + 1]]

Delivery(t, w) ==
    LET after[d \in 0..DistPerWare] == IF d = 0 THEN t ELSE DeliverDistrict(after[d - 1], w, d)
    IN  after[DistPerWare]

(* The items of the last 20 orders, of which the first one is looked up.    *)
Slev(t, w, d) ==
    LET next == t.district[<<w, d>>].next_o_id
    IN  {t.order_line[k].i_id : k \in {l \in DOMAIN t.order_line :
            l[1] = w /\ l[2] = d /\ l[3] < next /\ l[3] >= next - 20}}

-----------------------------------------------------------------------------
Empty == [orders |-> <<>>]

Init ==
    /\ pc = "load" /\ db = Empty /\ tx = Null
    /\ kind = Null /\ attempt = 0
    /\ work \in Workloads /\ gen = SeqGenNew(work.mix)
    /\ done = [k \in Kind |-> 0] /\ hist = RtHistNew /\ rounds = 0
    /\ paid = [k \in Ware \X Dist \X Cust |-> 0]

Load ==
    /\ pc = "load"
    /\ \E last \in 1..Named, nums \in init_permutation : db' = Loaded(last, nums)
    /\ pc' = "loop"
    /\ UNCHANGED <<tx, kind, attempt, gen, work, done, hist, rounds, paid>>

(* The next kind, and the transaction for the first attempt at it.          *)
NextRound ==
    /\ pc = "loop" /\ rounds < MaxRounds
    /\ gen' \in get(gen)
    /\ kind' = gen'.seq[gen'.next]
    /\ attempt' = 0 /\ tx' = db /\ pc' = "run"
    /\ UNCHANGED <<db, work, done, hist, rounds, paid>>

Ran(ok) ==
    /\ pc' = IF ok THEN "ok" ELSE "error"
    /\ UNCHANGED <<db, kind, attempt, gen, work, done, hist, rounds>>

(* other_ware draws forever.                                                *)
Spin(w) ==
    /\ other_ware(w) = {} /\ pc' = "spin"
    /\ UNCHANGED <<db, tx, kind, attempt, gen, work, done, hist, rounds, paid>>

DoNewOrd ==
    /\ pc = "run" /\ kind = 0
    /\ \E w \in Ware, d \in DrawnDist, c \in work.custs, L \in work.orders :
        \/ /\ \E i \in DOMAIN L : L[i].remote
           /\ Spin(w)
        \/ \E supply \in [DOMAIN L -> Ware] :
            /\ \A i \in DOMAIN L : supply[i] \in Supplier(w, L[i].remote)
            /\ LET r == NewOrd(tx, w, d, c, [i \in DOMAIN L |->
                            [item |-> L[i].item, supply |-> supply[i], qty |-> L[i].qty]])
               IN  tx' = r.t /\ Ran(r.ok)
            /\ UNCHANGED paid

(* The payment is booked in the ghost when it is made: a Payment does not   *)
(* fail once it has begun.                                                  *)
DoPayment ==
    /\ pc = "run" /\ kind = 1
    /\ \E w \in Ware, d \in DrawnDist, c \in work.custs,
          last \in work.names \cup {Null}, amount \in work.amounts :
        \/ Spin(w)
        \/ \E r \in BOOLEAN : \E cw \in Supplier(w, r), cd \in IF r THEN DrawnDist ELSE {d} :
            LET who == PaymentCustomer(tx, cw, cd, c, last)
            IN  /\ tx' = Payment(tx, w, d, cw, cd, who, amount)
                /\ paid' = [paid EXCEPT ![<<cw, cd, who>>] = @ + amount]
                /\ Ran(TRUE)

DoOrderStat ==
    /\ pc = "run" /\ kind = 2
    /\ \E w \in Ware, d \in DrawnDist, c \in work.custs : Ran(OrderStat(tx, w, d, c))
    /\ UNCHANGED <<tx, paid>>

DoDelivery ==
    /\ pc = "run" /\ kind = 3
    /\ \E w \in Ware : tx' = Delivery(tx, w)
    /\ Ran(TRUE)
    /\ UNCHANGED paid

DoSlev ==
    /\ pc = "run" /\ kind = 4
    /\ \E w \in Ware, d \in DrawnDist : Slev(tx, w, d) # {}
    /\ Ran(TRUE)
    /\ UNCHANGED <<tx, paid>>

(* The response time is recorded, the transaction committed and, in some    *)
(* rounds, the histogram of its kind closed.                                *)
Succeed ==
    /\ pc = "ok"
    /\ \E rt \in work.rts :
        LET h == hist_inc(hist, kind, rt)
        IN  hist' = IF rounds # 0 /\ rounds % CkpEvery = 0 THEN hist_ckp(h, kind) ELSE h
    /\ done' = [done EXCEPT ![kind] = @ + 1]
    /\ db' = tx /\ tx' = Null
    /\ rounds' = rounds + 1
    /\ pc' = "loop"
    /\ UNCHANGED <<kind, attempt, gen, work, paid>>

(* Mutant of Fail: retries are not counted.                                 *)
FailForever ==
    /\ pc = "error"
    /\ tx' = db /\ pc' = "run"
    /\ UNCHANGED <<db, kind, attempt, gen, work, done, hist, rounds, paid>>

(* The transaction is dropped; the next attempt draws anew.                 *)
Fail ==
    /\ pc = "error"
    /\ IF attempt < MaxRetry
       THEN attempt' = attempt + 1 /\ tx' = db /\ pc' = "run"
       ELSE tx' = Null /\ pc' = "MaxRetry" /\ UNCHANGED attempt
    /\ UNCHANGED <<db, kind, gen, work, done, hist, rounds, paid>>

(* The measuring time is over.                                              *)
Stop ==
    /\ pc = "loop" /\ pc' = "report"
    /\ UNCHANGED <<db, tx, kind, attempt, gen, work, done, hist, rounds, paid>>

Ended == pc \in {"report", "MaxRetry", "spin"} /\ UNCHANGED vars

Next ==
    \/ Load \/ NextRound \/ Succeed \/ Fail \/ Stop \/ Ended
    \/ DoNewOrd \/ DoPayment \/ DoOrderStat \/ DoDelivery \/ DoSlev

(* The driver's thread goes on inside a round: a step is enabled there and  *)
(* every step changes pc, so this is weak fairness of Next.                 *)
Fairness == \A p \in {"run", "ok", "error"} : []<>(pc # p)

Spec == Init /\ [][Next]_vars /\ Fairness

-----------------------------------------------------------------------------
IsLoaded == pc # "load"

(* The orders of a district are numbered without gaps up to d_next_o_id,    *)
(* and an order has exactly the lines 1..o_ol_cnt.                          *)
OrdersMatchLines ==
    /\ \A w \in Ware, d \in Dist :
        {k[3] : k \in {x \in DOMAIN db.orders : x[1] = w /\ x[2] = d}}
            = 1..(db.district[<<w, d>>].next_o_id - 1)
    /\ \A k \in DOMAIN db.order_line :
        LET o == SubSeq(k, 1, 3)
        IN  o \in DOMAIN db.orders /\ k[4] \in 1..db.orders[o].ol_cnt
    /\ \A k \in DOMAIN db.orders :
        Cardinality(LinesOf(db, k[1], k[2], k[3])) = db.orders[k].ol_cnt

(* An order waits in new_orders exactly as long as it has no carrier and    *)
(* its lines no delivery date, and the waiting orders are the newest ones.  *)
WaitingOrdersAreNewest ==
    /\ \A k \in DOMAIN db.orders :
        /\ (k \in db.new_orders) = (db.orders[k].carrier = Null)
        /\ \A l \in LinesOf(db, k[1], k[2], k[3]) :
            db.order_line[l].delivered = (db.orders[k].carrier # Null)
    /\ \A k \in db.new_orders, l \in DOMAIN db.orders :
        (k[1] = l[1] /\ k[2] = l[2] /\ l[3] > k[3]) => l \in db.new_orders

(* Whatever sequence of transactions commits, fails or is retried, orders,  *)
(* lines and deliveries agree with each other (new_ord.rs and delivery.rs,  *)
(* which takes the smallest number; conditions 2 to 7 of TPC-C).            *)
OrdersConsistent == IsLoaded => OrdersMatchLines /\ WaitingOrdersAreNewest

(* Between transactions the balance of a customer is what was loaded and    *)
(* what the customer paid: no payment is lost, booked twice or booked for   *)
(* another customer, and deliveries add the zero amounts New-Order writes.  *)
(* The year-to-date sums of a warehouse and of its districts stay as far    *)
(* apart as they were loaded (payment.rs; condition 1 of TPC-C asks for     *)
(* equality, which the loaded amounts do not have).                         *)
MoneyKept ==
    pc = "loop" =>
    /\ \A k \in DOMAIN paid : db.customer[k].balance = paid[k] - 10
    /\ \A w \in Ware :
        db.warehouse[w].ytd - MapThenSumSet(LAMBDA d : db.district[<<w, d>>].ytd, Dist)
            = 3000000 - 30000 * DistPerWare

(* Every committed transaction is in one of the two response time           *)
(* histograms of its kind (rt_hist.rs), whatever kinds are checkpointed.    *)
ResponsesCounted ==
    \A k \in Kind : SumFunction(hist.total[k]) + SumFunction(hist.cur[k]) = done[k]

(* A round ends: the transaction commits, or the retries are used up        *)
(* (main.rs); the exception is other_ware in the first of two warehouses.   *)
RetriesEnd == pc = "run" ~> pc \in {"loop", "MaxRetry", "spin"}
=============================================================================
