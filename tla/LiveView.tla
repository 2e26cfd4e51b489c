------------------------------ MODULE LiveView ------------------------------
(***************************************************************************)
(* The browser's side of the stream (the script in webui.py): a bounded    *)
(* buffer of rows, newest first by their own time, and the bounded list of *)
(* nodes on screen.  A view is [items, nodes, seq, hidden]; an item is     *)
(* [k, seq, kind, node], nodes are the seqs of the items on screen.        *)
(***************************************************************************)
EXTENDS Naturals, Sequences, SequencesExt, Loops

CONSTANTS MaxItems, MaxNodes
ASSUME ViewAssumption == MaxNodes \in Nat \ {0} /\ MaxItems \in Nat /\ MaxNodes <= MaxItems

NoView == [items |-> <<>>, nodes |-> <<>>, seq |-> 0, hidden |-> {}]

\* A bug: a row as old as another goes behind it.
BugOlder(k, item) == item.k < k

Older(k, item) == item.k <= k

\* findIdx: the first place whose item is older than a row that comes with k.
FindIdx(items, k) ==
  LET places == 0 .. Len(items)
      f[range \in places \X places] ==
        LET lo == range[1]
            hi == range[2]
            mid == (lo + hi) \div 2
        IN IF lo >= hi THEN lo
           ELSE IF Older(k, items[mid + 1]) THEN f[<<lo, mid>>] ELSE f[<<mid + 1, hi>>]
  IN f[<<0, Len(items)>>] + 1

Passes(view, item) == item.kind \notin view.hidden

SetNode(items, seqs, on) ==
  [i \in DOMAIN items |-> IF items[i].seq \in seqs THEN [items[i] EXCEPT !.node = on] ELSE items[i]]

\* trim: no more nodes than MaxNodes, without the oldest.
Trim(view) ==
  LET kept == SubSeq(view.nodes, 1, MaxNodes)
  IN IF Len(view.nodes) <= MaxNodes THEN view
     ELSE [view EXCEPT !.nodes = kept,
                       !.items = SetNode(@, ToSet(view.nodes) \ ToSet(kept), FALSE)]

PlaceOf(seq, nodes) == CHOOSE p \in DOMAIN nodes : nodes[p] = seq

\* insertBefore the next item that is on screen, or at the end.
Render(view, i) ==
  LET item == view.items[i]
      after == {j \in DOMAIN view.items : j > i /\ view.items[j].node}
      place == IF after = {} THEN Len(view.nodes) + 1
               ELSE PlaceOf(view.items[Min(after)].seq, view.nodes)
  IN IF ~Passes(view, item) THEN view
     ELSE Trim([view EXCEPT !.nodes = InsertAt(@, place, item.seq),
                            !.items = SetNode(@, {item.seq}, TRUE)])

Evict(view) ==
  LET oldest == Last(view.items)
  IN IF Len(view.items) <= MaxItems THEN view
     ELSE [view EXCEPT !.items = Front(@),
                       !.nodes = IF oldest.node THEN RemoveAt(@, PlaceOf(oldest.seq, @)) ELSE @]

Ingest(view, k, kind) ==
  LET i == FindIdx(view.items, k)
      item == [k |-> k, seq |-> view.seq, kind |-> kind, node |-> FALSE]
  IN Evict(Render([view EXCEPT !.items = InsertAt(@, i, item), !.seq = @ + 1], i))

\* rebuild's loop: the nodes, and the next item.
Rebuild(hidden, nodes, item) ==
  IF item.kind \in hidden \/ Len(nodes) = MaxNodes THEN nodes ELSE Append(nodes, item.seq)

\* rebuild, after a checkbox was clicked.
Toggle(view, kind) ==
  LET hidden == IF kind \in view.hidden THEN view.hidden \ {kind} ELSE view.hidden \cup {kind}
      nodes == ForEach(LAMBDA n, d : Rebuild(hidden, n, d), <<>>, view.items)
  IN [view EXCEPT !.hidden = hidden, !.nodes = nodes,
                  !.items = SetNode(SetNode(@, {d.seq : d \in ToSet(@)}, FALSE), ToSet(nodes), TRUE)]

\* clear, and connect before the new backfill comes.
Clear(view) == [view EXCEPT !.items = <<>>, !.nodes = <<>>]

Do(view, op) ==
  CASE op.do = "row" -> Ingest(view, op.k, op.kind)
    [] op.do = "toggle" -> Toggle(view, op.kind)
    [] OTHER -> Clear(view)

View(ops) == ForEach(Do, NoView, ops)

-----------------------------------------------------------------------------

IsRow(ops, i) == ops[i].do = "row"

\* The number a row gets: how many came before it.
RowNumber(ops, i) == Cardinality({j \in 1 .. i - 1 : IsRow(ops, j)})

\* The rows since the last clear.
Rows(ops) ==
  LET starts == {i \in DOMAIN ops : ops[i].do = "clear"}
  IN {i \in DOMAIN ops : IsRow(ops, i) /\ \A j \in starts : j < i}

Newer(ops, i, j) == ops[i].k > ops[j].k \/ (ops[i].k = ops[j].k /\ i > j)

\* The n newest of some rows, newest first.
Newest(ops, rows, n) ==
  LET sorted == CHOOSE seq \in [1 .. Cardinality(rows) -> rows] :
                  \A i, j \in DOMAIN seq : i < j => Newer(ops, seq[i], seq[j])
  IN SubSeq(sorted, 1, IF Len(sorted) < n THEN Len(sorted) ELSE n)

\* The buffer has the newest rows, the screen the newest of those that pass, each in
\* their order, and the items know which of them are on screen.
ShowsNewest(ops, view) ==
  LET kept == Newest(ops, Rows(ops), MaxItems)
      shown == Newest(ops, {i \in ToSet(kept) : ops[i].kind \notin view.hidden}, MaxNodes)
  IN /\ [i \in DOMAIN view.items |-> view.items[i].seq] = [i \in DOMAIN kept |-> RowNumber(ops, kept[i])]
     /\ view.nodes = [i \in DOMAIN shown |-> RowNumber(ops, shown[i])]
     /\ ToSet(view.nodes) = {d.seq : d \in {e \in ToSet(view.items) : e.node}}
=============================================================================
