---------------------------- MODULE ActivityLog ----------------------------
(***************************************************************************)
(* The activity log as operators on values: the store                      *)
(* (internal/store/store.go), the cache of captures                        *)
(* (internal/cache/cache.go, internal/server/captures.go), and what        *)
(* metricsMonitor.record (internal/server/metrics.go) makes of a response. *)
(*                                                                         *)
(* A store is a record; a row is a record with its id.  An on-disk store   *)
(* and an in-memory one differ in that only the latter is pruned.          *)
(***************************************************************************)
EXTENDS Integers, Sequences, FiniteSets, SequencesExt, TLC

-----------------------------------------------------------------------------
(* The store.                                                              *)

NewStore(memory) == [rows |-> {}, lastId |-> 0, memory |-> memory, open |-> TRUE]

CloseStore(st) == [st EXCEPT !.open = FALSE]

(* The ids are AUTOINCREMENT: never used again.  The entry has none yet.   *)
InsertActivity(st, entry) ==
    [st EXCEPT !.rows = @ \union {[entry EXCEPT !.id = st.lastId + 1]},
               !.lastId = @ + 1]

(* DELETE ... WHERE id <= (SELECT MAX(id) FROM activity) - maxRows         *)
PruneActivity(st, maxRows) ==
    LET newest == IF st.rows = {} THEN 0
                  ELSE CHOOSE n \in {r.id : r \in st.rows} : \A r \in st.rows : r.id <= n
    IN [st EXCEPT !.rows = {r \in @ : maxRows > 0 => r.id > newest - maxRows}]

(* activityWhere: the rows of a model, or all of them.                     *)
Matching(st, model) == {r \in st.rows : model \in {"", r.model}}

Columns == {"id", "model", "speed", "input", "output", "cached"}

NormalQuery(query) ==
    [query EXCEPT !.page = IF @ < 1 THEN 1 ELSE @,
                  !.limit = IF @ < 1 THEN 25 ELSE @,
                  !.sort = IF @ \in Columns THEN @ ELSE "id"]

(* activityOrderBy: by a column, then by id in the same direction.         *)
Ordered(rows, query) ==
    LET Less(r, s) == \/ r[query.sort] < s[query.sort]
                      \/ r[query.sort] = s[query.sort] /\ r.id < s.id
    IN SetToSortSeq(rows, LAMBDA r, s : IF query.order = "asc" THEN Less(r, s) ELSE Less(s, r))

TotalPages(total, limit) == (total + limit - 1) \div limit

(* Seeded bug: the first page is page zero.                                *)
ListActivityFromZero(st, asked) ==
    LET query == NormalQuery(asked)
        sorted == Ordered(Matching(st, query.model), query)
        from == query.page * query.limit
    IN [data |-> SubSeq(sorted, from + 1, IF from + query.limit < Len(sorted)
                                            THEN from + query.limit ELSE Len(sorted)),
        total |-> Len(sorted), totalPages |-> TotalPages(Len(sorted), query.limit)]

(* One page of the rows.                                                   *)
ListActivity(st, asked) ==
    LET query == NormalQuery(asked)
        sorted == Ordered(Matching(st, query.model), query)
        from == (query.page - 1) * query.limit
    IN [data |-> SubSeq(sorted, from + 1, IF from + query.limit < Len(sorted)
                                            THEN from + query.limit ELSE Len(sorted)),
        total |-> Len(sorted), totalPages |-> TotalPages(Len(sorted), query.limit)]

(* percentile, of a sorted sequence of integers, in hundredths: the rank   *)
(* is p * (n - 1) hundredths.                                              *)
Percentile(sorted, p) ==
    LET rank == p * (Len(sorted) - 1)
        lower == rank \div 100
        upper == (rank + 99) \div 100
    IN sorted[lower + 1] * 100 + (rank % 100) * (sorted[upper + 1] - sorted[lower + 1])

CeilLog2(n) == CHOOSE k \in 0 .. n : 2^k >= n /\ (k = 0 \/ 2^(k - 1) < n)

(* calculateHistogramData, on integers.                                    *)
HistogramData(values) ==
    LET sorted == SortSeq(values, <)
        lo == Head(sorted)
        hi == Last(sorted)
        sturges == CeilLog2(Len(values)) + 1
        binCount == IF sturges < 5 THEN 5 ELSE IF sturges > 20 THEN 20 ELSE sturges
        BinOf(v) == LET idx == ((v - lo) * binCount) \div (hi - lo)
                    IN IF idx < binCount THEN idx ELSE binCount - 1
        bins == IF lo = hi THEN <<Len(values)>>
                ELSE [b \in 1 .. binCount |->
                        Cardinality({i \in DOMAIN values : BinOf(values[i]) = b - 1})]
    IN [bins |-> bins, min |-> lo, max |-> hi,
        p50 |-> Percentile(sorted, 50), p95 |-> Percentile(sorted, 95),
        p99 |-> Percentile(sorted, 99)]

(* ActivityStats: what is not known is not added, and a speed of zero was  *)
(* not reported.                                                           *)
ActivityStats(st, model) ==
    LET found == SetToSeq(Matching(st, model))
        Total(field) == FoldLeft(LAMBDA sum, r : sum + (IF r[field] > 0 THEN r[field] ELSE 0), 0, found)
        reported == SelectSeq(found, LAMBDA r : r.speed > 0)
    IN [requests |-> Len(found), input |-> Total("input"), output |-> Total("output"),
        cached |-> Total("cached"),
        speeds |-> IF reported = <<>> THEN <<>>
                   ELSE <<HistogramData([i \in DOMAIN reported |-> reported[i].speed])>>]

-----------------------------------------------------------------------------
(* The cache of captures: a capture is its size.                           *)

NewCache(maxSize) == [items |-> <<>>, order |-> <<>>, size |-> 0, maxSize |-> maxSize]

(* The oldest entries leave, one by one, until there is room.              *)
EvictFor(c, need) ==
    LET Freed(n) == FoldLeft(LAMBDA sum, id : sum + c.items[id], 0, SubSeq(c.order, 1, n))
        Enough(n) == c.size - Freed(n) + need <= c.maxSize \/ n = Len(c.order)
        least == CHOOSE n \in 0 .. Len(c.order) : Enough(n) /\ \A m \in 0 .. n - 1 : ~Enough(m)
        gone == {c.order[i] : i \in 1 .. least}
    IN [c EXCEPT !.order = SubSeq(@, least + 1, Len(@)),
                 !.size = @ - Freed(least),
                 !.items = [i \in DOMAIN @ \ gone |-> @[i]]]

(* An old entry of the same id leaves the size and the order first.        *)
Without(c, id) ==
    IF id \in DOMAIN c.items
      THEN [c EXCEPT !.size = @ - c.items[id],
                     !.order = SelectSeq(@, LAMBDA i : i # id),
                     !.items = [i \in DOMAIN @ \ {id} |-> @[i]]]
      ELSE c

CacheAdd(c, id, dataSize) ==
    IF dataSize > c.maxSize THEN c
    ELSE LET room == EvictFor(Without(c, id), dataSize)
         IN [room EXCEPT !.items = [i \in DOMAIN @ \union {id} |-> IF i = id THEN dataSize ELSE @[i]],
                         !.order = Append(@, id),
                         !.size = @ + dataSize]

CacheHas(c, id) == id \in DOMAIN c.items

-----------------------------------------------------------------------------
(* metricsMonitor.record: what becomes of a response.  "resp" says its     *)
(* status, whether the body is empty and can be decompressed, its kind     *)
(* ("sse", "json" or neither), and the usage objects it carries.           *)

CaptureAll == {"reqHeaders", "reqBody", "respHeaders", "respBody"}

(* captureFieldsFor, by the kind of the route.                             *)
CaptureFieldsFor(route) ==
    CASE route \in {"audio/speech", "images/generations", "txt2img"} ->
             {"reqHeaders", "reqBody", "respHeaders"}
      [] route = "audio/voices" -> {"reqHeaders", "respHeaders", "respBody"}
      [] route = "audio/transcriptions" -> {"reqHeaders", "respHeaders", "respBody"}
      [] route \in {"images/edits", "img2img"} -> {"reqHeaders", "respHeaders"}
      [] OTHER -> CaptureAll

Unknown == -1

(* processStreamingResponse: over the events of the stream the last        *)
(* positive counts win; without any usage nothing is known.                *)
StreamUsage(events) ==
    FoldLeft(LAMBDA acc, u : [input |-> IF u.input > 0 THEN u.input ELSE acc.input,
                              output |-> IF u.output > 0 THEN u.output ELSE acc.output,
                              cached |-> IF u.cached >= 0 THEN u.cached ELSE acc.cached],
             [input |-> 0, output |-> 0, cached |-> Unknown], events)

(* buildMetrics: timings of llama-server win over the usage.               *)
BuildMetrics(usage, timings) ==
    IF timings = <<>> THEN usage
    ELSE [input |-> timings[1].input, output |-> timings[1].output,
          cached |-> IF timings[1].cached >= 0 THEN timings[1].cached ELSE usage.cached]

NoTokens == [input |-> 0, output |-> 0, cached |-> 0]

(* extractUsageTokens and its streaming form: nothing is known without a   *)
(* usage or timings.                                                       *)
UsageTokens(resp) ==
    LET stream == resp.kind = "sse"
    IN IF resp.kind \notin {"sse", "json"} \/ (resp.usages = <<>> /\ resp.timings = <<>>) THEN NoTokens
       ELSE BuildMetrics(IF stream THEN StreamUsage(resp.usages)
                         ELSE IF resp.usages = <<>> THEN [NoTokens EXCEPT !.cached = Unknown]
                         ELSE Head(resp.usages), resp.timings)

(* What the row says went wrong, the tokens, and the fields captured       *)
(* ({} for no capture).                                                    *)
RecordOf(resp, route) ==
    LET fields == CaptureFieldsFor(route)
    IN IF resp.status # 200
         THEN [error |-> IF ~resp.empty /\ ~resp.decodes THEN "decode" ELSE "upstream",
               tokens |-> NoTokens, capture |-> fields \ {"respBody"}]
       ELSE IF resp.empty
         THEN [error |-> "", tokens |-> NoTokens, capture |-> {}]
       ELSE IF ~resp.decodes
         THEN [error |-> "decompression", tokens |-> NoTokens, capture |-> {}]
       ELSE [error |-> "", capture |-> fields,
             tokens |-> UsageTokens(resp)]

=============================================================================
