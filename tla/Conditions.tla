------------------------------ MODULE Conditions ------------------------------
(***************************************************************************)
(* The conditions of a job: the plugins of context/base_hooks.py and       *)
(* ClearWeather (integrations/weather.py) over the rate limiter, evaluated *)
(* by concurrent tasks as _evaluate_conditions does (daemon/execution.py). *)
(*                                                                         *)
(* evaluate() answers at once or returns a coroutine that the task awaits; *)
(* in between other tasks run.  What a combinator inside does with a       *)
(* coroutine is modelled as it happens in a running event loop.  A         *)
(* condition is a number; those it is built from have smaller ones.        *)
(***************************************************************************)
EXTENDS RateLimiter, LocalTime

CONSTANTS
    Jobs,           \* the names of jobs
    Node,           \* Node[c]: the condition c
    Required,       \* Required[j]: trigger.conditions, a sequence
    TaskIds         \* executions that may be under way at a time

Conditions == DOMAIN Node
Children(c) ==
    IF Node[c].kind \in {"all", "not", "cached", "timeout"}
    THEN {Node[c].of[i] : i \in DOMAIN Node[c].of} ELSE {}

ASSUME ConditionsAssumption ==
    /\ Conditions \subseteq Nat
    /\ \A c \in Conditions : Children(c) \subseteq {d \in Conditions : d < c}
    /\ Required \in [Jobs -> Seq(Conditions)]
ASSUME NodeAssumption ==
    \A c \in Conditions :
        LET node == Node[c]
            Times == 0 .. DayLength - 1
        IN  \/ /\ node.kind = "window"
               /\ node.zone \in Zone /\ node.start \in Times /\ node.end \in Times
            \/ /\ node.kind = "plugin"
               /\ \A j \in Jobs, at \in 0 .. MaxTime :
                      node.result[j][at] \in {"true", "false", "raises"}
            \/ node.kind = "weather"
            \/ node.kind = "all" /\ node.of \in Seq(Conditions)
            \/ /\ node.kind \in {"not", "cached", "timeout"}
               /\ node.of \in Seq(Conditions) /\ Len(node.of) = 1
               /\ node.kind = "cached" => node.ttl \in Nat

VARIABLES
    tasks,          \* the evaluations under way
    cache           \* _cache of each CachedCondition: keys with times and values

conditionVars == <<tasks, cache>>
allVars == <<vars, conditionVars>>

NoTask == [phase |-> "none"]
Cached == {c \in Conditions : Node[c].kind = "cached"}

-----------------------------------------------------------------------------
\* TimeWindow.evaluate
Within(window, at) ==
    LET time == TimeOf(Local(window.zone, at))
    IN  IF window.start <= window.end
        THEN window.start <= time /\ time < window.end
        ELSE window.start <= time \/ time < window.end

\* _make_cache_key; in the variant, without the job.
TimeKey(job, at) == <<at>>
CacheKey(job, at) == <<job, at>>

\* The entry that a CachedCondition answers with: it is found and not expired.
Expired(c, e, at) == at - e.at > Node[c].ttl
Hits(c, job, at) == {e \in cache[c] : e.key = CacheKey(job, at) /\ ~Expired(c, e, at)}

Truth(b) == IF b THEN "true" ELSE "false"

\* The first of a sequence of values that ends an all() or a loop, or "true".
IsEnd(values, i) == values[i] \in {"false", "raises"}
AllOf(values) ==
    LET ends == {i \in DOMAIN values : IsEnd(values, i)}
    IN  IF ends = {} THEN "true"
        ELSE values[CHOOSE i \in ends : \A k \in ends : i <= k]

\* What evaluate(context) of a condition returns, given the caches and what those
\* return that it is built from: a truth value, a coroutine, or an exception.
\*   All and Not    take a coroutine for true
\*   CachedCondition    needs a second event loop for one: RuntimeError
\*   TimeoutCondition   answers on_timeout for one, without awaiting it
Evaluated(c, value, job, at) ==
    LET node == Node[c]
        Of(i) == value[node.of[i]]
    IN  CASE node.kind = "window"  -> Truth(Within(node, at))
          [] node.kind = "plugin"  -> node.result[job][at]
          [] node.kind = "weather" -> "coroutine"
          [] node.kind = "all"     -> AllOf([i \in DOMAIN node.of |-> Of(i)])
          [] node.kind = "not"     ->
                 IF Of(1) = "raises" THEN "raises" ELSE Truth(Of(1) = "false")
          [] node.kind = "cached"  ->
                 IF Hits(c, job, at) # {} THEN (CHOOSE e \in Hits(c, job, at) : TRUE).value
                 ELSE IF Of(1) = "coroutine" THEN "raises" ELSE Of(1)
          [] node.kind = "timeout" ->
                 IF Of(1) = "coroutine" THEN Truth(node.onTimeout) ELSE Of(1)
Values(job, at) ==
    LET value[c \in Conditions] == Evaluated(c, value, job, at)
    IN  value

\* The conditions that are reached below each condition: all() stops at its end,
\* a hit in the cache evaluates nothing.
Reached(job, at) ==
    LET value == Values(job, at)
        reached[c \in Conditions] ==
            LET node == Node[c]
                Goes(i) == node.kind = "all" =>
                               \A k \in 1 .. i - 1 : value[node.of[k]] \in {"true", "coroutine"}
                hit == node.kind = "cached" /\ Hits(c, job, at) # {}
            IN  {c} \cup (IF Children(c) = {} \/ hit THEN {}
                          ELSE UNION {reached[node.of[i]] : i \in {k \in DOMAIN node.of : Goes(k)}})
    IN  reached

\* The caches after the conditions of S were reached.
Remember(job, at, S) ==
    LET value == Values(job, at)
        key == CacheKey(job, at)
        Evaluates(c) == c \in S /\ Hits(c, job, at) = {} /\ value[c] \in {"true", "false"}
    IN  cache' = [c \in Cached |->
            IF Evaluates(c)
            THEN {e \in cache[c] : e.key # key}
                     \cup {[key |-> key, at |-> at, value |-> value[c]]}
            ELSE cache[c]]

-----------------------------------------------------------------------------
Phase(t, phase) == tasks[t].phase = phase
ValuesFor(t) == Values(tasks[t].job, tasks[t].at)
RequiredOf(t) == Required[tasks[t].job]

\* Where _evaluate_conditions stops: at the first condition, from the next one
\* on, that is not simply true, or behind the last.
StopsAt(t, k) ==
    LET Passes(i) == ValuesFor(t)[RequiredOf(t)[i]] = "true"
    IN  /\ k \in tasks[t].next .. Len(RequiredOf(t)) + 1
        /\ \A i \in tasks[t].next .. k - 1 : Passes(i)
        /\ k <= Len(RequiredOf(t)) => ~Passes(k)

RememberUntil(t, k) ==
    Remember(tasks[t].job, tasks[t].at,
             UNION {Reached(tasks[t].job, tasks[t].at)[RequiredOf(t)[i]] :
                        i \in {i \in tasks[t].next .. k : i <= Len(RequiredOf(t))}})

Goto(t, phase, k) ==
    tasks' = [tasks EXCEPT ![t].phase = phase, ![t].next = k]

\* _execute calls _evaluate_conditions with triggered_at = now.
Begin(t, j) ==
    /\ Phase(t, "none")
    /\ tasks' = [tasks EXCEPT ![t] =
                    [phase |-> "evaluating", job |-> j, at |-> now, next |-> 1]]
    /\ UNCHANGED <<vars, cache>>

\* No condition is left, or one is false or raises.
Decide(t) ==
    /\ Phase(t, "evaluating")
    /\ \E k \in 1 .. Len(RequiredOf(t)) + 1 :
        /\ StopsAt(t, k)
        /\ RememberUntil(t, k)
        /\ IF k > Len(RequiredOf(t)) THEN Goto(t, "passed", k)
           ELSE \/ ValuesFor(t)[RequiredOf(t)[k]] = "false" /\ Goto(t, "failed", k)
                \/ ValuesFor(t)[RequiredOf(t)[k]] = "raises" /\ Goto(t, "error", k)
    /\ UNCHANGED vars

\* ClearWeather.evaluate, as far as its request.  With an API key there is no
\* limiter; refused by the limiter it is false.
AskWeather(t) ==
    /\ Phase(t, "evaluating")
    /\ \E k \in 1 .. Len(RequiredOf(t)) :
        LET c == RequiredOf(t)[k]
        IN  /\ StopsAt(t, k)
            /\ ValuesFor(t)[c] = "coroutine"
            /\ RememberUntil(t, k)
            /\ \/ ~Node[c].limited /\ Goto(t, "http", k) /\ UNCHANGED vars
               \/ Node[c].limited /\ Allow /\ Goto(t, "http", k)
               \/ Node[c].limited /\ Refuse /\ Goto(t, "failed", k)

\* The sky is clear, and the evaluation goes on behind the condition.
SkyIsClear(t) ==
    /\ Phase(t, "http")
    /\ Goto(t, "evaluating", tasks[t].next + 1)
    /\ UNCHANGED <<vars, cache>>

\* It is not, or the request fails (HTTPError); the answer is no forecast; or
\* the evaluation times out.
WeatherFails(t) ==
    /\ Phase(t, "http")
    /\ \E verdict \in {"failed", "error", "timeout"} : Goto(t, verdict, tasks[t].next)
    /\ UNCHANGED <<vars, cache>>

Verdicts == {"passed", "failed", "error", "timeout"}

\* _execute goes on with the verdict.
End(t) ==
    /\ tasks[t].phase \in Verdicts
    /\ tasks' = [tasks EXCEPT ![t] = NoTask]
    /\ UNCHANGED <<vars, cache>>

TaskStep(t) ==
    \/ \E j \in Jobs : Begin(t, j)
    \/ Decide(t) \/ AskWeather(t) \/ SkyIsClear(t) \/ WeatherFails(t) \/ End(t)

\* clear_cache
ClearCache(c) ==
    /\ cache[c] # {}
    /\ cache' = [cache EXCEPT ![c] = {}]
    /\ UNCHANGED <<vars, tasks>>

ConditionsInit ==
    /\ Init
    /\ tasks = [t \in TaskIds |-> NoTask]
    /\ cache = [c \in Cached |-> {}]

ConditionsNext ==
    \/ \E t \in TaskIds : TaskStep(t)
    \/ \E c \in Cached : ClearCache(c)
    \/ Tick /\ UNCHANGED conditionVars

ConditionsSpec == ConditionsInit /\ [][ConditionsNext]_allVars

-----------------------------------------------------------------------------
\* What a condition means, were there no event loop: a window is the time from its
\* start to its end, wherever midnight is; a cache answers with what its condition
\* meant for the job at a time not yet expired; the weather may be anything.
InWindow(window, at) ==
    \E ticks \in 0 .. ((window.end - window.start) % DayLength) - 1 :
        TimeOf(Local(window.zone, at)) = (window.start + ticks) % DayLength

Answers == {"true", "false", "raises"}
Meaning(c, meaning, job, at) ==
    LET node == Node[c]
        Of(i) == meaning[node.of[i]][at]
    IN  CASE node.kind = "window"  -> {Truth(InWindow(node, at))}
          [] node.kind = "plugin"  -> {node.result[job][at]}
          [] node.kind = "weather" -> Answers
          [] node.kind = "all"     ->
                 {answer \in Answers :
                     \/ answer = "true" /\ \A i \in DOMAIN node.of : "true" \in Of(i)
                     \/ /\ answer # "true"
                        /\ \E i \in DOMAIN node.of :
                               answer \in Of(i) /\ \A k \in 1 .. i - 1 : "true" \in Of(k)}
          [] node.kind = "not"     ->
                 {IF answer = "raises" THEN answer ELSE Truth(answer = "false") :
                     answer \in Of(1)}
          [] node.kind = "cached"  ->
                 UNION {meaning[node.of[1]][then] :
                            then \in {s \in 0 .. MaxTime : at - s <= node.ttl}}
          [] node.kind = "timeout" -> Of(1)
Meanings(job) ==
    LET meaning[c \in Conditions] ==
            [at \in 0 .. MaxTime |-> Meaning(c, meaning, job, at)]
    IN  meaning

\* A job runs exactly if all of its conditions hold: the verdict is what the first
\* condition that does not hold means for this job at triggered_at (below a cache,
\* not longer before it than results are to be cached), whatever the caches keep of
\* other jobs and older times, and wherever other evaluations came in between.  (A
\* weather condition inside of another one may have any answer.)
VerdictIsMeaning ==
    \A t \in TaskIds : tasks[t].phase \in Verdicts =>
        LET Means(i, answer) ==
                answer \in Meanings(tasks[t].job)[RequiredOf(t)[i]][tasks[t].at]
        IN  /\ \A i \in 1 .. tasks[t].next - 1 : Means(i, "true")
            /\ Phase(t, "passed") => tasks[t].next > Len(RequiredOf(t))
            /\ Phase(t, "failed") => Means(tasks[t].next, "false")
            /\ Phase(t, "error") => Means(tasks[t].next, "raises")

-----------------------------------------------------------------------------
\* base_hooks.py:93, "Wrap a condition to cache its result for a specified
\* duration.": no condition is evaluated anew for a job while its result for that
\* job has not expired.  TLC finds that this does not hold: the key has triggered_at.
CachesAreReused ==
    [][\A c \in Cached : \A new \in cache'[c] \ cache[c] : \A e \in cache[c] :
          e.key[1] = new.key[1] => Expired(c, e, new.at)]_allVars

-----------------------------------------------------------------------------
\* "Logical AND" (README.md:398, with ClearWeather in docs/concepts/context.md:53):
\* a job that requires clear weather of the free service is only executed if the
\* service was called for it.  Inside of All the coroutine of ClearWeather counts
\* as true, unawaited, and no call is made; TLC finds that this does not hold.
NeedsCall[c \in Conditions] ==
    \/ Node[c].kind = "weather" /\ Node[c].limited
    \/ Node[c].kind = "all" /\ \E d \in Children(c) : NeedsCall[d]
AllIsLogicalAnd ==
    \A t \in TaskIds :
        Phase(t, "passed") /\ (\E i \in DOMAIN RequiredOf(t) : NeedsCall[RequiredOf(t)[i]])
            => \E i \in DOMAIN allowed : allowed[i] >= tasks[t].at
=============================================================================
