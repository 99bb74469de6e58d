----------------------------- MODULE ServerPool -----------------------------
(***************************************************************************)
(* How a request reaches an inference server in the fully asynchronous     *)
(* mode: GlobalRequestLoadBalancer (an actor: its calls are atomic) picks  *)
(* a server, FullyAsyncLLMServerClient calls it, and calls it again when   *)
(* the trainer has interrupted it. The trainer pauses the standalone       *)
(* servers to load new weights, and, to validate, wakes the hybrid servers *)
(* that share its GPUs, adds them to the pool and later takes them out and *)
(* puts them back to sleep, while requests come and go.                    *)
(***************************************************************************)
EXTENDS Integers, Sequences, FiniteSets

CONSTANTS Clients,        \* calls of FullyAsyncLLMServerClient.generate
          Standalone,     \* standalone servers, in the order of the dict
          Hybrid,         \* hybrid servers, in the order of the dict
          CacheSize,      \* max_cache_size
          Prompt,         \* prompt length of each client
          PromptLength,   \* rollout.prompt_length
          ResponseLength, \* rollout.response_length
          MaxModelLen,    \* rollout.max_model_len
          Partial,        \* async_training.partial_rollout
          TestFreq,       \* trainer.test_freq
          MaxVersion,     \* bound: weight updates
          FailAt          \* bound: the steps of Script whose calls may fail

Elems(s) == {s[i] : i \in 1..Len(s)}
Servers == Elems(Standalone) \cup Elems(Hybrid)
NoServer == "none"

ASSUME PoolAssumption ==
    /\ Standalone \in Seq(Elems(Standalone)) /\ Hybrid \in Seq(Elems(Hybrid))
    /\ Standalone # <<>> /\ Elems(Standalone) \cap Elems(Hybrid) = {}
    /\ NoServer \notin Servers /\ IsFiniteSet(Clients)
    /\ {CacheSize, ResponseLength, TestFreq} \subseteq Nat \ {0}
    /\ {PromptLength, MaxModelLen, MaxVersion} \subseteq Nat
    /\ Prompt \in [Clients -> 0..(PromptLength + ResponseLength - 1)]
    /\ MaxModelLen >= PromptLength + ResponseLength
    /\ Partial \in BOOLEAN

VARIABLES pool,     \* the keys of _inflight_requests
          inflight, \* _inflight_requests
          cache,    \* _request_id_to_server, the least recently used entry first
          owed,     \* per client: the server of its release_server call on its way
          req,      \* the clients
          paused,   \* per server: pause_generation is in force
          asleep,   \* per server: weights and cache are freed
          version,  \* per server: global_steps of its weights
          current,  \* current_param_version
          at,       \* the trainer's next step in Script, 0 while it trains
          todo,     \* servers that step still has to reach
          alive,    \* alive_replicas holds the hybrid servers
          lost,     \* the kinds of calls that have failed so far
          hist      \* per client: server of its last call, clients routed since

lbVars == <<pool, inflight, cache>>
srvVars == <<paused, asleep, version>>
trainVars == <<current, at, todo, alive, lost>>
vars == <<pool, inflight, cache, owed, req, paused, asleep, version, current, at, todo,
          alive, lost, hist>>

NoVersion == -1
Fresh == [st |-> "new", srv |-> NoServer, tokens |-> <<>>, chunk |-> <<>>, limit |-> 0,
          stop |-> "none", gs |-> NoVersion, lo |-> NoVersion, hi |-> NoVersion]
NoHist == [srv |-> NoServer, since |-> {}]

\* The hybrid servers are left in the pool or not, no request is on its way.
Idle(left) ==
    /\ pool = IF left THEN Servers ELSE Elems(Standalone)
    /\ inflight = [s \in Servers |-> 0] /\ cache = <<>>
    /\ owed = [c \in Clients |-> NoServer]
    /\ req = [c \in Clients |-> Fresh]
    /\ paused = [s \in Servers |-> FALSE]
    /\ asleep = [s \in Servers |-> s \in Elems(Hybrid)]
    /\ version = [s \in Servers |-> 0]
    /\ current = 0 /\ at = 0 /\ todo = {}
    /\ alive = left /\ lost = IF left THEN {"remove"} ELSE {}
    /\ hist = [c \in Clients |-> NoHist]

Init == Idle(FALSE)

-----------------------------------------------------------------------------
(* GlobalRequestLoadBalancer *)

Cached(c) == {i \in 1..Len(cache) : cache[i].id = c}
Position(c) == CHOOSE i \in Cached(c) : TRUE
Without(c) ==
    IF Cached(c) = {} THEN cache
    ELSE SubSeq(cache, 1, Position(c) - 1) \o SubSeq(cache, Position(c) + 1, Len(cache))
\* Mutant of Sticky: the cache is written and never read.
StickyNever(c) == FALSE

\* The conversation has an entry whose server is still in the pool.
Sticky(c) == \E i \in Cached(c) : cache[i].srv \in pool
StickyServer(c) == cache[Position(c)].srv

\* min over the dict: the first of the least loaded servers. Hybrid servers are
\* always added to the dict behind the standalone ones.
Rank(s) == CHOOSE i \in 1..Len(Standalone \o Hybrid) : (Standalone \o Hybrid)[i] = s
LeastLoaded ==
    CHOOSE s \in pool :
        \A t \in pool : /\ inflight[s] <= inflight[t]
                        /\ inflight[s] = inflight[t] => Rank(s) <= Rank(t)

\* An entry is written: the least recently used one makes room.
Stored(c, s) ==
    LET kept == Without(c)
    IN  Append(IF Len(kept) >= CacheSize THEN Tail(kept) ELSE kept, [id |-> c, srv |-> s])

\* A read entry becomes the most recently used one.
Touched(c) == Append(Without(c), [id |-> c, srv |-> StickyServer(c)])

\* acquire_server, and the call goes out to the server. An actor runs the calls
\* of one caller in their order: the client's last release comes first.
Acquire(c) ==
    /\ req[c].st = "new" /\ owed[c] = NoServer
    /\ LET s == IF Sticky(c) THEN StickyServer(c) ELSE LeastLoaded
       IN  /\ cache' = IF Sticky(c) THEN Touched(c) ELSE Stored(c, s)
           /\ inflight' = [inflight EXCEPT ![s] = @ + 1]
           /\ req' = [req EXCEPT ![c].st = "call", ![c].srv = s]
           /\ hist' = [d \in Clients |->
                         IF d = c THEN [srv |-> s, since |-> {}]
                         ELSE IF hist[d] = NoHist THEN NoHist
                         ELSE [hist[d] EXCEPT !.since = @ \cup {c}]]
    /\ UNCHANGED <<pool, owed, srvVars, trainVars>>

\* release_server: unknown servers and counts at zero are left alone.
Released(s) ==
    IF s \in pool /\ inflight[s] > 0 THEN [inflight EXCEPT ![s] = @ - 1] ELSE inflight

Release(c) ==
    /\ owed[c] # NoServer
    /\ owed' = [owed EXCEPT ![c] = NoServer]
    /\ inflight' = Released(owed[c])
    /\ UNCHANGED <<pool, cache, req, srvVars, trainVars, hist>>

-----------------------------------------------------------------------------
(* The server's generate *)

Used(c) == Prompt[c] + Len(req[c].tokens)
Smaller(a, b) == IF a < b THEN a ELSE b

\* max_tokens of a call, before it is raised to at least one.
MaxTokens(c) ==
    Smaller(Smaller(ResponseLength, PromptLength + ResponseLength - Used(c)), MaxModelLen - Used(c))

\* A call that raises: the finally clause releases the server, the output of
\* the earlier calls is dropped.
Raise(c) ==
    /\ req' = [req EXCEPT ![c] = [Fresh EXCEPT !.st = "failed", !.srv = req[c].srv]]
    /\ owed' = [owed EXCEPT ![c] = req[c].srv]
    /\ hist' = [hist EXCEPT ![c] = NoHist]

\* A paused engine keeps calls waiting.
Enter(c) ==
    /\ req[c].st = "call" /\ ~paused[req[c].srv] /\ ~asleep[req[c].srv]
    /\ MaxModelLen - Used(c) >= 1
    /\ req' = [req EXCEPT ![c].st = "gen", ![c].chunk = <<>>,
                          ![c].limit = IF MaxTokens(c) < 1 THEN 1 ELSE MaxTokens(c)]
    /\ UNCHANGED <<owed, lbVars, srvVars, trainVars, hist>>

\* No room is left, or the engine's memory is freed: the call raises, unless
\* the server is woken up first.
EnterRaises(c) ==
    /\ req[c].st = "call" /\ ~paused[req[c].srv]
    /\ MaxModelLen - Used(c) < 1 \/ asleep[req[c].srv]
    /\ Raise(c)
    /\ UNCHANGED <<lbVars, srvVars, trainVars>>

\* One more token; the answer ends with it, or may go on below the limit.
Token(c) ==
    /\ req[c].st = "gen" /\ ~paused[req[c].srv] /\ ~asleep[req[c].srv]
    /\ LET chunk == Append(req[c].chunk, version[req[c].srv])
       IN  \E more \in BOOLEAN :
              /\ more => Len(chunk) < req[c].limit
              /\ req' = [req EXCEPT ![c].chunk = chunk,
                                    ![c].st = IF more THEN "gen" ELSE "back",
                                    ![c].stop = IF more THEN @ ELSE "completed",
                                    ![c].gs = IF more THEN @ ELSE version[req[c].srv]]
    /\ UNCHANGED <<owed, lbVars, srvVars, trainVars, hist>>

\* The memory is freed under a call that a failed abort has left running.
CutOff(c) ==
    /\ req[c].st = "gen" /\ asleep[req[c].srv]
    /\ Raise(c)
    /\ UNCHANGED <<lbVars, srvVars, trainVars>>

\* Mutant of Merge: the version of the first call is the last one's.
MergeLatest(r) ==
    [r EXCEPT !.tokens = @ \o r.chunk, !.chunk = <<>>, !.limit = 0,
              !.lo = r.gs, !.hi = r.gs, !.gs = NoVersion, !.srv = NoServer]

\* The output of one call is merged into final_output.
Merge(r) ==
    [r EXCEPT !.tokens = @ \o r.chunk, !.chunk = <<>>, !.limit = 0,
              !.lo = IF @ = NoVersion THEN r.gs ELSE @, !.hi = r.gs,
              !.gs = NoVersion, !.srv = NoServer]

\* Mutant of Return: an interrupted call does not release its server.
ReturnHolds(c) ==
    /\ req[c].st = "back"
    /\ owed' = IF req[c].stop = "aborted" THEN owed ELSE [owed EXCEPT ![c] = req[c].srv]
    /\ req' = [req EXCEPT ![c] =
                  [Merge(@) EXCEPT !.st = IF req[c].stop = "aborted" /\ Partial
                                          THEN "new" ELSE "done"]]
    /\ hist' = IF req'[c].st = "done" THEN [hist EXCEPT ![c] = NoHist] ELSE hist
    /\ UNCHANGED <<lbVars, srvVars, trainVars>>

\* The client has the output, releases the server and decides how to go on.
Return(c) ==
    /\ req[c].st = "back"
    /\ owed' = [owed EXCEPT ![c] = req[c].srv]
    /\ req' = [req EXCEPT ![c] =
                  [Merge(@) EXCEPT !.st = IF req[c].stop = "aborted" /\ Partial
                                          THEN "new" ELSE "done"]]
    /\ hist' = IF req'[c].st = "done" THEN [hist EXCEPT ![c] = NoHist] ELSE hist
    /\ UNCHANGED <<lbVars, srvVars, trainVars>>

-----------------------------------------------------------------------------
(* The trainer: _fit_update_weights, then _trainer_side_validate.          *)

\* Mutant of Script: the hybrid servers leave the pool last.
ScriptRemoveLast ==
    << <<"abort", "S">>, <<"load", "S">>, <<"resume", "S">>,
       <<"load", "H">>, <<"abort", "S">>, <<"abort", "H">>, <<"add", "H">>,
       <<"resume", "S">>, <<"resume", "H">>, <<"validate", "S">>,
       <<"abort", "S">>, <<"abort", "H">>, <<"sleep", "H">>, <<"resume", "S">>,
       <<"resume", "H">>, <<"remove", "H">> >>
\* Mutant of Script: the standalone servers are not resumed after validation.
ScriptNoResume ==
    << <<"abort", "S">>, <<"load", "S">>, <<"resume", "S">>,
       <<"load", "H">>, <<"abort", "S">>, <<"abort", "H">>, <<"add", "H">>,
       <<"resume", "S">>, <<"resume", "H">>, <<"validate", "S">>,
       <<"abort", "S">>, <<"abort", "H">>, <<"remove", "H">>, <<"sleep", "H">>,
       <<"resume", "H">> >>

Script ==
    << <<"abort", "S">>, <<"load", "S">>, <<"resume", "S">>,
       <<"load", "H">>, <<"abort", "S">>, <<"abort", "H">>, <<"add", "H">>,
       <<"resume", "S">>, <<"resume", "H">>, <<"validate", "S">>,
       <<"abort", "S">>, <<"abort", "H">>, <<"remove", "H">>, <<"sleep", "H">>,
       <<"resume", "S">>, <<"resume", "H">> >>

Op == Script[at][1]
Group(i) == IF Script[i][2] = "S" THEN Elems(Standalone) ELSE Elems(Hybrid)

StartSync ==
    /\ at = 0 /\ current < MaxVersion
    /\ current' = current + 1 /\ at' = 1 /\ todo' = Group(1)
    /\ UNCHANGED <<alive, lost, lbVars, owed, req, srvVars, hist>>

\* The next step; after the weights are loaded only if validation is due.
Ended == at = Len(Script) \/ (at = 3 /\ current % TestFreq # 0)
Advance == IF Ended THEN at' = 0 /\ todo' = {} ELSE at' = at + 1 /\ todo' = Group(at + 1)
Reached(s) == IF todo = {s} THEN Advance ELSE at' = at /\ todo' = todo \ {s}

\* A call raises: the exception is logged and the trainer goes on.
Fails(call) == at \in FailAt /\ lost' = lost \cup {call}

\* abort_all_requests: the engine is paused and what it was generating comes
\* back. An output that had not begun may come without any field.
Abort(s) ==
    /\ at # 0 /\ s \in todo /\ Op = "abort" /\ Reached(s)
    /\ paused' = [paused EXCEPT ![s] = TRUE]
    /\ \E empty \in SUBSET {c \in Clients : req[c].st = "gen" /\ req[c].srv = s
                                            /\ req[c].chunk = <<>>} :
          req' = [c \in Clients |->
                    IF req[c].st = "gen" /\ req[c].srv = s
                    THEN [req[c] EXCEPT !.st = "back", !.stop = "aborted",
                                        !.gs = IF c \in empty THEN NoVersion ELSE version[s]]
                    ELSE req[c]]
    /\ UNCHANGED <<current, alive, lost, lbVars, owed, asleep, version, hist>>

\* The engine's pause raises: it goes on with its calls and takes new ones.
AbortFails(s) ==
    /\ at # 0 /\ s \in todo /\ Op = "abort" /\ Reached(s)
    /\ Fails("abort")
    /\ UNCHANGED <<current, alive, lbVars, owed, req, srvVars, hist>>

Resume(s) ==
    /\ at # 0 /\ s \in todo /\ Op = "resume" /\ Reached(s)
    /\ paused' = [paused EXCEPT ![s] = FALSE]
    /\ UNCHANGED <<current, alive, lost, lbVars, owed, req, asleep, version, hist>>

\* Weights of current_param_version; a hybrid server wakes up with them.
Load(s) ==
    /\ at # 0 /\ s \in todo /\ Op = "load" /\ Reached(s)
    /\ version' = [version EXCEPT ![s] = current] /\ asleep' = [asleep EXCEPT ![s] = FALSE]
    /\ UNCHANGED <<current, alive, lost, lbVars, owed, req, paused, hist>>

Sleep(s) ==
    /\ at # 0 /\ s \in todo /\ Op = "sleep" /\ Reached(s)
    /\ asleep' = [asleep EXCEPT ![s] = TRUE]
    /\ UNCHANGED <<current, alive, lost, lbVars, owed, req, paused, version, hist>>

\* add_servers and remove_servers of the balancer: the counts start at zero.
PoolWith ==
    /\ pool' = pool \cup Elems(Hybrid)
    /\ inflight' = [s \in Servers |-> IF s \in Elems(Hybrid) THEN 0 ELSE inflight[s]]
PoolWithout ==
    /\ pool' = pool \ Elems(Hybrid)
    /\ inflight' = [s \in Servers |-> IF s \in Elems(Hybrid) THEN 0 ELSE inflight[s]]
SamePool == UNCHANGED <<pool, inflight>>

\* add_replicas: replicas that are active are skipped. When the call fails the
\* balancer may have run it or not.
AddServers ==
    /\ at # 0 /\ Op = "add" /\ Advance
    /\ \/ alive /\ SamePool /\ UNCHANGED <<alive, lost>>
       \/ ~alive /\ PoolWith /\ alive' = TRUE /\ UNCHANGED lost
       \/ ~alive /\ (PoolWith \/ SamePool) /\ Fails("add") /\ UNCHANGED alive
    /\ UNCHANGED <<current, cache, owed, req, srvVars, hist>>

\* remove_replicas: replicas that are not active are skipped.
RemoveServers ==
    /\ at # 0 /\ Op = "remove" /\ Advance
    /\ \/ ~alive /\ SamePool /\ UNCHANGED <<alive, lost>>
       \/ alive /\ PoolWithout /\ alive' = FALSE /\ UNCHANGED lost
       \/ alive /\ (PoolWithout \/ SamePool) /\ Fails("remove") /\ UNCHANGED alive
    /\ UNCHANGED <<current, cache, owed, req, srvVars, hist>>

Validate ==
    /\ at # 0 /\ Op = "validate" /\ Advance
    /\ UNCHANGED <<current, alive, lost, lbVars, owed, req, srvVars, hist>>

Client(c) ==
    \/ Acquire(c) \/ Release(c) \/ Enter(c) \/ EnterRaises(c)
    \/ Token(c) \/ CutOff(c) \/ Return(c)
Trainer ==
    \/ StartSync \/ AddServers \/ RemoveServers \/ Validate
    \/ \E s \in Servers : Abort(s) \/ AbortFails(s) \/ Resume(s) \/ Load(s) \/ Sleep(s)

Next ==
    \/ \E c \in Clients : Client(c)
    \/ Trainer

Spec == Init /\ [][Next]_vars

\* Clients, actor calls and the trainer go on; servers answer.
FairSpec ==
    /\ Spec /\ WF_vars(Trainer)
    /\ \A c \in Clients : WF_vars(Client(c))

-----------------------------------------------------------------------------
(* Properties *)

Versions == 0..MaxVersion
Requests == [st : {"new", "call", "gen", "back", "done", "failed"},
             srv : Servers \cup {NoServer}, tokens : Seq(Versions), chunk : Seq(Versions),
             limit : Nat, stop : {"none", "completed", "aborted"},
             gs : Versions \cup {NoVersion}, lo : Versions \cup {NoVersion},
             hi : Versions \cup {NoVersion}]

\* The type of the state.
TypeOK ==
    /\ pool \subseteq Servers /\ inflight \in [Servers -> Nat] /\ owed \in [Clients -> Servers \cup {NoServer}]
    /\ cache \in Seq([id : Clients, srv : Servers]) /\ Len(cache) <= CacheSize
    /\ req \in [Clients -> Requests]
    /\ paused \in [Servers -> BOOLEAN] /\ asleep \in [Servers -> BOOLEAN]
    /\ version \in [Servers -> Versions] /\ current \in Versions
    /\ at \in 0..Len(Script) /\ todo \subseteq Servers
    /\ alive \in BOOLEAN /\ lost \subseteq {"abort", "add", "remove"}

Holders(s) ==
    {c \in Clients : \/ req[c].st \in {"call", "gen", "back"} /\ req[c].srv = s
                     \/ owed[c] = s}

(* The load that the balancer counts is real: for a standalone server the  *)
(* calls that hold it and the releases on their way, for a hybrid one,     *)
(* whose count starts over when it is added again, never more than these.  *)
LoadIsReal ==
    \A s \in Servers :
        LET real == Cardinality(Holders(s))
        IN  inflight[s] <= real /\ (s \in Elems(Standalone) => inflight[s] = real)

(* A call is refused only by a sleeping server. If that server is in the    *)
(* pool, adding or removing the hybrid servers has failed before; if the    *)
(* call was running already, an interruption has failed before. So while    *)
(* nothing has failed only a call is refused whose server left the pool    *)
(* between the acquisition and the arrival.                                 *)
RefusalsExplained ==
    [][\A c \in Clients :
          req[c].st # "failed" /\ req'[c].st = "failed" =>
             /\ asleep[req[c].srv]
             /\ req[c].srv \in pool => lost \cap {"add", "remove"} # {}
             /\ req[c].st = "gen" => "abort" \in lost]_vars

(* The calls of one conversation go to one server, as long as that server  *)
(* stays in the pool and fewer other conversations than the cache holds    *)
(* come in between.                                                        *)
StickySession ==
    [][\A c \in Clients :
          /\ Acquire(c) /\ hist[c].srv \in pool
          /\ Cardinality(hist[c].since) < CacheSize
          => req'[c].srv = hist[c].srv]_vars

(* The versions of an answer's tokens never go back, whatever fails, and   *)
(* an answer is bounded by the versions that it reports: by the last one   *)
(* always, by the first one unless an interruption failed, after which     *)
(* weights were loaded under a running call.                               *)
VersionSpan ==
    \A c \in Clients :
        LET t == req[c].tokens
        IN  /\ \A i, k \in 1..Len(t) : i < k => t[i] <= t[k]
            /\ req[c].st = "done" /\ req[c].stop = "completed" =>
                  /\ t # <<>> /\ t[Len(t)] <= req[c].hi
                  /\ "abort" \in lost \/ req[c].lo <= t[1]

(* Every request is answered, or refused by a hybrid server, whatever call *)
(* of the trainer fails: no interruption leaves a request behind a server  *)
(* that is not resumed, and none makes it outgrow the context, where a     *)
(* call of it would be refused.                                            *)
EventuallyAnswered ==
    <>(\A c \in Clients :
          \/ req[c].st = "done"
          \/ req[c].st = "failed" /\ req[c].srv \in Elems(Hybrid))
=============================================================================
