------------------------ MODULE LlmConfigCacheProofs ------------------------
(***************************************************************************)
(* Type correctness and bounded staleness of LlmConfigCache, for every     *)
(* number of callers, task types, every CACHE_TTL and every bound.         *)
(***************************************************************************)
EXTENDS LlmConfigCache, TLAPS

\* A commit at time `now` leaves what was current at or after t current at or
\* after t, as long as t is not in the future.
LEMMA CommitKeepsFresh ==
  ASSUME TypeOK, NEW r \in Rows, log' = [log EXCEPT ![r] = Append(@, now)],
         NEW s \in Rows, NEW v \in Nat, NEW t \in Nat, t <= now,
         CurrentAtOrAfter(s, v, t)
  PROVE  CurrentAtOrAfter(s, v, t)'
<1>1. log \in [Rows -> Seq(Nat)] /\ now \in Nat
  BY DEF TypeOK
<1>2. CASE s = r
  <2>1. log'[s] = Append(log[s], now)
    BY <1>1, <1>2
  <2>2. /\ Len(log'[s]) = Len(log[s]) + 1
        /\ \A i \in 1..Len(log[s]) : log'[s][i] = log[s][i]
        /\ log'[s][Len(log[s]) + 1] = now
    BY <1>1, <2>1
  <2>3. CASE v = Len(log[s])
    BY <1>1, <2>2, <2>3 DEF CurrentAtOrAfter, Version
  <2>4. CASE v < Len(log[s]) /\ log[s][v + 1] >= t
    <3>1. v + 1 \in 1..Len(log[s])
      BY <1>1, <2>4
    <3>2. QED BY <1>1, <2>2, <2>4, <3>1 DEF CurrentAtOrAfter, Version
  <2>5. QED BY <2>3, <2>4 DEF CurrentAtOrAfter, Version
<1>3. CASE s # r
  <2>1. log'[s] = log[s]
    BY <1>1, <1>3
  <2>2. QED BY <2>1 DEF CurrentAtOrAfter, Version
<1>4. QED BY <1>2, <1>3

\* The version read now is current now, so current at or after any past time.
LEMMA ReadIsFresh ==
  ASSUME NEW r \in Rows, NEW t
  PROVE  CurrentAtOrAfter(r, Version(r), t)
BY DEF CurrentAtOrAfter

-----------------------------------------------------------------------------
\* What a read of the provider row can come to.
LEMMA ReadTypes ==
  /\ \A v \in Nat : VersionRead(v) \in Reads /\ ~VersionRead(v).failed /\ VersionRead(v).of = v
  /\ \A t \in Nat : ReadFailed(t) \in Reads /\ ReadFailed(t).failed /\ ReadFailed(t).of = t
BY DEF VersionRead, ReadFailed, Reads

LEMMA NoFetchType == NoFetch \in Fetches
BY ReadTypes DEF NoFetch, Fetches, Configs

LEMMA InitTypeOK == Init => TypeOK
BY NoFetchType DEF Init, TypeOK

LEMMA NextTypeOK == TypeOK /\ [Next]_vars => TypeOK'
<1> SUFFICES ASSUME TypeOK, [Next]_vars PROVE TypeOK'
  OBVIOUS
<1> USE DEF TypeOK
<1>1. ASSUME NEW r \in Rows, Commit(r) \/ CommitSilently(r) PROVE TypeOK'
  <2>1. log' = [log EXCEPT ![r] = Append(@, now)]
    BY <1>1 DEF Commit, CommitSilently
  <2>2. Append(log[r], now) \in Seq(Nat)
    OBVIOUS
  <2>3. log' \in [Rows -> Seq(Nat)]
    BY <2>1, <2>2
  <2>4. clears' \in Nat
    BY <1>1 DEF Commit, CommitSilently
  <2>5. UNCHANGED <<now, config_cache, pc, task, fetch, used>>
    BY <1>1 DEF Commit, CommitSilently
  <2>6. QED BY <2>3, <2>4, <2>5
<1>2. CASE LoseClear \/ ClearConfigCache
  BY <1>2 DEF LoseClear, ClearConfigCache
<1>3. ASSUME NEW c \in Callers, NEW tt \in TaskTypes, StartRequest(c, tt)
      PROVE TypeOK'
  BY <1>3 DEF StartRequest
<1>4. ASSUME NEW c \in Callers, CallerStep(c) PROVE TypeOK'
  <2>1. ASSUME NEW cfg \in Configs, NEW since \in Nat, NEW hit \in BOOLEAN,
               Return(c, cfg, since, hit)
        PROVE  /\ used' \in [Callers -> Seq(Answers)]
               /\ pc' \in [Callers -> {"idle", "get", "resolve", "provider", "reply", "served"}]
    <3> DEFINE a == [config |-> cfg, at |-> now, since |-> since, hit |-> hit]
    <3>1. a \in Answers
      BY <2>1 DEF Answers
    <3>2. Append(used[c], a) \in Seq(Answers)
      BY <3>1
    <3>3. used' = [used EXCEPT ![c] = Append(@, a)]
      BY <2>1 DEF Return
    <3>4. pc' \in [Callers -> {"idle", "get", "resolve", "provider", "reply", "served"}]
      BY <2>1 DEF Return
    <3>5. QED BY <3>2, <3>3, <3>4
  <2>2. CASE GetHit(c)
    <3>1. PICK e \in config_cache : Return(c, e.config, e.ts, TRUE)
      BY <2>2 DEF GetHit
    <3>2. e.config \in Configs /\ e.ts \in Nat
      BY DEF Entries
    <3>3. QED BY <2>1, <2>2, <3>1, <3>2 DEF GetHit
  <2>3. CASE GetMiss(c)
    <3>1. fetch' = [fetch EXCEPT ![c] = [fetch[c] EXCEPT !.started = now]]
      BY <2>3 DEF GetMiss
    <3>2. [fetch[c] EXCEPT !.started = now] \in Fetches
      BY DEF Fetches
    <3>3. fetch' \in [Callers -> Fetches]
      BY <3>1, <3>2
    <3>4. pc' \in [Callers -> {"idle", "get", "resolve", "provider", "reply", "served"}]
      BY <2>3 DEF GetMiss
    <3>5. UNCHANGED <<now, log, config_cache, clears, task, used>>
      BY <2>3 DEF GetMiss
    <3>6. QED BY <3>3, <3>4, <3>5
  <2>4. CASE ResolveConfigRow(c) \/ ResolveProviderRow(c)
    <3>1. \A r \in Rows : Version(r) \in Nat
      BY DEF Version
    <3>2. task[c] \in Rows /\ Provider \in Rows
      BY DEF Rows
    <3>3. \/ fetch' = [fetch EXCEPT ![c] = [fetch[c] EXCEPT !.rows =
                         [fetch[c].rows EXCEPT !.config = Version(task[c])]]]
          \/ \E p \in {VersionRead(Version(Provider)), ReadFailed(now)} :
               fetch' = [fetch EXCEPT ![c] = [fetch[c] EXCEPT !.rows =
                           [fetch[c].rows EXCEPT !.provider = p]]]
      BY <2>4 DEF ResolveConfigRow, ResolveProviderRow
    <3>4. \E f \in Fetches : fetch' = [fetch EXCEPT ![c] = f]
      <4>1. /\ [fetch[c].rows EXCEPT !.config = Version(task[c])] \in Configs
            /\ \A p \in Reads : [fetch[c].rows EXCEPT !.provider = p] \in Configs
        BY <3>1, <3>2 DEF Fetches, Configs
      <4>4. {VersionRead(Version(Provider)), ReadFailed(now)} \subseteq Reads
        BY <3>1, <3>2, ReadTypes
      <4>2. \A rows \in Configs : [fetch[c] EXCEPT !.rows = rows] \in Fetches
        BY DEF Fetches
      <4>3. QED BY <3>3, <4>1, <4>2, <4>4
    <3>5. fetch' \in [Callers -> Fetches]
      BY <3>4
    <3>6. pc' \in [Callers -> {"idle", "get", "resolve", "provider", "reply", "served"}]
      BY <2>4 DEF ResolveConfigRow, ResolveProviderRow
    <3>7. UNCHANGED <<now, log, config_cache, clears, task, used>>
      BY <2>4 DEF ResolveConfigRow, ResolveProviderRow
    <3>8. QED BY <3>5, <3>6, <3>7
  <2>5. CASE FetchDone(c)
    <3>1. fetch[c].rows \in Configs /\ fetch[c].started \in Nat
      BY DEF Fetches
    <3>2. /\ used' \in [Callers -> Seq(Answers)]
          /\ pc' \in [Callers -> {"idle", "get", "resolve", "provider", "reply", "served"}]
      BY <2>1, <2>5, <3>1 DEF FetchDone
    <3>3. /\ config_cache' \subseteq Entries
          /\ \A e, f \in config_cache' : e.task = f.task => e = f
      <4> DEFINE new == [task |-> task[c], config |-> fetch[c].rows,
                         ts |-> fetch[c].started]
                 kept == {e \in config_cache : e.task # task[c]}
      <4>1. config_cache' = kept \cup {new}
        BY <2>5 DEF FetchDone, Stored
      <4>2. new \in Entries /\ new.task = task[c]
        BY <3>1 DEF Entries
      <4>3. kept \subseteq Entries /\ \A e \in kept : e.task # task[c] /\ e \in config_cache
        OBVIOUS
      <4> HIDE DEF new, kept
      <4>4. \A e, f \in kept : e.task = f.task => e = f
        BY <4>3
      <4>5. QED BY <4>1, <4>2, <4>3, <4>4
    <3>4. fetch' \in [Callers -> Fetches]
      BY <2>5, NoFetchType DEF FetchDone
    <3>5. UNCHANGED <<now, log, clears, task>>
      BY <2>5 DEF FetchDone
    <3>6. /\ now' \in Nat /\ log' \in [Rows -> Seq(Nat)] /\ clears' \in Nat
          /\ task' \in [Callers -> TaskTypes]
      BY <3>5
    <3>7. QED BY <3>2, <3>3, <3>4, <3>6
  <2>6. CASE FetchFail(c) \/ FinishRequest(c)
    <3>1. pc' \in [Callers -> {"idle", "get", "resolve", "provider", "reply", "served"}]
      BY <2>6 DEF FetchFail, FinishRequest
    <3>2. used' \in [Callers -> Seq(Answers)]
      <4>1. <<>> \in Seq(Answers)
        OBVIOUS
      <4>2. QED BY <2>6, <4>1 DEF FetchFail, FinishRequest
    <3>3. fetch' \in [Callers -> Fetches]
      BY <2>6, NoFetchType DEF FetchFail, FinishRequest
    <3>4. UNCHANGED <<now, log, config_cache, clears, task>>
      BY <2>6 DEF FetchFail, FinishRequest
    <3>5. QED BY <3>1, <3>2, <3>3, <3>4
  <2>7. QED BY <1>4, <2>2, <2>3, <2>4, <2>5, <2>6 DEF CallerStep
<1>5. CASE AgentRestart
  BY <1>5, NoFetchType DEF AgentRestart
<1>6. CASE Tick
  BY <1>6 DEF Tick
<1>7. CASE UNCHANGED vars
  BY <1>7 DEF vars
<1>8. QED BY <1>1, <1>2, <1>3, <1>4, <1>5, <1>6, <1>7 DEF Next

\* Every variable of the cache model keeps its type; in particular the cache
\* never holds two entries for one task type.
THEOREM TypeCorrect == Spec => []TypeOK
<1>1. QED BY InitTypeOK, NextTypeOK, PTL DEF Spec

-----------------------------------------------------------------------------
\* A step takes no time back and leaves fresh what was fresh.
LEMMA StepKeepsFresh ==
  ASSUME TypeOK, [Next]_vars, NEW s \in Rows, NEW v \in Nat, NEW t \in Nat,
         t <= now, CurrentAtOrAfter(s, v, t)
  PROVE  CurrentAtOrAfter(s, v, t)'
<1>1. CASE \E r \in Rows : Commit(r) \/ CommitSilently(r)
  <2>1. PICK r \in Rows : log' = [log EXCEPT ![r] = Append(@, now)]
    BY <1>1 DEF Commit, CommitSilently
  <2>2. QED BY <2>1, CommitKeepsFresh
<1>2. CASE UNCHANGED log
  BY <1>2 DEF CurrentAtOrAfter, Version
<1>3. QED
  BY <1>1, <1>2 DEF Next, vars, LoseClear, ClearConfigCache, StartRequest, CallerStep,
     GetHit, GetMiss, ResolveConfigRow, ResolveProviderRow, FetchDone, FetchFail,
     FinishRequest, AgentRestart, Tick

LEMMA ClockGoesForward ==
  ASSUME TypeOK, [Next]_vars
  PROVE  now' \in Nat /\ now <= now'
<1>1. now' = now \/ now' = now + 1
  BY DEF Next, vars, Commit, CommitSilently, LoseClear, ClearConfigCache, StartRequest,
     CallerStep, GetHit, GetMiss, ResolveConfigRow, ResolveProviderRow, FetchDone,
     FetchFail, FinishRequest, AgentRestart, Tick
<1>2. QED BY <1>1 DEF TypeOK

LEMMA ReadsStayFresh ==
  ASSUME TypeOK, [Next]_vars, NEW p \in Reads, NEW t \in Nat, t <= now,
         ReadAtOrAfter(p, t)
  PROVE  ReadAtOrAfter(p, t)'
<1>1. Provider \in Rows /\ p.of \in Nat
  BY DEF Rows, Reads
<1>2. CASE p.failed
  BY <1>2 DEF ReadAtOrAfter
<1>3. CASE ~p.failed
  BY <1>1, <1>3, StepKeepsFresh DEF ReadAtOrAfter
<1>4. QED BY <1>2, <1>3

LEMMA ConfigsStayFresh ==
  ASSUME TypeOK, [Next]_vars, NEW tt \in TaskTypes, NEW cfg \in Configs,
         NEW t \in Nat, t <= now, FreshSince(tt, cfg, t)
  PROVE  FreshSince(tt, cfg, t)'
<1>1. tt \in Rows /\ cfg.config \in Nat /\ cfg.provider \in Reads
  BY DEF Rows, Configs
<1>2. CurrentAtOrAfter(tt, cfg.config, t)'
  BY <1>1, StepKeepsFresh DEF FreshSince
<1>3. ReadAtOrAfter(cfg.provider, t)'
  BY <1>1, ReadsStayFresh DEF FreshSince
<1>4. QED BY <1>2, <1>3 DEF FreshSince

\* Entries stay fresh for as long as none is added.
LEMMA EntriesStayFresh ==
  ASSUME IInv, [Next]_vars, config_cache' \subseteq config_cache
  PROVE  EntriesFresh'
<1> SUFFICES ASSUME NEW e \in config_cache
             PROVE  e.ts <= now' /\ FreshSince(e.task, e.config, e.ts)'
  BY DEF EntriesFresh
<1>1. TypeOK /\ e.ts <= now /\ FreshSince(e.task, e.config, e.ts)
  BY DEF IInv, EntriesFresh
<1>2. e.task \in TaskTypes /\ e.config \in Configs /\ e.ts \in Nat
  BY <1>1 DEF TypeOK, Entries
<1>3. FreshSince(e.task, e.config, e.ts)'
  BY <1>1, <1>2, ConfigsStayFresh
<1>4. now \in Nat /\ now' \in Nat /\ now <= now'
  BY <1>1, ClockGoesForward DEF TypeOK
<1>5. QED BY <1>1, <1>2, <1>3, <1>4

\* A caller no step touches keeps what holds of it, whoever commits meanwhile.
LEMMA AnswersStayFresh ==
  ASSUME IInv, [Next]_vars, NEW c \in Callers, task'[c] = task[c],
         used'[c] = used[c]
  PROVE  AnswersFresh(c)' /\ AnswersStamped(c)'
<1>1. TypeOK /\ AnswersFresh(c) /\ AnswersStamped(c)
  BY DEF IInv, CallerInv
<1>2. used[c] \in Seq(Answers) /\ task[c] \in TaskTypes
  BY <1>1 DEF TypeOK
<1>3. now \in Nat /\ now' \in Nat /\ now <= now'
  BY <1>1, ClockGoesForward DEF TypeOK
<1> SUFFICES ASSUME NEW i \in 1..Len(used[c])
             PROVE  /\ FreshSince(task[c], used[c][i].config, used[c][i].since)'
                    /\ used[c][i].hit => used[c][i].at - used[c][i].since < CACHE_TTL
                    /\ used[c][i].since <= used[c][i].at /\ used[c][i].at <= now'
  BY DEF AnswersFresh, AnswersStamped, FreshSince, ReadAtOrAfter, CurrentAtOrAfter, Version
<1> DEFINE a == used[c][i]
<1>4. a \in Answers
  BY <1>2
<1>5. a.config \in Configs /\ a.at \in Nat /\ a.since \in Nat
  BY <1>4 DEF Answers
<1>6. /\ FreshSince(task[c], a.config, a.since)
      /\ a.hit => a.at - a.since < CACHE_TTL
      /\ a.since <= a.at /\ a.at <= now
  BY <1>1 DEF AnswersFresh, AnswersStamped
<1> HIDE DEF a
<1>7. a.since <= now /\ a.at <= now'
  BY <1>3, <1>5, <1>6
<1>8. \A tt \in TaskTypes, cfg \in Configs, t \in Nat :
        t <= now /\ FreshSince(tt, cfg, t) => FreshSince(tt, cfg, t)'
  BY <1>1, ConfigsStayFresh
<1>9. FreshSince(task[c], a.config, a.since)'
  BY <1>2, <1>5, <1>6, <1>7, <1>8 DEF a, FreshSince, ReadAtOrAfter, CurrentAtOrAfter, Version
<1>10. QED BY <1>6, <1>7, <1>9 DEF a

LEMMA RowsStayFresh ==
  ASSUME IInv, [Next]_vars, NEW c \in Callers, task'[c] = task[c],
         fetch'[c] = fetch[c]
  PROVE  /\ fetch'[c].started <= now'
         /\ CurrentAtOrAfter(task[c], fetch[c].rows.config, fetch[c].started)
              => CurrentAtOrAfter(task[c], fetch[c].rows.config, fetch[c].started)'
         /\ ReadAtOrAfter(fetch[c].rows.provider, fetch[c].started)
              => ReadAtOrAfter(fetch[c].rows.provider, fetch[c].started)'
<1>1. TypeOK /\ fetch[c].started <= now
  BY DEF IInv, CallerInv, FetchFresh
<1>2. /\ fetch[c].started \in Nat
      /\ fetch[c].rows.config \in Nat /\ fetch[c].rows.provider \in Reads
      /\ task[c] \in Rows
  BY <1>1 DEF TypeOK, Fetches, Configs, Rows
<1>3. now \in Nat /\ now' \in Nat /\ now <= now'
  BY <1>1, ClockGoesForward DEF TypeOK
<1>4. \A s \in Rows, v, t \in Nat :
        t <= now /\ CurrentAtOrAfter(s, v, t) =>
          (v = Len(log'[s]) \/ (v < Len(log'[s]) /\ log'[s][v + 1] >= t))
  <2>1. \A s \in Rows, v, t \in Nat :
          t <= now /\ CurrentAtOrAfter(s, v, t) => CurrentAtOrAfter(s, v, t)'
    BY <1>1, StepKeepsFresh
  <2>2. QED BY <2>1 DEF CurrentAtOrAfter, Version
<1>5. CurrentAtOrAfter(task[c], fetch[c].rows.config, fetch[c].started)
        => CurrentAtOrAfter(task[c], fetch[c].rows.config, fetch[c].started)'
  <2>1. CurrentAtOrAfter(task[c], fetch[c].rows.config, fetch[c].started)'
          = (\/ fetch[c].rows.config = Len(log'[task[c]])
             \/ /\ fetch[c].rows.config < Len(log'[task[c]])
                /\ log'[task[c]][fetch[c].rows.config + 1] >= fetch[c].started)
    BY DEF CurrentAtOrAfter, Version
  <2>2. QED BY <1>1, <1>2, <1>4, <2>1
<1>6. ReadAtOrAfter(fetch[c].rows.provider, fetch[c].started)
        => ReadAtOrAfter(fetch[c].rows.provider, fetch[c].started)'
  <2> DEFINE p == fetch[c].rows.provider
             t == fetch[c].started
  <2>1. p \in Reads /\ t \in Nat /\ t <= now
    BY <1>1, <1>2
  <2>2. \A q \in Reads, u \in Nat :
          u <= now /\ ReadAtOrAfter(q, u) => ReadAtOrAfter(q, u)'
    BY <1>1, ReadsStayFresh
  <2>3. ReadAtOrAfter(fetch[c].rows.provider, fetch[c].started)'
          = (IF p.failed THEN p.of >= t
             ELSE p.of = Len(log'[Provider])
                    \/ (p.of < Len(log'[Provider]) /\ log'[Provider][p.of + 1] >= t))
    BY DEF ReadAtOrAfter, CurrentAtOrAfter, Version
  <2>4. QED BY <2>1, <2>2, <2>3 DEF ReadAtOrAfter, CurrentAtOrAfter, Version
<1>7. fetch'[c].started <= now'
  BY <1>1, <1>2, <1>3
<1>8. QED BY <1>5, <1>6, <1>7

LEMMA CallerStaysFresh ==
  ASSUME IInv, [Next]_vars, NEW c \in Callers, pc'[c] = pc[c], task'[c] = task[c],
         fetch'[c] = fetch[c], used'[c] = used[c]
  PROVE  CallerInv(c)'
<1>1. CallerInv(c)
  BY DEF IInv
<1>2. AnswersFresh(c)' /\ AnswersStamped(c)'
  BY AnswersStayFresh
<1>3. FetchFresh(c)'
  BY <1>1, RowsStayFresh DEF CallerInv, FetchFresh
<1>4. (pc[c] = "idle" => used[c] = <<>>)'
  BY <1>1 DEF CallerInv
<1>5. QED BY <1>2, <1>3, <1>4 DEF CallerInv

\* An answer that is fresh when it is returned joins the fresh answers.
LEMMA ReturnKeepsFresh ==
  ASSUME IInv, NEW c \in Callers, NEW cfg \in Configs, NEW since \in Nat,
         NEW hit \in BOOLEAN, Return(c, cfg, since, hit), UNCHANGED <<now, log, task>>,
         since <= now, FreshSince(task[c], cfg, since),
         hit => now - since < CACHE_TTL
  PROVE  AnswersFresh(c)' /\ AnswersStamped(c)' /\ pc'[c] \in {"get", "served"}
<1> DEFINE a == [config |-> cfg, at |-> now, since |-> since, hit |-> hit]
<1>1. TypeOK /\ AnswersFresh(c) /\ AnswersStamped(c)
  BY DEF IInv, CallerInv
<1>2. used[c] \in Seq(Answers) /\ a \in Answers
  BY <1>1 DEF TypeOK, Answers
<1>3. used'[c] = Append(used[c], a)
  BY <1>1 DEF Return, TypeOK
<1>4. pc'[c] \in {"get", "served"}
  BY <1>1 DEF Return, TypeOK
<1>5. /\ FreshSince(task[c], a.config, a.since)
      /\ a.hit => a.at - a.since < CACHE_TTL
      /\ a.since <= a.at /\ a.at <= now
  BY <1>1 DEF TypeOK
<1> HIDE DEF a
<1>6. \A i \in 1..Len(used'[c]) :
        \/ i \in 1..Len(used[c]) /\ used'[c][i] = used[c][i]
        \/ used'[c][i] = a
  BY <1>2, <1>3
<1>7. \A i \in 1..Len(used'[c]) :
        /\ FreshSince(task[c], used'[c][i].config, used'[c][i].since)
        /\ used'[c][i].hit => used'[c][i].at - used'[c][i].since < CACHE_TTL
        /\ used'[c][i].since <= used'[c][i].at /\ used'[c][i].at <= now
  BY <1>1, <1>5, <1>6 DEF AnswersFresh, AnswersStamped
<1>8. AnswersFresh(c)' /\ AnswersStamped(c)'
  BY <1>7 DEF AnswersFresh, AnswersStamped, FreshSince, ReadAtOrAfter, CurrentAtOrAfter, Version
<1>9. QED BY <1>4, <1>8

-----------------------------------------------------------------------------
LEMMA InitIInv == Init => IInv
<1> SUFFICES ASSUME Init PROVE IInv
  OBVIOUS
<1>1. TypeOK
  BY InitTypeOK
<1>2. QED BY <1>1 DEF Init, IInv, EntriesFresh, CallerInv, FetchFresh, AnswersStamped,
             AnswersFresh, NoFetch

LEMMA NextIInv == IInv /\ [Next]_vars => IInv'
<1> SUFFICES ASSUME IInv, [Next]_vars PROVE IInv'
  OBVIOUS
<1>1. TypeOK /\ TypeOK'
  BY NextTypeOK DEF IInv
<1>2. CASE /\ UNCHANGED <<pc, task, fetch, used>>
           /\ config_cache' \subseteq config_cache
  \* the backend's steps, the clock, and stuttering
  <2>1. EntriesFresh'
    BY <1>2, EntriesStayFresh
  <2>2. \A c \in Callers : CallerInv(c)'
    BY <1>2, CallerStaysFresh
  <2>3. QED BY <1>1, <2>1, <2>2 DEF IInv
<1>3. ASSUME NEW c \in Callers, NEW tt \in TaskTypes, StartRequest(c, tt)
      PROVE  IInv'
  <2>1. EntriesFresh'
    BY <1>3, EntriesStayFresh DEF StartRequest
  <2>2. ASSUME NEW d \in Callers, d # c PROVE CallerInv(d)'
    BY <1>1, <1>3, <2>2, CallerStaysFresh DEF StartRequest, TypeOK
  <2>3. CallerInv(c)'
    <3>1. used'[c] = <<>> /\ pc'[c] = "get"
      BY <1>1, <1>3 DEF IInv, CallerInv, StartRequest, TypeOK
    <3>2. fetch'[c].started <= now'
      BY <1>3 DEF IInv, CallerInv, FetchFresh, StartRequest
    <3>3. QED BY <3>1, <3>2 DEF CallerInv, FetchFresh, AnswersStamped, AnswersFresh
  <2>4. QED BY <1>1, <2>1, <2>2, <2>3 DEF IInv
<1>4. ASSUME NEW c \in Callers, CallerStep(c)
      PROVE  IInv'
  <2>1. ASSUME NEW d \in Callers, d # c PROVE CallerInv(d)'
    <3>1. pc'[d] = pc[d] /\ task'[d] = task[d] /\ fetch'[d] = fetch[d] /\ used'[d] = used[d]
      BY <1>1, <1>4, <2>1 DEF CallerStep, GetHit, GetMiss, ResolveConfigRow,
         ResolveProviderRow, FetchDone, FetchFail, FinishRequest, Return, TypeOK
    <3>2. QED BY <3>1, CallerStaysFresh
  <2>2. SUFFICES EntriesFresh' /\ CallerInv(c)'
    BY <1>1, <2>1 DEF IInv
  <2>3. CallerInv(c) /\ task[c] \in TaskTypes /\ fetch[c] \in Fetches /\ now \in Nat
    BY <1>1 DEF IInv, TypeOK
  <2>4. CASE GetHit(c)
    <3>1. PICK e \in config_cache : Valid(e, task[c]) /\ Return(c, e.config, e.ts, TRUE)
      BY <2>4 DEF GetHit
    <3>2. /\ e.config \in Configs /\ e.ts \in Nat /\ e.ts <= now
          /\ FreshSince(task[c], e.config, e.ts) /\ now - e.ts < CACHE_TTL
      BY <1>1, <3>1 DEF IInv, EntriesFresh, TypeOK, Entries, Valid
    <3>3. AnswersFresh(c)' /\ AnswersStamped(c)' /\ pc'[c] \in {"get", "served"}
      BY <2>4, <3>1, <3>2, ReturnKeepsFresh DEF GetHit
    <3>4. FetchFresh(c)'
      BY <2>3, <2>4, <3>3 DEF CallerInv, FetchFresh, GetHit
    <3>5. EntriesFresh'
      BY <2>4, EntriesStayFresh DEF GetHit
    <3>6. QED BY <3>3, <3>4, <3>5 DEF CallerInv
  <2>5. CASE GetMiss(c)
    <3>1. fetch'[c].started = now /\ pc'[c] = "resolve" /\ now' = now
      BY <1>1, <2>5 DEF GetMiss, TypeOK, Fetches
    <3>2. FetchFresh(c)'
      BY <2>3, <3>1 DEF FetchFresh
    <3>3. AnswersFresh(c)' /\ AnswersStamped(c)'
      BY <2>5, AnswersStayFresh DEF GetMiss
    <3>4. EntriesFresh'
      BY <2>5, EntriesStayFresh DEF GetMiss
    <3>5. QED BY <3>1, <3>2, <3>3, <3>4 DEF CallerInv
  <2>6. CASE ResolveConfigRow(c)
    <3>1. /\ fetch'[c].started = fetch[c].started
          /\ fetch'[c].rows.config = Version(task[c])
          /\ pc'[c] = "provider" /\ UNCHANGED <<now, log, task>>
      BY <1>1, <2>6 DEF ResolveConfigRow, TypeOK, Fetches, Configs
    <3>2. FetchFresh(c)'
      BY <2>3, <3>1 DEF CallerInv, FetchFresh, CurrentAtOrAfter, Version
    <3>3. AnswersFresh(c)' /\ AnswersStamped(c)'
      BY <2>6, AnswersStayFresh DEF ResolveConfigRow
    <3>4. EntriesFresh'
      BY <2>6, EntriesStayFresh DEF ResolveConfigRow
    <3>5. QED BY <3>1, <3>2, <3>3, <3>4 DEF CallerInv
  <2>7. CASE ResolveProviderRow(c)
    <3>1. /\ fetch'[c].started = fetch[c].started
          /\ fetch'[c].rows.config = fetch[c].rows.config
          /\ fetch'[c].rows.provider \in {VersionRead(Version(Provider)), ReadFailed(now)}
          /\ pc'[c] = "reply" /\ UNCHANGED <<now, log, task>>
      BY <1>1, <2>7 DEF ResolveProviderRow, TypeOK, Fetches, Configs
    <3>2. CurrentAtOrAfter(task[c], fetch[c].rows.config, fetch[c].started)
      BY <2>3, <2>7 DEF CallerInv, FetchFresh, ResolveProviderRow
    <3>3. FetchFresh(c)'
      <4>1. fetch[c].started <= now /\ now \in Nat /\ Version(Provider) \in Nat
        BY <1>1, <2>3 DEF CallerInv, FetchFresh, TypeOK, Version, Rows
      <4>2. ReadAtOrAfter(fetch'[c].rows.provider, fetch[c].started)
        BY <3>1, <4>1, ReadTypes DEF ReadAtOrAfter, CurrentAtOrAfter
      <4>3. QED BY <2>3, <3>1, <3>2, <4>2 DEF CallerInv, FetchFresh, ReadAtOrAfter,
                   CurrentAtOrAfter, Version
    <3>4. AnswersFresh(c)' /\ AnswersStamped(c)'
      BY <2>7, AnswersStayFresh DEF ResolveProviderRow
    <3>5. EntriesFresh'
      BY <2>7, EntriesStayFresh DEF ResolveProviderRow
    <3>6. QED BY <3>1, <3>3, <3>4, <3>5 DEF CallerInv
  <2>8. CASE FetchDone(c)
    <3> DEFINE new == [task |-> task[c], config |-> fetch[c].rows, ts |-> fetch[c].started]
    <3>1. /\ fetch[c].rows \in Configs /\ fetch[c].started \in Nat
          /\ fetch[c].started <= now /\ FreshSince(task[c], fetch[c].rows, fetch[c].started)
      BY <2>3, <2>8 DEF CallerInv, FetchFresh, FreshSince, FetchDone, Fetches
    <3>2. AnswersFresh(c)' /\ AnswersStamped(c)' /\ pc'[c] \in {"get", "served"}
      BY <2>8, <3>1, ReturnKeepsFresh DEF FetchDone
    <3>3. fetch'[c] = NoFetch
      BY <1>1, <2>8 DEF FetchDone, TypeOK
    <3>4. now' = now
      BY <2>8 DEF FetchDone
    <3>5. FetchFresh(c)'
      BY <2>3, <3>2, <3>3, <3>4 DEF FetchFresh, NoFetch
    <3>6. EntriesFresh'
      <4>1. \A e \in config_cache' : e \in config_cache \/ e = new
        BY <2>8 DEF FetchDone, Stored
      <4>2. \A e \in config_cache : e.ts <= now /\ FreshSince(e.task, e.config, e.ts)
        BY DEF IInv, EntriesFresh
      <4>3. new.ts <= now /\ FreshSince(new.task, new.config, new.ts)
        BY <3>1
      <4> HIDE DEF new
      <4>4. \A e \in config_cache' : e.ts <= now /\ FreshSince(e.task, e.config, e.ts)
        BY <4>1, <4>2, <4>3
      <4>5. log' = log
        BY <2>8 DEF FetchDone
      <4>6. QED BY <3>4, <4>4, <4>5 DEF EntriesFresh, FreshSince, ReadAtOrAfter,
             CurrentAtOrAfter, Version
    <3>7. QED BY <3>2, <3>5, <3>6 DEF CallerInv
  <2>9. CASE FetchFail(c) \/ FinishRequest(c)
    <3>1. used'[c] = <<>> /\ pc'[c] = "idle"
      BY <1>1, <2>9 DEF FetchFail, FinishRequest, TypeOK
    <3>2. fetch'[c].started <= now'
      BY <1>1, <2>3, <2>9 DEF FetchFail, FinishRequest, CallerInv, FetchFresh, NoFetch, TypeOK
    <3>3. CallerInv(c)'
      BY <3>1, <3>2 DEF CallerInv, FetchFresh, AnswersStamped, AnswersFresh
    <3>4. EntriesFresh'
      BY <2>9, EntriesStayFresh DEF FetchFail, FinishRequest
    <3>5. QED BY <3>3, <3>4
  <2>10. QED
    BY <1>4, <2>4, <2>5, <2>6, <2>7, <2>8, <2>9 DEF CallerStep
<1>5. CASE AgentRestart
  <2>1. EntriesFresh'
    BY <1>5, EntriesStayFresh DEF AgentRestart
  <2>2. ASSUME NEW c \in Callers PROVE CallerInv(c)'
    BY <1>1, <1>5 DEF AgentRestart, CallerInv, FetchFresh, AnswersStamped, AnswersFresh,
       NoFetch, TypeOK
  <2>3. QED BY <1>1, <2>1, <2>2 DEF IInv
<1>6. QED
  BY <1>2, <1>3, <1>4, <1>5 DEF Next, vars, Commit, CommitSilently, LoseClear,
     ClearConfigCache, Tick

\* A configuration the agent serves from its cache is never more than CACHE_TTL
\* out of date and one it fetches is current since the fetch began, for any
\* number of concurrent requests, lost clears and restarts: get_llm_config.
THEOREM StalenessBounded == Spec => []BoundedStaleness
<1>1. IInv => BoundedStaleness
  BY DEF IInv, CallerInv, BoundedStaleness
<1>2. QED BY InitIInv, NextIInv, <1>1, PTL DEF Spec
=============================================================================
