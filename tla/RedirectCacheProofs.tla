------------------------ MODULE RedirectCacheProofs ------------------------
(* Theorems about RedirectCache for every number of urls, requests and      *)
(* timer values.                                                           *)
EXTENDS RedirectCache, TLAPS

\* What a request in flight carries.
ReqCarries(q) ==
  /\ q.pc \in {"seturl", "answer"} => q.url \in Urls
  /\ q.pc = "seturl" => q.ttl \in 1 .. MaxLife

JobCarries(j) ==
  /\ j.pc = "store" => j.op = "create" /\ j.url \in Urls /\ j.exp \in 1 .. MaxLife
  /\ j.pc = "commit" => j.op \in {"patch", "delete"}
  /\ j.op = "patch" => j.exp \in 0 .. MaxExp \cup {None}

Carried ==
  /\ \A h \in Readers : ReqCarries(req[h])
  /\ \A w \in Writers : JobCarries(job[w])

Types == TypeOK /\ Carried

\* What a request in flight has read is at most as outdated as it is old; an
\* answer may come from an outdated Redis entry.
ReqFresh(q) ==
  /\ q.pc = "seturl" /\ q.url # Answer => age <= q.span
  /\ q.pc = "setgone" /\ Answer # None => age <= q.span
  /\ q.pc = "answer" /\ q.url # Answer => age <= MaxLife + Span + q.span

JobFresh(j) == j.pc = "store" /\ j.url # Answer => age <= j.span

Bounds ==
  /\ \A h \in Readers : ReqFresh(req[h])
  /\ \A w \in Writers : JobFresh(job[w])
  /\ StaleRedirectEnds
  /\ NegativeCacheEnds
  /\ StaleEdgeEnds

-----------------------------------------------------------------------------
(* Arithmetic of lifetimes.                                                *)

LEMMA LifeBounds ==
  /\ MaxLife \in Nat /\ Day <= MaxLife /\ MaxExp <= MaxLife
  /\ Day \in 1 .. MaxLife
  /\ AgeCap \in Nat
  /\ AgeCap = MaxLife + EdgeTtl + 2 * Span + 1
BY TimeAssumption DEF MaxLife, AgeCap

LEMMA Truncation ==
  ASSUME NEW x \in Nat, NEW s \in Nat \ {0}
  PROVE  (x \div s) * s \in 0 .. x
<1>1. x \div s \in Nat
  OBVIOUS
<1>2. x = ((x \div s) * s) + (x % s)
  OBVIOUS
<1>3. x % s \in Nat
  OBVIOUS
<1>4. (x \div s) * s \in Nat
  BY <1>1
<1> QED
  BY <1>2, <1>3, <1>4

LEMMA LifeOfType ==
  ASSUME NEW e \in Lifetimes
  PROVE  LifeOf(e) \in 1 .. MaxLife
<1>1. CASE e = Never
  BY <1>1, LifeBounds DEF LifeOf
<1>2. CASE e # Never
  <2>1. e \in 0 .. MaxExp
    BY <1>2 DEF Lifetimes
  <2>2. (e \div Second) * Second \in 0 .. e
    BY <2>1, Truncation, TimeAssumption
  <2> DEFINE ttl == (e \div Second) * Second
  <2>3. ttl > 0 => ttl \in 1 .. MaxLife
    <3> HIDE DEF ttl
    <3>1. ttl \in 0 .. e
      BY <2>2 DEF ttl
    <3> QED
      BY <3>1, <2>1, LifeBounds, TimeAssumption
  <2>4. LifeOf(e) = IF ttl > 0 THEN ttl ELSE Day
    BY <1>2 DEF LifeOf
  <2> QED
    <3> HIDE DEF ttl
    <3> QED
      BY <2>3, <2>4, LifeBounds
<1> QED
  BY <1>1, <1>2

LEMMA LessType ==
  /\ \A n \in Nat : \A t \in 0 .. n : Less(t) \in 0 .. n /\ Less(t) <= t
  /\ Less(None) = None
  /\ Less(Never) = Never
BY UrlAssumption, TimeAssumption DEF Less

-----------------------------------------------------------------------------
(* One request changes: the others keep their type.                        *)

LEMMA ReqOne ==
  ASSUME Types, NEW h \in Readers, NEW q \in ReqType, ReqCarries(q),
         req' = [req EXCEPT ![h] = q]
  PROVE  /\ req' \in [Readers -> ReqType]
         /\ \A g \in Readers : ReqCarries(req'[g])
<1> USE DEF Types, TypeOK, Carried
<1>1. req' \in [Readers -> ReqType]
  OBVIOUS
<1>2. ASSUME NEW g \in Readers
      PROVE  ReqCarries(req'[g])
  <2>1. req'[g] = IF g = h THEN q ELSE req[g]
    OBVIOUS
  <2> QED
    BY <2>1
<1> QED
  BY <1>1, <1>2

LEMMA JobOne ==
  ASSUME Types, NEW w \in Writers, NEW j \in JobType, JobCarries(j),
         job' = [job EXCEPT ![w] = j]
  PROVE  /\ job' \in [Writers -> JobType]
         /\ \A v \in Writers : JobCarries(job'[v])
<1> USE DEF Types, TypeOK, Carried
<1>1. job' \in [Writers -> JobType]
  OBVIOUS
<1>2. ASSUME NEW v \in Writers
      PROVE  JobCarries(job'[v])
  <2>1. job'[v] = IF v = w THEN j ELSE job[v]
    OBVIOUS
  <2> QED
    BY <2>1
<1> QED
  BY <1>1, <1>2

\* The rest of a request's step: the other variables keep their type.
LEMMA ReqStep ==
  ASSUME Types, NEW h \in Readers, NEW q \in ReqType, ReqCarries(q),
         req' = [req EXCEPT ![h] = q], UNCHANGED <<row, job, age>>,
         r' \in {NoEntry} \cup KeyType,
         gone' \in 0 .. GoneTtl,
         edge' \in {NoObject} \cup ObjectType
  PROVE  Types'
<1>1. /\ req' \in [Readers -> ReqType]
      /\ \A g \in Readers : ReqCarries(req'[g])
  BY ReqOne
<1>2. \A w \in Writers : JobCarries(job'[w])
  BY DEF Types, Carried
<1>3. TypeOK'
  BY <1>1 DEF Types, TypeOK
<1> QED
  BY <1>1, <1>2, <1>3 DEF Types, Carried

LEMMA JobStep ==
  ASSUME Types, NEW w \in Writers, NEW j \in JobType, JobCarries(j),
         job' = [job EXCEPT ![w] = j], UNCHANGED req,
         row' \in [state : {"absent", "live", "deleted"}, url : Urls \cup {None},
                   exp : Lifetimes],
         r' \in {NoEntry} \cup KeyType,
         gone' \in 0 .. GoneTtl,
         edge' \in {NoObject} \cup ObjectType,
         age' \in 0 .. AgeCap
  PROVE  Types'
<1>1. /\ job' \in [Writers -> JobType]
      /\ \A v \in Writers : JobCarries(job'[v])
  BY JobOne
<1>2. \A h \in Readers : ReqCarries(req'[h])
  BY DEF Types, Carried
<1>3. TypeOK'
  BY <1>1 DEF Types, TypeOK
<1> QED
  BY <1>1, <1>2, <1>3 DEF Types, Carried

LEMMA TypesInit == Init => Types
<1> SUFFICES ASSUME Init
             PROVE  Types
  OBVIOUS
<1>1. row \in [state : {"absent", "live", "deleted"}, url : Urls \cup {None},
               exp : Lifetimes]
  <2>1. Exps \cup {Never} \subseteq Lifetimes
    BY TimeAssumption DEF Lifetimes
  <2> QED
    BY <2>1, UrlAssumption DEF Init, Row
<1>2. Resting \in ReqType /\ ReqCarries(Resting)
  BY LifeBounds, TimeAssumption DEF Resting, Req, ReqType, ReqCarries
<1>3. Waiting \in JobType /\ JobCarries(Waiting)
  BY LifeBounds, TimeAssumption DEF Waiting, Job, JobType, JobCarries
<1>4. /\ r \in {NoEntry} \cup KeyType
      /\ gone \in 0 .. GoneTtl
      /\ edge \in {NoObject} \cup ObjectType
      /\ age \in 0 .. AgeCap
  BY LifeBounds, TimeAssumption DEF Init, NoEntry, Key, NoObject, Object
<1> QED
  BY <1>1, <1>2, <1>3, <1>4 DEF Init, Types, TypeOK, Carried

LEMMA AnswerType ==
  ASSUME Types
  PROVE  Answer \in Urls \cup {None}
BY DEF Types, TypeOK, Answer, AnswerOf

LEMMA TypesRedirect ==
  ASSUME Types, NEW h \in Readers, Redirect(h)
  PROVE  Types'
<1> USE DEF Go, Finish
<1>0. /\ req[h] \in ReqType /\ ReqCarries(req[h])
      /\ row.exp \in Lifetimes
      /\ r \in {NoEntry} \cup KeyType
      /\ gone \in 0 .. GoneTtl
      /\ edge \in {NoObject} \cup ObjectType
  BY DEF Types, TypeOK, Carried
<1>1. Resting \in ReqType /\ ReqCarries(Resting)
  BY LifeBounds, TimeAssumption DEF Resting, Req, ReqType, ReqCarries
<1>2. CASE ReadUrl(h)
  <2> DEFINE q == Req(IF r = NoEntry THEN "exists" ELSE "answer", r.url, 0, req[h].span)
  <2>1. q \in ReqType
    BY <1>0, LifeBounds DEF Req, ReqType, NoEntry, Key, KeyType
  <2>2. ReqCarries(q)
    <3>1. CASE r = NoEntry
      BY <3>1 DEF Req, ReqCarries
    <3>2. CASE r # NoEntry
      BY <3>2, <1>0 DEF Req, ReqCarries, KeyType
    <3> QED
      BY <3>1, <3>2
  <2>3. req' = [req EXCEPT ![h] = q] /\ UNCHANGED <<row, r, gone, edge, job, age>>
    BY <1>2 DEF ReadUrl
  <2> QED
    BY <2>1, <2>2, <2>3, <1>0, ReqStep
<1>3. CASE ReadGone(h)
  <2>1. Req("select", None, 0, req[h].span) \in ReqType
    BY <1>0, LifeBounds DEF Req, ReqType
  <2>2. ReqCarries(Req("select", None, 0, req[h].span))
    BY DEF Req, ReqCarries
  <2>3. UNCHANGED <<row, r, gone, edge, job, age>>
    BY <1>3 DEF ReadGone
  <2>4. \/ req' = [req EXCEPT ![h] = Resting]
        \/ req' = [req EXCEPT ![h] = Req("select", None, 0, req[h].span)]
    BY <1>3 DEF ReadGone
  <2> QED
    BY <2>1, <2>2, <2>3, <2>4, <1>0, <1>1, ReqStep
<1>4. CASE Select(h)
  <2> DEFINE p == Req("setgone", None, 0, req[h].span)
             q == Req("seturl", Answer, LifeOf(row.exp), req[h].span)
  <2>1. p \in ReqType /\ ReqCarries(p)
    BY <1>0, LifeBounds DEF Req, ReqType, ReqCarries
  <2>2. LifeOf(row.exp) \in 1 .. MaxLife
    BY <1>0, LifeOfType
  <2>3. Answer # None => q \in ReqType /\ ReqCarries(q)
    BY <2>2, <1>0, LifeBounds, AnswerType DEF Req, ReqType, ReqCarries
  <2>4. UNCHANGED <<row, r, gone, edge, job, age>>
    BY <1>4 DEF Select
  <2>5. \/ req' = [req EXCEPT ![h] = p]
        \/ Answer # None /\ req' = [req EXCEPT ![h] = q]
    BY <1>4 DEF Select
  <2> QED
    BY <2>1, <2>3, <2>4, <2>5, <1>0, ReqStep
<1>5. CASE SetUrl(h)
  <2> DEFINE q == Req("answer", req[h].url, 0, req[h].span)
  <2>1. /\ req[h].url \in Urls /\ req[h].ttl \in 1 .. MaxLife
        /\ r' = Key(req[h].url, req[h].ttl, req[h].url # Answer)
        /\ req' = [req EXCEPT ![h] = q]
        /\ UNCHANGED <<row, gone, edge, job, age>>
    BY <1>5, <1>0 DEF SetUrl, Entry, ReqCarries
  <2>2. q \in ReqType /\ ReqCarries(q)
    BY <2>1, <1>0, LifeBounds DEF Req, ReqType, ReqCarries
  <2>3. r' \in {NoEntry} \cup KeyType
    BY <2>1 DEF Key, KeyType
  <2> QED
    BY <2>1, <2>2, <2>3, <1>0, ReqStep
<1>6. CASE SetGone(h)
  <2>1. gone' \in 0 .. GoneTtl
    BY <1>6, TimeAssumption DEF SetGone
  <2> QED
    BY <2>1, <1>6, <1>0, <1>1, ReqStep DEF SetGone
<1>7. CASE Reply(h)
  <2>1. edge' \in {NoObject} \cup ObjectType
    BY <1>7, <1>0, TimeAssumption DEF Reply, Object, ObjectType, ReqCarries
  <2> QED
    BY <2>1, <1>7, <1>0, <1>1, ReqStep DEF Reply
<1>8. CASE ReadFails(h)
  BY <1>8, <1>0, <1>1, ReqStep DEF ReadFails
<1> QED
  BY <1>2, <1>3, <1>4, <1>5, <1>6, <1>7, <1>8 DEF Redirect

LEMMA AgeType ==
  ASSUME Types, NEW new
  PROVE  AgeAfter(new) \in 0 .. AgeCap
BY LifeBounds DEF Types, TypeOK, AgeAfter

LEMMA TypesWrite ==
  ASSUME Types, NEW w \in Writers, Write(w)
  PROVE  Types'
<1>0. /\ job[w] \in JobType /\ JobCarries(job[w])
      /\ row \in [state : {"absent", "live", "deleted"}, url : Urls \cup {None},
                  exp : Lifetimes]
      /\ r \in {NoEntry} \cup KeyType
      /\ gone \in 0 .. GoneTtl
      /\ edge \in {NoObject} \cup ObjectType
      /\ age \in 0 .. AgeCap
  BY DEF Types, TypeOK, Carried
<1>1. Exps \subseteq 0 .. MaxExp /\ Exps \cup {Never} \subseteq Lifetimes
  BY TimeAssumption DEF Lifetimes
<1>2. ASSUME NEW pc \in {"done", "broken"}, Close(w, pc)
      PROVE  \E j \in JobType : JobCarries(j) /\ job' = [job EXCEPT ![w] = j]
  <2> DEFINE j == Job(pc, job[w].op, None, None, 0, 0)
  <2>1. j \in JobType /\ JobCarries(j)
    BY <1>0, TimeAssumption DEF Job, JobType, JobCarries
  <2> QED
    BY <2>1, <1>2 DEF Close
<1>3. ASSUME NEW pc \in {"drop_url", "drop_gone", "commit", "purge"},
             NEW n \in 0 .. 2, Proceed(w, pc, n), pc = "commit" => job[w].op = "patch"
      PROVE  \E j \in JobType : JobCarries(j) /\ job' = [job EXCEPT ![w] = j]
  <2> DEFINE j == Job(pc, job[w].op, job[w].url, job[w].exp, n, job[w].span)
  <2>1. j \in JobType /\ JobCarries(j)
    BY <1>0, <1>3 DEF Job, JobType, JobCarries
  <2> QED
    BY <2>1, <1>3 DEF Proceed
<1>4. ASSUME NEW u \in Urls, NEW e \in Exps \cup {Never}, Create(w, u, e)
      PROVE  Types'
  <2> DEFINE j == Job("store", "create", u, LifeOf(e), 0, 0)
  <2>1. LifeOf(e) \in 1 .. MaxLife
    BY <1>1, LifeOfType
  <2>2. j \in JobType /\ JobCarries(j)
    BY <2>1, TimeAssumption DEF Job, JobType, JobCarries
  <2>3. /\ row' \in [state : {"absent", "live", "deleted"}, url : Urls \cup {None},
                     exp : Lifetimes]
    BY <1>4, <1>1, UrlAssumption DEF Create, Row
  <2>4. /\ job' = [job EXCEPT ![w] = j]
        /\ UNCHANGED <<r, gone, edge, req>>
        /\ age' \in 0 .. AgeCap
    BY <1>4, AgeType DEF Create
  <2> QED
    BY <2>2, <2>3, <2>4, <1>0, JobStep
<1>5. ASSUME NEW u \in Urls \cup {None}, NEW e \in Exps \cup {None}, Patch(w, u, e)
      PROVE  Types'
  <2> DEFINE n == (IF u = None THEN 0 ELSE 1) + (IF e = None THEN 0 ELSE 1)
             j == Job(IF n = 0 THEN "commit" ELSE "drop_url", "patch",
                      Change(u, row.url), Change(e, row.exp), n, 0)
  <2>1. n \in 0 .. 2
    OBVIOUS
  <2>2. Change(u, row.url) \in Urls \cup {None}
    BY DEF Change
  <2>3. Change(e, row.exp) \in 0 .. MaxExp \cup {None}
    BY <1>1 DEF Change
  <2>4. j \in JobType /\ JobCarries(j)
    <3> HIDE DEF n
    <3> QED
      BY <2>1, <2>2, <2>3, LifeBounds, TimeAssumption DEF Job, JobType, JobCarries
  <2>5. job' = [job EXCEPT ![w] = j] /\ UNCHANGED <<row, r, gone, edge, req, age>>
    BY <1>5 DEF Patch
  <2> QED
    BY <2>4, <2>5, <1>0, JobStep
<1>6. CASE Store(w)
  <2>1. r' \in {NoEntry} \cup KeyType
    BY <1>6, <1>0 DEF Store, Entry, Key, KeyType, JobCarries
  <2>2. UNCHANGED <<row, gone, edge, req, age>> /\ Close(w, "done")
    BY <1>6 DEF Store
  <2> QED
    BY <2>1, <2>2, <1>2, <1>0, JobStep
<1>7. CASE Delete(w)
  <2> DEFINE j == Job("commit", "delete", None, None, 1, 0)
  <2>1. j \in JobType /\ JobCarries(j)
    BY TimeAssumption DEF Job, JobType, JobCarries
  <2>2. job' = [job EXCEPT ![w] = j] /\ UNCHANGED <<row, r, gone, edge, req, age>>
    BY <1>7 DEF Delete
  <2> QED
    BY <2>1, <2>2, <1>0, JobStep
<1>8. CASE DropUrl(w)
  <2>1. /\ r' = NoEntry /\ UNCHANGED <<row, gone, edge, req, age>>
        /\ Proceed(w, "drop_gone", job[w].rounds) /\ job[w].rounds \in 0 .. 2
    BY <1>8, <1>0 DEF DropUrl, JobType
  <2> QED
    BY <2>1, <1>3, <1>0, JobStep
<1>9. CASE DropGone(w)
  <2>1. /\ gone' \in 0 .. GoneTtl /\ UNCHANGED <<row, r, edge, req, age>>
        /\ job[w].rounds - 1 \in 0 .. 2 \/ job[w].rounds = 0
    BY <1>9, <1>0, TimeAssumption DEF DropGone, JobType
  <2>2. \/ job[w].rounds > 1 /\ Proceed(w, "drop_url", job[w].rounds - 1)
        \/ job[w].op = "patch" /\ Proceed(w, "commit", 0)
        \/ Proceed(w, "purge", 0)
    BY <1>9 DEF DropGone
  <2>3. \E j \in JobType : JobCarries(j) /\ job' = [job EXCEPT ![w] = j]
    BY <2>1, <2>2, <1>3
  <2> QED
    BY <2>1, <2>3, <1>0, JobStep
<1>10. CASE Commit(w)
  <2>1. /\ Written(w) \in [state : {"absent", "live", "deleted"}, url : Urls \cup {None},
                           exp : Lifetimes]
    <3>1. CASE job[w].op = "delete"
      BY <3>1, <1>0 DEF Written, Row
    <3>2. CASE job[w].op # "delete"
      <4>1. job[w].exp \in 0 .. MaxExp \cup {None} /\ job[w].url \in Urls \cup {None}
        BY <3>2, <1>10, <1>0 DEF Commit, JobCarries, JobType
      <4>2. (IF job[w].exp = None THEN row.exp ELSE job[w].exp) \in Lifetimes
        BY <4>1, <1>0 DEF Lifetimes
      <4> QED
        BY <3>2, <4>1, <4>2, <1>0 DEF Written, Row
    <3> QED
      BY <3>1, <3>2
  <2>2. /\ row' = Written(w) /\ age' \in 0 .. AgeCap /\ UNCHANGED <<r, gone, edge, req>>
        /\ job[w].rounds \in 0 .. 2
        /\ Proceed(w, "drop_url", job[w].rounds) \/ Proceed(w, "purge", job[w].rounds)
    BY <1>10, <1>0, AgeType DEF Commit, JobType
  <2>3. \E j \in JobType : JobCarries(j) /\ job' = [job EXCEPT ![w] = j]
    BY <2>2, <1>3
  <2> QED
    BY <2>1, <2>2, <2>3, <1>0, JobStep
<1>11. CASE Purge(w)
  <2>1. /\ edge' \in {NoObject} \cup ObjectType /\ UNCHANGED <<row, r, gone, req, age>>
        /\ Close(w, "done")
    BY <1>11, <1>0 DEF Purge
  <2> QED
    BY <2>1, <1>2, <1>0, JobStep
<1>12. CASE WriteFails(w)
  <2>1. UNCHANGED <<row, r, gone, edge, req, age>> /\ Close(w, "broken")
    BY <1>12 DEF WriteFails
  <2> QED
    BY <2>1, <1>2, <1>0, JobStep
<1> QED
  BY <1>4, <1>5, <1>6, <1>7, <1>8, <1>9, <1>10, <1>11, <1>12 DEF Write

LEMMA TypesTick ==
  ASSUME Types, Tick
  PROVE  Types'
<1>0. /\ row \in [state : {"absent", "live", "deleted"}, url : Urls \cup {None},
                  exp : Lifetimes]
      /\ r \in {NoEntry} \cup KeyType
      /\ gone \in 0 .. GoneTtl
      /\ edge \in {NoObject} \cup ObjectType
      /\ age \in 0 .. AgeCap
  BY DEF Types, TypeOK
<1>1. row' \in [state : {"absent", "live", "deleted"}, url : Urls \cup {None},
                exp : Lifetimes]
  <2>1. Less(row.exp) \in Lifetimes
    BY <1>0, LessType, TimeAssumption DEF Lifetimes
  <2> QED
    BY <2>1, <1>0 DEF Tick, Later, Row
<1>2. r' \in {NoEntry} \cup KeyType
  <2>1. CASE r.left > 1
    <3>1. r \in KeyType
      BY <2>1, <1>0 DEF NoEntry, Key
    <3>2. r.left - 1 \in 1 .. MaxLife /\ r.url \in Urls /\ r.late \in BOOLEAN
      BY <3>1, <2>1, LifeBounds DEF KeyType
    <3> QED
      BY <2>1, <3>2 DEF Tick, Key, KeyType
  <2>2. CASE ~(r.left > 1)
    BY <2>2 DEF Tick
  <2> QED
    BY <2>1, <2>2
<1>3. edge' \in {NoObject} \cup ObjectType
  <2>1. CASE edge.left > 1
    <3>1. edge \in ObjectType
      BY <2>1, <1>0 DEF NoObject, Object
    <3>2. edge.left - 1 \in 1 .. EdgeTtl /\ edge.url \in Urls
      BY <3>1, <2>1, TimeAssumption DEF ObjectType
    <3> QED
      BY <2>1, <3>2 DEF Tick, Object, ObjectType
  <2>2. CASE ~(edge.left > 1)
    BY <2>2 DEF Tick
  <2> QED
    BY <2>1, <2>2
<1>4. gone' \in 0 .. GoneTtl
  BY <1>0, LessType, TimeAssumption DEF Tick
<1>5. age' \in 0 .. AgeCap
  BY <1>0, LifeBounds DEF Tick
<1>6. ASSUME NEW h \in Readers
      PROVE  Passed(h) \in ReqType /\ ReqCarries(Passed(h))
  <2>1. req[h] \in ReqType /\ ReqCarries(req[h])
    BY DEF Types, TypeOK, Carried
  <2>2. CASE req[h].pc = "idle"
    BY <2>1, <2>2 DEF Passed
  <2>3. CASE req[h].pc # "idle"
    <3>1. req[h].span + 1 \in 0 .. Span
      BY <2>1, <2>3, TimeAssumption DEF Tick, ReqType
    <3> QED
      BY <3>1, <2>1, <2>3 DEF Passed, Req, ReqType, ReqCarries
  <2> QED
    BY <2>2, <2>3
<1>7. ASSUME NEW w \in Writers
      PROVE  Waited(w) \in JobType /\ JobCarries(Waited(w))
  <2>1. job[w] \in JobType /\ JobCarries(job[w])
    BY DEF Types, TypeOK, Carried
  <2>2. CASE ~Active(w)
    BY <2>1, <2>2 DEF Waited
  <2>3. CASE Active(w)
    <3>1. job[w].span + 1 \in 0 .. Span
      BY <2>1, <2>3, TimeAssumption DEF Tick, JobType
    <3>2. CASE job[w].op = "patch"
      <4>1. Less(job[w].exp) \in 0 .. MaxExp \cup {None}
        BY <3>2, <2>1, LessType, TimeAssumption DEF JobCarries
      <4>2. Waited(w) = Job(job[w].pc, "patch", job[w].url, Less(job[w].exp),
                            job[w].rounds, job[w].span + 1)
        BY <3>2, <2>3 DEF Waited
      <4>3. JobCarries(Waited(w))
        BY <4>1, <4>2, <2>1, <3>2 DEF Job, JobCarries
      <4> QED
        BY <4>1, <4>2, <4>3, <3>1, <2>1, LifeBounds, TimeAssumption DEF Job, JobType
    <3>3. CASE job[w].op # "patch"
      <4>1. Waited(w) = Job(job[w].pc, job[w].op, job[w].url, job[w].exp,
                            job[w].rounds, job[w].span + 1)
        BY <3>3, <2>3 DEF Waited
      <4> QED
        BY <4>1, <3>1, <2>1 DEF Job, JobType, JobCarries
    <3> QED
      BY <3>2, <3>3
  <2> QED
    BY <2>2, <2>3
<1>8. /\ req' = [h \in Readers |-> Passed(h)]
      /\ job' = [w \in Writers |-> Waited(w)]
  BY DEF Tick
<1>9. TypeOK'
  BY <1>1, <1>2, <1>3, <1>4, <1>5, <1>6, <1>7, <1>8 DEF TypeOK
<1>10. Carried'
  BY <1>6, <1>7, <1>8 DEF Carried
<1> QED
  BY <1>9, <1>10 DEF Types

LEMMA TypesNext == Types /\ [Next]_vars => Types'
<1> SUFFICES ASSUME Types, [Next]_vars
             PROVE  Types'
  OBVIOUS
<1>1. CASE UNCHANGED vars
  BY <1>1 DEF vars, Types, TypeOK, Carried
<1> QED
  BY <1>1, TypesRedirect, TypesWrite, TypesTick DEF Next

LEMMA TypesInvariant == Spec => []Types
BY TypesInit, TypesNext, PTL DEF Spec

\* Every reachable state is well typed, for any urls, requests and timer values.
THEOREM RedirectTypes == Spec => []TypeOK
BY TypesInvariant, PTL DEF Types

-----------------------------------------------------------------------------
(* How long a cache may be outdated.                                       *)

LEMMA BoundsInit == Init => Bounds
<1> SUFFICES ASSUME Init
             PROVE  Bounds
  OBVIOUS
<1>1. \A h \in Readers : ReqFresh(req[h])
  BY DEF Init, Resting, Req, ReqFresh
<1>2. \A w \in Writers : JobFresh(job[w])
  BY DEF Init, Waiting, Job, JobFresh
<1> QED
  BY <1>1, <1>2 DEF Init, Bounds, StaleRedirectEnds, NegativeCacheEnds, StaleEdgeEnds,
                    NoEntry, Key, NoObject, Object

\* When the row has just changed, every bound is a matter of types.
LEMMA JustWritten ==
  ASSUME Types', age' = 0
  PROVE  Bounds'
<1> USE LifeBounds, TimeAssumption
<1>1. \A h \in Readers : ReqFresh(req[h])'
  <2> TAKE h \in Readers
  <2>1. req'[h].span \in 0 .. Span
    BY DEF Types, TypeOK, ReqType
  <2> QED
    BY <2>1 DEF ReqFresh
<1>2. \A w \in Writers : JobFresh(job[w])'
  <2> TAKE w \in Writers
  <2>1. job'[w].span \in 0 .. Span
    BY DEF Types, TypeOK, JobType
  <2> QED
    BY <2>1 DEF JobFresh
<1>3. StaleRedirectEnds'
  <2>1. r'.left \in 0 .. MaxLife
    BY DEF Types, TypeOK, NoEntry, Key, KeyType
  <2> QED
    BY <2>1 DEF StaleRedirectEnds
<1>4. NegativeCacheEnds'
  <2>1. PICK g \in 0 .. GoneTtl : gone' = g
    BY DEF Types, TypeOK
  <2>2. 0 + g <= GoneTtl + Span
    OBVIOUS
  <2> QED
    BY <2>1, <2>2 DEF NegativeCacheEnds
<1>5. StaleEdgeEnds'
  <2>1. edge'.left \in 0 .. EdgeTtl
    BY DEF Types, TypeOK, NoObject, Object, ObjectType
  <2> QED
    BY <2>1 DEF StaleEdgeEnds
<1> QED
  BY <1>1, <1>2, <1>3, <1>4, <1>5 DEF Bounds

LEMMA AnswerUnchanged ==
  ASSUME row' = row
  PROVE  Answer' = Answer
BY DEF Answer, AnswerOf

\* A step of a redirect is harmless if what it reads and leaves is fresh.
LEMMA ReqStepFresh ==
  ASSUME Types, Bounds, NEW h \in Readers, NEW q, ReqFresh(q),
         req' = [req EXCEPT ![h] = q], UNCHANGED <<row, job, age>>,
         StaleRedirectEnds', NegativeCacheEnds', StaleEdgeEnds'
  PROVE  Bounds'
<1>1. Answer' = Answer
  BY AnswerUnchanged
<1>2. ASSUME NEW g \in Readers
      PROVE  ReqFresh(req[g])'
  <2>1. req'[g] = IF g = h THEN q ELSE req[g]
    BY DEF Types, TypeOK
  <2>2. ReqFresh(req'[g])
    BY <2>1 DEF Bounds
  <2> QED
    BY <2>2, <1>1 DEF ReqFresh
<1>3. ASSUME NEW w \in Writers
      PROVE  JobFresh(job[w])'
  <2>1. JobFresh(job[w])
    BY DEF Bounds
  <2> QED
    BY <2>1, <1>1 DEF JobFresh
<1> QED
  BY <1>2, <1>3 DEF Bounds

LEMMA JobStepFresh ==
  ASSUME Types, Bounds, NEW w \in Writers, NEW j, j.pc # "store",
         job' = [job EXCEPT ![w] = j], UNCHANGED <<row, req, age>>,
         StaleRedirectEnds', NegativeCacheEnds', StaleEdgeEnds'
  PROVE  Bounds'
<1>1. Answer' = Answer
  BY AnswerUnchanged
<1>2. ASSUME NEW v \in Writers
      PROVE  JobFresh(job[v])'
  <2>1. job'[v] = IF v = w THEN j ELSE job[v]
    BY DEF Types, TypeOK
  <2>2. JobFresh(job'[v])
    BY <2>1 DEF Bounds, JobFresh
  <2> QED
    BY <2>2, <1>1 DEF JobFresh
<1>3. ASSUME NEW h \in Readers
      PROVE  ReqFresh(req[h])'
  <2>1. ReqFresh(req[h])
    BY DEF Bounds
  <2> QED
    BY <2>1, <1>1 DEF ReqFresh
<1> QED
  BY <1>2, <1>3 DEF Bounds

LEMMA BoundsRedirect ==
  ASSUME Types, Bounds, NEW h \in Readers, Redirect(h)
  PROVE  Bounds'
<1> USE LifeBounds, TimeAssumption DEF Go, Finish
<1>0. /\ req[h] \in ReqType /\ ReqCarries(req[h]) /\ ReqFresh(req[h])
      /\ req[h].span \in 0 .. Span
      /\ r \in {NoEntry} \cup KeyType
      /\ age \in 0 .. AgeCap
      /\ StaleRedirectEnds /\ NegativeCacheEnds /\ StaleEdgeEnds
  BY DEF Types, TypeOK, Carried, Bounds, ReqType
<1>1. ReqFresh(Resting)
  BY DEF Resting, Req, ReqFresh
<1>2. (row' = row) => Answer' = Answer
  BY AnswerUnchanged
<1>3. UNCHANGED <<row, r, age>> => StaleRedirectEnds'
  BY <1>0, <1>2 DEF StaleRedirectEnds
<1>4. UNCHANGED <<row, gone, age>> => NegativeCacheEnds'
  BY <1>0, <1>2 DEF NegativeCacheEnds
<1>5. UNCHANGED <<row, edge, age>> => StaleEdgeEnds'
  BY <1>0, <1>2 DEF StaleEdgeEnds
<1>6. CASE ReadUrl(h)
  <2> DEFINE q == Req(IF r = NoEntry THEN "exists" ELSE "answer", r.url, 0, req[h].span)
  <2>1. ReqFresh(q)
    <3>1. CASE r = NoEntry
      BY <3>1 DEF Req, ReqFresh
    <3>2. CASE r # NoEntry
      <4>1. r.left \in 1 .. MaxLife
        BY <3>2, <1>0 DEF KeyType
      <4>2. r.url \in Urls
        BY <3>2, <1>0 DEF KeyType
      <4>3. r.url # Answer => age + r.left <= MaxLife + Span
        BY <4>2, <1>0, UrlAssumption DEF StaleRedirectEnds
      <4>4. r.url # Answer => age <= MaxLife + Span + req[h].span
        BY <4>1, <4>3, <1>0
      <4> QED
        BY <3>2, <4>4 DEF Req, ReqFresh
    <3> QED
      BY <3>1, <3>2
  <2>2. req' = [req EXCEPT ![h] = q] /\ UNCHANGED <<row, r, gone, edge, job, age>>
    BY <1>6 DEF ReadUrl
  <2> QED
    <3> HIDE DEF q
    <3> QED
      BY <2>1, <2>2, <1>3, <1>4, <1>5, ReqStepFresh
<1>7. CASE ReadGone(h)
  <2> DEFINE q == Req("select", None, 0, req[h].span)
  <2>1. ReqFresh(q)
    BY DEF Req, ReqFresh
  <2>2. UNCHANGED <<row, r, gone, edge, job, age>>
    BY <1>7 DEF ReadGone
  <2>3. req' = [req EXCEPT ![h] = Resting] \/ req' = [req EXCEPT ![h] = q]
    BY <1>7 DEF ReadGone
  <2> QED
    <3> HIDE DEF q
    <3> QED
      BY <2>1, <2>2, <2>3, <1>1, <1>3, <1>4, <1>5, ReqStepFresh
<1>8. CASE Select(h)
  <2> DEFINE p == Req("setgone", None, 0, req[h].span)
             q == Req("seturl", Answer, LifeOf(row.exp), req[h].span)
  <2>1. Answer = None => ReqFresh(p)
    BY DEF Req, ReqFresh
  <2>2. ReqFresh(q)
    BY DEF Req, ReqFresh
  <2>3. UNCHANGED <<row, r, gone, edge, job, age>>
    BY <1>8 DEF Select
  <2>4. \/ Answer = None /\ req' = [req EXCEPT ![h] = p]
        \/ req' = [req EXCEPT ![h] = q]
    BY <1>8 DEF Select
  <2> QED
    <3> HIDE DEF p, q
    <3> QED
      BY <2>1, <2>2, <2>3, <2>4, <1>3, <1>4, <1>5, ReqStepFresh
<1>9. CASE SetUrl(h)
  <2> DEFINE q == Req("answer", req[h].url, 0, req[h].span)
  <2>1. /\ req[h].pc = "seturl"
        /\ req[h].ttl \in 1 .. MaxLife
        /\ r' = Key(req[h].url, req[h].ttl, req[h].url # Answer)
        /\ req' = [req EXCEPT ![h] = q]
        /\ UNCHANGED <<row, gone, edge, job, age>>
    BY <1>9, <1>0 DEF SetUrl, Entry, ReqCarries
  <2>2. req[h].url # Answer => age <= req[h].span
    BY <2>1, <1>0 DEF ReqFresh
  <2>3. ReqFresh(q)
    <3>1. req[h].url # Answer => age <= MaxLife + Span + req[h].span
      BY <2>2, <1>0
    <3> QED
      BY <3>1 DEF Req, ReqFresh
  <2>4. StaleRedirectEnds'
    <3>1. r'.url = req[h].url /\ r'.left = req[h].ttl
      BY <2>1 DEF Key
    <3>2. req[h].url # Answer => age + req[h].ttl <= MaxLife + Span
      BY <2>1, <2>2, <1>0
    <3> QED
      BY <3>1, <3>2, <2>1, <1>2 DEF StaleRedirectEnds
  <2> QED
    <3> HIDE DEF q
    <3> QED
      BY <2>1, <2>3, <2>4, <1>4, <1>5, ReqStepFresh
<1>10. CASE SetGone(h)
  <2>1. Answer # None => age <= req[h].span
    BY <1>10, <1>0 DEF SetGone, ReqFresh
  <2>2. /\ gone' = GoneTtl /\ req' = [req EXCEPT ![h] = Resting]
        /\ UNCHANGED <<row, r, edge, job, age>>
    BY <1>10 DEF SetGone
  <2>3. NegativeCacheEnds'
    BY <2>1, <2>2, <1>0, <1>2 DEF NegativeCacheEnds
  <2> QED
    BY <2>2, <2>3, <1>1, <1>3, <1>5, ReqStepFresh
<1>11. CASE Reply(h)
  <2>1. req[h].url # Answer => age <= MaxLife + Span + req[h].span
    BY <1>11, <1>0 DEF Reply, ReqFresh
  <2>2. /\ req' = [req EXCEPT ![h] = Resting]
        /\ UNCHANGED <<row, r, gone, job, age>>
        /\ edge' = Object(req[h].url, EdgeTtl) \/ edge' = edge
    BY <1>11 DEF Reply
  <2>3. StaleEdgeEnds'
    <3>1. CASE edge' = edge
      BY <3>1, <2>2, <1>5
    <3>2. CASE edge' = Object(req[h].url, EdgeTtl)
      <4>1. edge'.url = req[h].url /\ edge'.left = EdgeTtl
        BY <3>2 DEF Object
      <4>2. req[h].url # Answer => age + EdgeTtl <= MaxLife + 2 * Span + EdgeTtl
        BY <2>1, <1>0
      <4> QED
        BY <4>1, <4>2, <2>2, <1>2 DEF StaleEdgeEnds
    <3> QED
      BY <3>1, <3>2, <2>2
  <2> QED
    BY <2>2, <2>3, <1>1, <1>3, <1>4, ReqStepFresh
<1>12. CASE ReadFails(h)
  BY <1>12, <1>1, <1>3, <1>4, <1>5, ReqStepFresh DEF ReadFails
<1> QED
  BY <1>6, <1>7, <1>8, <1>9, <1>10, <1>11, <1>12 DEF Redirect

LEMMA BoundsWrite ==
  ASSUME Types, Bounds, Types', NEW w \in Writers, Write(w)
  PROVE  Bounds'
<1> USE LifeBounds, TimeAssumption DEF Close, Proceed
<1>0. /\ job[w] \in JobType /\ JobCarries(job[w]) /\ JobFresh(job[w])
      /\ job[w].span \in 0 .. Span
      /\ age \in 0 .. AgeCap
      /\ StaleRedirectEnds /\ NegativeCacheEnds /\ StaleEdgeEnds
  BY DEF Types, TypeOK, Carried, Bounds, JobType
<1>2. (row' = row) => Answer' = Answer
  BY AnswerUnchanged
<1>3. UNCHANGED <<row, r, age>> => StaleRedirectEnds'
  BY <1>0, <1>2 DEF StaleRedirectEnds
<1>4. UNCHANGED <<row, gone, age>> => NegativeCacheEnds'
  BY <1>0, <1>2 DEF NegativeCacheEnds
<1>5. UNCHANGED <<row, edge, age>> => StaleEdgeEnds'
  BY <1>0, <1>2 DEF StaleEdgeEnds
<1>6. ASSUME NEW pc, NEW op, NEW u, NEW e, NEW n, NEW span, pc # "store",
             job' = [job EXCEPT ![w] = Job(pc, op, u, e, n, span)],
             UNCHANGED <<row, req, age>>,
             StaleRedirectEnds', NegativeCacheEnds', StaleEdgeEnds'
      PROVE  Bounds'
  <2> DEFINE j == Job(pc, op, u, e, n, span)
  <2>1. j.pc # "store"
    BY <1>6 DEF Job
  <2> HIDE DEF j
  <2> QED
    BY <2>1, <1>6, JobStepFresh DEF j
<1>7. ASSUME NEW u \in Urls, NEW e \in Exps \cup {Never}, Create(w, u, e)
      PROVE  Bounds'
  <2>1. row # Row("live", u, e)
    BY <1>7 DEF Create, Row
  <2>2. age' = 0
    BY <1>7, <2>1 DEF Create, AgeAfter
  <2> QED
    BY <2>2, JustWritten
<1>8. ASSUME NEW u \in Urls \cup {None}, NEW e \in Exps \cup {None}, Patch(w, u, e)
      PROVE  Bounds'
  <2>1. UNCHANGED <<row, r, gone, edge, req, age>>
    BY <1>8 DEF Patch
  <2> DEFINE n == (IF u = None THEN 0 ELSE 1) + (IF e = None THEN 0 ELSE 1)
  <2>2. \/ job' = [job EXCEPT ![w] = Job("commit", "patch", Change(u, row.url),
                                         Change(e, row.exp), n, 0)]
        \/ job' = [job EXCEPT ![w] = Job("drop_url", "patch", Change(u, row.url),
                                         Change(e, row.exp), n, 0)]
    BY <1>8 DEF Patch
  <2> QED
    BY <2>1, <2>2, <1>3, <1>4, <1>5, <1>6
<1>9. CASE Store(w)
  <2>1. /\ job[w].pc = "store"
        /\ job[w].exp \in 1 .. MaxLife
        /\ r' = Key(job[w].url, job[w].exp, job[w].url # Answer)
        /\ UNCHANGED <<row, gone, edge, req, age>>
        /\ job' = [job EXCEPT ![w] = Job("done", job[w].op, None, None, 0, 0)]
    BY <1>9, <1>0 DEF Store, Entry, JobCarries
  <2>2. job[w].url # Answer => age <= job[w].span
    BY <2>1, <1>0 DEF JobFresh
  <2>3. StaleRedirectEnds'
    <3>1. r'.url = job[w].url /\ r'.left = job[w].exp
      BY <2>1 DEF Key
    <3>2. job[w].url # Answer => age + job[w].exp <= MaxLife + Span
      BY <2>1, <2>2, <1>0
    <3> QED
      BY <3>1, <3>2, <2>1, <1>2 DEF StaleRedirectEnds
  <2> QED
    BY <2>1, <2>3, <1>4, <1>5, <1>6
<1>10. CASE Delete(w)
  <2>1. /\ UNCHANGED <<row, r, gone, edge, req, age>>
        /\ job' = [job EXCEPT ![w] = Job("commit", "delete", None, None, 1, 0)]
    BY <1>10 DEF Delete
  <2> QED
    BY <2>1, <1>3, <1>4, <1>5, <1>6
<1>11. CASE DropUrl(w)
  <2>1. /\ r' = NoEntry
        /\ UNCHANGED <<row, gone, edge, req, age>>
        /\ job' = [job EXCEPT ![w] = Job("drop_gone", job[w].op, job[w].url, job[w].exp,
                                         job[w].rounds, job[w].span)]
    BY <1>11 DEF DropUrl
  <2>2. StaleRedirectEnds'
    BY <2>1 DEF StaleRedirectEnds, NoEntry, Key
  <2> QED
    BY <2>1, <2>2, <1>4, <1>5, <1>6
<1>12. CASE DropGone(w)
  <2>1. gone' = 0 /\ UNCHANGED <<row, r, edge, req, age>>
    BY <1>12 DEF DropGone
  <2>2. PICK pc \in {"drop_url", "commit", "purge"},
            n \in {0, job[w].rounds, job[w].rounds - 1} :
          job' = [job EXCEPT ![w] = Job(pc, job[w].op, job[w].url, job[w].exp, n,
                                        job[w].span)]
    BY <1>12 DEF DropGone
  <2>3. NegativeCacheEnds'
    BY <2>1 DEF NegativeCacheEnds
  <2> QED
    BY <2>1, <2>2, <2>3, <1>3, <1>5, <1>6
<1>13. CASE Commit(w)
  <2>1. CASE Written(w) # row
    <3>1. age' = 0
      BY <2>1, <1>13 DEF Commit, AgeAfter
    <3> QED
      BY <3>1, JustWritten
  <2>2. CASE Written(w) = row
    <3>1. UNCHANGED <<row, r, gone, edge, req, age>>
      BY <2>2, <1>13 DEF Commit, AgeAfter
    <3>2. PICK pc \in {"drop_url", "purge"} :
            job' = [job EXCEPT ![w] = Job(pc, job[w].op, job[w].url, job[w].exp,
                                          job[w].rounds, job[w].span)]
      BY <1>13 DEF Commit
    <3> QED
      BY <3>1, <3>2, <1>3, <1>4, <1>5, <1>6
  <2> QED
    BY <2>1, <2>2
<1>14. CASE Purge(w)
  <2>1. /\ edge' = NoObject \/ edge' = edge
        /\ UNCHANGED <<row, r, gone, req, age>>
        /\ job' = [job EXCEPT ![w] = Job("done", job[w].op, None, None, 0, 0)]
    BY <1>14 DEF Purge
  <2>2. StaleEdgeEnds'
    BY <2>1, <1>5 DEF StaleEdgeEnds, NoObject, Object
  <2> QED
    BY <2>1, <2>2, <1>3, <1>4, <1>6
<1>15. CASE WriteFails(w)
  <2>1. /\ UNCHANGED <<row, r, gone, edge, req, age>>
        /\ job' = [job EXCEPT ![w] = Job("broken", job[w].op, None, None, 0, 0)]
    BY <1>15 DEF WriteFails
  <2> QED
    BY <2>1, <1>3, <1>4, <1>5, <1>6
<1> QED
  BY <1>7, <1>8, <1>9, <1>10, <1>11, <1>12, <1>13, <1>14, <1>15 DEF Write

LEMMA BoundsTick ==
  ASSUME Types, Bounds, Types', Tick
  PROVE  Bounds'
<1> USE LifeBounds, TimeAssumption
<1>0. /\ age \in 0 .. AgeCap
      /\ r \in {NoEntry} \cup KeyType
      /\ gone \in 0 .. GoneTtl
      /\ edge \in {NoObject} \cup ObjectType
      /\ StaleRedirectEnds /\ NegativeCacheEnds /\ StaleEdgeEnds
  BY DEF Types, TypeOK, Bounds
<1>1. Answer' = AnswerOf(Later)
  BY DEF Tick, Answer, AnswerOf
<1>2. CASE Answer' # Answer
  <2>1. age' = 0
    BY <1>1, <1>2 DEF Tick
  <2> QED
    BY <2>1, JustWritten
<1>3. CASE Answer' = Answer
  <2>1. PICK a \in {age, age + 1} : age' = a
    BY <1>1, <1>3 DEF Tick
  <2>2. a \in Nat /\ a <= age + 1
    BY <2>1, <1>0
  <2>3. ASSUME NEW h \in Readers
        PROVE  ReqFresh(req[h])'
    <3>1. req[h].span \in 0 .. Span /\ ReqFresh(req[h])
      BY DEF Types, TypeOK, ReqType, Bounds
    <3>2. req'[h] = Passed(h)
      BY DEF Tick
    <3>3. CASE req[h].pc = "idle"
      BY <3>2, <3>3 DEF Passed, ReqFresh
    <3>4. CASE req[h].pc # "idle"
      <4>1. /\ req'[h].pc = req[h].pc /\ req'[h].url = req[h].url
            /\ req'[h].span = req[h].span + 1
        BY <3>2, <3>4 DEF Passed, Req
      <4>2. /\ age <= req[h].span => a <= req[h].span + 1
            /\ age <= MaxLife + Span + req[h].span =>
                 a <= MaxLife + Span + (req[h].span + 1)
        BY <2>2, <3>1, <1>0
      <4> QED
        BY <2>1, <3>1, <4>1, <4>2, <1>3 DEF ReqFresh
    <3> QED
      BY <3>3, <3>4
  <2>4. ASSUME NEW w \in Writers
        PROVE  JobFresh(job[w])'
    <3>1. job[w].span \in 0 .. Span /\ JobFresh(job[w])
      BY DEF Types, TypeOK, JobType, Bounds
    <3>2. job'[w] = Waited(w)
      BY DEF Tick
    <3>3. CASE job[w].pc # "store"
      <4>1. job'[w].pc # "store"
        BY <3>2, <3>3 DEF Waited, Job
      <4> QED
        BY <4>1 DEF JobFresh
    <3>4. CASE job[w].pc = "store"
      <4>1. job'[w].pc = job[w].pc /\ job'[w].url = job[w].url
            /\ job'[w].span = job[w].span + 1
        BY <3>2, <3>4 DEF Waited, Active, Job
      <4>2. age <= job[w].span => a <= job[w].span + 1
        BY <2>2, <3>1, <1>0
      <4> QED
        BY <2>1, <3>1, <4>1, <4>2, <1>3 DEF JobFresh
    <3> QED
      BY <3>3, <3>4
  <2>5. StaleRedirectEnds'
    <3>1. CASE r.left > 1
      <4>1. r \in KeyType
        BY <3>1, <1>0 DEF NoEntry, Key
      <4>2. r'.url = r.url /\ r'.left = r.left - 1
        BY <3>1 DEF Tick, Key
      <4>3. age + r.left <= MaxLife + Span => a + (r.left - 1) <= MaxLife + Span
        BY <4>1, <2>2, <1>0 DEF KeyType
      <4> QED
        BY <2>1, <4>2, <4>3, <1>0, <1>3 DEF StaleRedirectEnds
    <3>2. CASE ~(r.left > 1)
      BY <3>2 DEF Tick, StaleRedirectEnds, NoEntry, Key
    <3> QED
      BY <3>1, <3>2
  <2>6. NegativeCacheEnds'
    <3>1. CASE gone = 0
      <4>1. gone' = 0
        BY <3>1 DEF Tick, Less
      <4> QED
        BY <4>1 DEF NegativeCacheEnds
    <3>2. CASE gone # 0
      <4>1. gone \in Nat \ {0}
        BY <3>2, <1>0
      <4>2. gone' = gone - 1
        BY <4>1 DEF Tick, Less
      <4>3. age + gone <= GoneTtl + Span => a + (gone - 1) <= GoneTtl + Span
        BY <4>1, <2>2, <1>0
      <4> QED
        BY <2>1, <4>1, <4>2, <4>3, <1>0, <1>3 DEF NegativeCacheEnds
    <3> QED
      BY <3>1, <3>2
  <2>7. StaleEdgeEnds'
    <3>1. CASE edge.left > 1
      <4>1. edge \in ObjectType
        BY <3>1, <1>0 DEF NoObject, Object
      <4>2. edge'.url = edge.url /\ edge'.left = edge.left - 1
        BY <3>1 DEF Tick, Object
      <4>3. age + edge.left <= MaxLife + 2 * Span + EdgeTtl =>
              a + (edge.left - 1) <= MaxLife + 2 * Span + EdgeTtl
        BY <4>1, <2>2, <1>0 DEF ObjectType
      <4> QED
        BY <2>1, <4>2, <4>3, <1>0, <1>3 DEF StaleEdgeEnds
    <3>2. CASE ~(edge.left > 1)
      BY <3>2 DEF Tick, StaleEdgeEnds, NoObject, Object
    <3> QED
      BY <3>1, <3>2
  <2> QED
    BY <2>3, <2>4, <2>5, <2>6, <2>7 DEF Bounds
<1> QED
  BY <1>2, <1>3

LEMMA BoundsNext == Types /\ Bounds /\ [Next]_vars => Bounds'
<1> SUFFICES ASSUME Types, Bounds, [Next]_vars
             PROVE  Bounds'
  OBVIOUS
<1>1. Types'
  BY TypesNext
<1>2. CASE UNCHANGED vars
  BY <1>2 DEF vars, Bounds, ReqFresh, JobFresh, StaleRedirectEnds, NegativeCacheEnds,
              StaleEdgeEnds, Answer, AnswerOf
<1> QED
  BY <1>1, <1>2, BoundsRedirect, BoundsWrite, BoundsTick DEF Next

LEMMA BoundsInvariant == Spec => []Bounds
BY TypesInit, TypesNext, BoundsInit, BoundsNext, PTL DEF Spec

\* However requests interleave and fail, an outdated Redis entry is gone one
\* lifetime and one request after the row was written or expired.
THEOREM RedirectStalenessBounded == Spec => []StaleRedirectEnds
BY BoundsInvariant, PTL DEF Bounds

\* A 404 from the negative cache is outdated for at most 60 s and one request.
THEOREM NegativeStalenessBounded == Spec => []NegativeCacheEnds
BY BoundsInvariant, PTL DEF Bounds

\* Varnish adds at most one of its lifetimes to that, even if no PURGE arrives.
THEOREM EdgeStalenessBounded == Spec => []StaleEdgeEnds
BY BoundsInvariant, PTL DEF Bounds

-----------------------------------------------------------------------------
(* What a DELETE leaves in Redis.                                          *)

Undone(j) == j.op = "delete" /\ j.pc \in {"drop_url", "broken"}

LEMMA DeleteInit == Init => DeleteInvalidates
BY DEF Init, DeleteInvalidates

\* A step that leaves row and r alone, and whoever still has to invalidate.
LEMMA DeleteKept ==
  ASSUME DeleteInvalidates, UNCHANGED <<row, r>>,
         \A v \in Writers : Undone(job[v]) => Undone(job'[v])
  PROVE  DeleteInvalidates'
BY DEF DeleteInvalidates, Undone

LEMMA DeleteRedirect ==
  ASSUME Types, DeleteInvalidates, NEW h \in Readers, Redirect(h)
  PROVE  DeleteInvalidates'
<1>1. CASE SetUrl(h)
  <2>1. /\ req[h].url \in Urls
        /\ r' = Key(req[h].url, req[h].ttl, req[h].url # Answer)
        /\ row' = row
    BY <1>1 DEF SetUrl, Entry, Types, Carried, ReqCarries
  <2>2. row.state = "deleted" => r'.late
    BY <2>1, UrlAssumption DEF Key, Answer, AnswerOf
  <2> QED
    BY <2>1, <2>2 DEF DeleteInvalidates
<1>2. CASE ~SetUrl(h)
  <2>1. UNCHANGED <<row, r, job>>
    BY <1>2 DEF Redirect, ReadUrl, ReadGone, Select, SetGone, Reply, ReadFails
  <2> QED
    BY <2>1, DeleteKept
<1> QED
  BY <1>1, <1>2

LEMMA DeleteWrite ==
  ASSUME Types, DeleteInvalidates, NEW w \in Writers, Write(w)
  PROVE  DeleteInvalidates'
<1> USE DEF Close, Proceed
<1>0. job \in [Writers -> JobType] /\ JobCarries(job[w])
  BY DEF Types, TypeOK, Carried
<1>1. ASSUME NEW j, job' = [job EXCEPT ![w] = j], Undone(job[w]) => Undone(j),
             UNCHANGED <<row, r>>
      PROVE  DeleteInvalidates'
  <2>1. \A v \in Writers : job'[v] = IF v = w THEN j ELSE job[v]
    BY <1>0, <1>1
  <2> QED
    BY <2>1, <1>1, DeleteKept
<1>2. ASSUME NEW u \in Urls, NEW e \in Exps \cup {Never}, Create(w, u, e)
      PROVE  DeleteInvalidates'
  BY <1>2 DEF Create, Row, DeleteInvalidates
<1>3. ASSUME NEW u \in Urls \cup {None}, NEW e \in Exps \cup {None}, Patch(w, u, e)
      PROVE  DeleteInvalidates'
  <2>1. ~Undone(job[w]) /\ UNCHANGED <<row, r>>
    BY <1>3 DEF Patch, Undone
  <2>2. \E j : job' = [job EXCEPT ![w] = j]
    BY <1>3 DEF Patch
  <2> QED
    BY <2>1, <2>2, <1>1
<1>4. CASE Store(w)
  <2>1. /\ job[w].url \in Urls
        /\ r' = Key(job[w].url, job[w].exp, job[w].url # Answer)
        /\ row' = row
    BY <1>4, <1>0 DEF Store, Entry, JobCarries
  <2>2. row.state = "deleted" => r'.late
    BY <2>1, UrlAssumption DEF Key, Answer, AnswerOf
  <2> QED
    BY <2>1, <2>2 DEF DeleteInvalidates
<1>5. CASE Delete(w)
  <2>1. ~Undone(job[w]) /\ UNCHANGED <<row, r>>
    BY <1>5 DEF Delete, Undone
  <2>2. \E j : job' = [job EXCEPT ![w] = j]
    BY <1>5 DEF Delete
  <2> QED
    BY <2>1, <2>2, <1>1
<1>6. CASE DropUrl(w)
  BY <1>6 DEF DropUrl, DeleteInvalidates
<1>7. CASE DropGone(w)
  <2>1. ~Undone(job[w]) /\ UNCHANGED <<row, r>>
    BY <1>7 DEF DropGone, Undone
  <2>2. \E j : job' = [job EXCEPT ![w] = j]
    BY <1>7 DEF DropGone
  <2> QED
    BY <2>1, <2>2, <1>1
<1>8. CASE Commit(w)
  <2>1. CASE job[w].op = "delete"
    <3>1. job' = [job EXCEPT ![w] = Job("drop_url", "delete", job[w].url, job[w].exp,
                                        job[w].rounds, job[w].span)]
      BY <2>1, <1>8 DEF Commit
    <3>2. Undone(job'[w])
      BY <3>1, <1>0 DEF Undone, Job
    <3> QED
      BY <3>2 DEF DeleteInvalidates, Undone
  <2>2. CASE job[w].op # "delete"
    <3>1. row'.state = row.state /\ r' = r
      BY <2>2, <1>8 DEF Commit, Written, Row
    <3>2. PICK j : job' = [job EXCEPT ![w] = j]
      BY <1>8 DEF Commit
    <3>3. \A v \in Writers : Undone(job[v]) => Undone(job'[v])
      BY <2>2, <3>2, <1>0 DEF Undone
    <3> QED
      BY <3>1, <3>3 DEF DeleteInvalidates, Undone
  <2> QED
    BY <2>1, <2>2
<1>9. CASE Purge(w)
  <2>1. ~Undone(job[w]) /\ UNCHANGED <<row, r>>
    BY <1>9 DEF Purge, Undone
  <2>2. \E j : job' = [job EXCEPT ![w] = j]
    BY <1>9 DEF Purge
  <2> QED
    BY <2>1, <2>2, <1>1
<1>10. CASE WriteFails(w)
  <2> DEFINE j == Job("broken", job[w].op, None, None, 0, 0)
  <2>1. job' = [job EXCEPT ![w] = j] /\ UNCHANGED <<row, r>>
    BY <1>10 DEF WriteFails
  <2>2. Undone(job[w]) => Undone(j)
    BY DEF Undone, Job
  <2> QED
    <3> HIDE DEF j
    <3> QED
      BY <2>1, <2>2, <1>1
<1> QED
  BY <1>2, <1>3, <1>4, <1>5, <1>6, <1>7, <1>8, <1>9, <1>10 DEF Write

LEMMA DeleteTick ==
  ASSUME Types, DeleteInvalidates, Tick
  PROVE  DeleteInvalidates'
<1>1. row'.state = row.state
  BY DEF Tick, Later, Row
<1>2. r' # NoEntry => r # NoEntry /\ r'.late = r.late
  <2>1. CASE r.left > 1
    <3>1. r # NoEntry
      BY <2>1 DEF NoEntry, Key
    <3> QED
      BY <3>1, <2>1 DEF Tick, Key
  <2>2. CASE ~(r.left > 1)
    BY <2>2 DEF Tick
  <2> QED
    BY <2>1, <2>2
<1>3. \A v \in Writers : Undone(job[v]) => Undone(job'[v])
  BY DEF Tick, Waited, Job, Undone
<1> QED
  BY <1>1, <1>2, <1>3 DEF DeleteInvalidates, Undone

LEMMA DeleteNext == Types /\ DeleteInvalidates /\ [Next]_vars => DeleteInvalidates'
<1> SUFFICES ASSUME Types, DeleteInvalidates, [Next]_vars
             PROVE  DeleteInvalidates'
  OBVIOUS
<1>1. CASE UNCHANGED vars
  BY <1>1 DEF vars, DeleteInvalidates
<1> QED
  BY <1>1, DeleteRedirect, DeleteWrite, DeleteTick DEF Next

\* A deleted link stays in Redis only through a redirect that wrote late or a
\* DELETE that failed between its commit and its invalidation.
THEOREM DeletesInvalidate == Spec => []DeleteInvalidates
BY TypesInvariant, DeleteInit, DeleteNext, PTL DEF Spec
=============================================================================
