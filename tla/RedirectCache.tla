--------------------------- MODULE RedirectCache ---------------------------
(* The cached redirect of the QR code generator, for one token: the row in *)
(* url_mappings, the Redis keys "r:<token>" and "gone:<token>", and the    *)
(* Varnish object of /r/<token>.  A redirect and the three writers of the  *)
(* row run as coroutines of several processes and interleave at every      *)
(* await.  Time advances in ticks of a fraction of a second.               *)
EXTENDS Integers

CONSTANTS
  Urls,        \* the validated urls a token may point to
  None,        \* no url, no entry
  Never,       \* expires_at is NULL
  Readers,     \* concurrent GET /r/<token>
  Writers,     \* POST, PATCH and DELETE requests; each runs once
  Exps,        \* the lifetimes a client may ask for, in ticks
  Second,      \* ticks per second
  Day,         \* _DEFAULT_TTL
  GoneTtl,     \* the 60 s of the negative cache
  EdgeTtl,     \* the 60 s of a Varnish object, its grace included
  MaxExp,      \* bound: the longest of Exps
  Span,        \* bound: how many ticks a request may last
  Failures     \* bound: whether commands raise and processes end

ASSUME UrlAssumption == None \notin Urls /\ None \notin Nat

ASSUME TimeAssumption ==
  /\ Second \in Nat \ {0}
  /\ Day \in Nat \ {0}
  /\ GoneTtl \in Nat \ {0}
  /\ EdgeTtl \in Nat \ {0}
  /\ MaxExp \in Nat
  /\ Span \in Nat
  /\ Exps \subseteq 0 .. MaxExp
  /\ Never \notin Nat
  /\ Failures \in BOOLEAN

VARIABLES
  row,    \* [state, url, exp]; exp counts down to 0, "expired"
  r,      \* Redis "r:<token>": [url, left, late], or NoEntry
  gone,   \* Redis "gone:<token>": ticks left, 0 when absent
  edge,   \* the Varnish object: [url, left], or NoObject
  req,    \* per reader: [pc, url, ttl, span]
  job,    \* per writer: [pc, op, url, exp, rounds, span]
  age     \* ticks since the row was last written or expired, capped

vars == <<row, r, gone, edge, req, job, age>>

-----------------------------------------------------------------------------

Lifetimes == (0 .. MaxExp) \cup {Never}

\* What the database answers: the url of a live row, or 404 and 410.
AnswerOf(w) == IF w.state = "live" /\ w.exp # 0 THEN w.url ELSE None
Answer == AnswerOf(row)

\* The longest life of a Redis entry, and the age from which on age is capped.
MaxLife == IF Day > MaxExp THEN Day ELSE MaxExp
AgeCap == MaxLife + EdgeTtl + 2 * Span + 1

Row(s, u, e) == [state |-> s, url |-> u, exp |-> e]
Key(u, l, late) == [url |-> u, left |-> l, late |-> late]
Object(u, l) == [url |-> u, left |-> l]
Req(pc, u, ttl, span) == [pc |-> pc, url |-> u, ttl |-> ttl, span |-> span]
Job(pc, op, u, e, rounds, span) ==
  [pc |-> pc, op |-> op, url |-> u, exp |-> e, rounds |-> rounds, span |-> span]

NoEntry  == Key(None, 0, FALSE)
NoObject == Object(None, 0)
Resting  == Req("idle", None, 0, 0)
Waiting  == Job("ready", "none", None, None, 0, 0)

Init ==
  /\ \/ row = Row("absent", None, Never)
     \/ \E u \in Urls, e \in Exps \cup {Never} : row = Row("live", u, e)
  /\ r = NoEntry
  /\ gone = 0
  /\ edge = NoObject
  /\ req = [h \in Readers |-> Resting]
  /\ job = [w \in Writers |-> Waiting]
  /\ age = 0

\* Mutant of LifeOf: no default for a lifetime that int() has made 0.
LifeOrZero(exp) == IF exp = Never THEN Day ELSE (exp \div Second) * Second

\* set_cached_url after int(expires_at - now): the life of a new Redis entry.
LifeOf(exp) ==
  LET ttl == IF exp = Never THEN 0 ELSE (exp \div Second) * Second
  IN  IF ttl > 0 THEN ttl ELSE Day

Entry(u, ttl) == Key(u, ttl, u # Answer)

AgeAfter(new) == IF new = row THEN age ELSE 0

-----------------------------------------------------------------------------
(* GET /r/<token>: one action per await.                                   *)

Go(h, pc, u, ttl) == req' = [req EXCEPT ![h] = Req(pc, u, ttl, req[h].span)]
Finish(h) == req' = [req EXCEPT ![h] = Resting]

\* Mutant of ReadUrl: a hit renews the entry.
ReadUrlRenews(h) ==
  /\ req[h].pc = "idle"
  /\ Go(h, IF r = NoEntry THEN "exists" ELSE "answer", r.url, 0)
  /\ r' = IF r = NoEntry THEN r ELSE Key(r.url, Day, r.late)
  /\ UNCHANGED <<row, gone, edge, job, age>>

\* get_cached_url: a hit is answered at once.
ReadUrl(h) ==
  /\ req[h].pc = "idle"
  /\ Go(h, IF r = NoEntry THEN "exists" ELSE "answer", r.url, 0)
  /\ UNCHANGED <<row, r, gone, edge, job, age>>

\* Mutant of ReadGone: a hit renews the negative entry.
ReadGoneRenews(h) ==
  /\ req[h].pc = "exists"
  /\ IF gone > 0
     THEN Finish(h) /\ gone' = GoneTtl
     ELSE Go(h, "select", None, 0) /\ UNCHANGED gone
  /\ UNCHANGED <<row, r, edge, job, age>>

\* is_cached_gone: a hit is a 404.
ReadGone(h) ==
  /\ req[h].pc = "exists"
  /\ IF gone > 0 THEN Finish(h) ELSE Go(h, "select", None, 0)
  /\ UNCHANGED <<row, r, gone, edge, job, age>>

\* The SELECT and, without an await, the check of is_deleted and expires_at.
Select(h) ==
  /\ req[h].pc = "select"
  /\ IF Answer = None
     THEN Go(h, "setgone", None, 0)
     ELSE Go(h, "seturl", Answer, LifeOf(row.exp))
  /\ UNCHANGED <<row, r, gone, edge, job, age>>

SetUrl(h) ==
  /\ req[h].pc = "seturl"
  /\ r' = Entry(req[h].url, req[h].ttl)
  /\ Go(h, "answer", req[h].url, 0)
  /\ UNCHANGED <<row, gone, edge, job, age>>

\* set_cached_gone, then the 404 or 410, which Varnish does not keep.
SetGone(h) ==
  /\ req[h].pc = "setgone"
  /\ gone' = GoneTtl
  /\ Finish(h)
  /\ UNCHANGED <<row, r, edge, job, age>>

\* Mutant of Reply: Varnish keeps a 302 as long as Redis does.
ReplyForADay(h) ==
  /\ req[h].pc = "answer"
  /\ edge' = Object(req[h].url, MaxLife)
  /\ Finish(h)
  /\ UNCHANGED <<row, r, gone, job, age>>

\* The 302 reaches the client, through Varnish (port 8200) or not (8100).
Reply(h) ==
  /\ req[h].pc = "answer"
  /\ \/ edge' = Object(req[h].url, EdgeTtl)
     \/ UNCHANGED edge
  /\ Finish(h)
  /\ UNCHANGED <<row, r, gone, job, age>>

\* Redis or the database raises (500), or the process ends.
ReadFails(h) ==
  /\ Failures
  /\ req[h].pc # "idle"
  /\ Finish(h)
  /\ UNCHANGED <<row, r, gone, edge, job, age>>

-----------------------------------------------------------------------------
(* POST /api/qr/create, PATCH and DELETE /api/qr/<token>.                  *)

Proceed(w, pc, rounds) ==
  job' = [job EXCEPT ![w] = Job(pc, job[w].op, job[w].url, job[w].exp, rounds,
                                   job[w].span)]
Close(w, pc) == job' = [job EXCEPT ![w] = Job(pc, job[w].op, None, None, 0, 0)]

\* create_qr up to the INSERT's commit; ttl is computed right after it.
Create(w, u, e) ==
  /\ job[w].pc = "ready"
  /\ row.state = "absent"
  /\ row' = Row("live", u, e)
  /\ age' = AgeAfter(Row("live", u, e))
  /\ job' = [job EXCEPT ![w] = Job("store", "create", u, LifeOf(e), 0, 0)]
  /\ UNCHANGED <<r, gone, edge, req>>

\* create_qr's set_cached_url.
Store(w) ==
  /\ job[w].pc = "store"
  /\ r' = Entry(job[w].url, job[w].exp)
  /\ Close(w, "done")
  /\ UNCHANGED <<row, gone, edge, req, age>>

\* The session writes a column only if its value differs from the loaded one.
Change(new, old) == IF new = old THEN None ELSE new

\* update_qr loads the row; u and e are the fields of the request, or None.
\* Each field that is given invalidates the cache once.
Patch(w, u, e) ==
  /\ job[w].pc = "ready"
  /\ row.state = "live"
  /\ LET fields == (IF u = None THEN 0 ELSE 1) + (IF e = None THEN 0 ELSE 1)
     IN  job' = [job EXCEPT ![w] =
           Job(IF fields = 0 THEN "commit" ELSE "drop_url", "patch",
               Change(u, row.url), Change(e, row.exp), fields, 0)]
  /\ UNCHANGED <<row, r, gone, edge, req, age>>

\* delete_qr loads the row.
Delete(w) ==
  /\ job[w].pc = "ready"
  /\ row.state = "live"
  /\ job' = [job EXCEPT ![w] = Job("commit", "delete", None, None, 1, 0)]
  /\ UNCHANGED <<row, r, gone, edge, req, age>>

\* delete_cached_url deletes "r:<token>" first and "gone:<token>" next.
DropUrl(w) ==
  /\ job[w].pc = "drop_url"
  /\ r' = NoEntry
  /\ Proceed(w, "drop_gone", job[w].rounds)
  /\ UNCHANGED <<row, gone, edge, req, age>>

\* update_qr commits after its invalidations, delete_qr before its own.
DropGone(w) ==
  /\ job[w].pc = "drop_gone"
  /\ gone' = 0
  /\ \/ /\ job[w].rounds > 1
        /\ Proceed(w, "drop_url", job[w].rounds - 1)
     \/ /\ job[w].rounds = 1
        /\ Proceed(w, IF job[w].op = "patch" THEN "commit" ELSE "purge", 0)
  /\ UNCHANGED <<row, r, edge, req, age>>

Written(w) ==
  IF job[w].op = "delete"
  THEN Row("deleted", row.url, row.exp)
  ELSE Row(row.state, IF job[w].url = None THEN row.url ELSE job[w].url,
                      IF job[w].exp = None THEN row.exp ELSE job[w].exp)

\* Mutant of Commit: delete_qr does not invalidate.
CommitOnly(w) ==
  /\ job[w].pc = "commit"
  /\ row' = Written(w)
  /\ age' = AgeAfter(Written(w))
  /\ Proceed(w, "purge", job[w].rounds)
  /\ UNCHANGED <<r, gone, edge, req>>

Commit(w) ==
  /\ job[w].pc = "commit"
  /\ row' = Written(w)
  /\ age' = AgeAfter(Written(w))
  /\ Proceed(w, IF job[w].op = "delete" THEN "drop_url" ELSE "purge", job[w].rounds)
  /\ UNCHANGED <<r, gone, edge, req>>

\* purge_varnish_cache; nobody looks at its result.
Purge(w) ==
  /\ job[w].pc = "purge"
  /\ edge' = NoObject \/ UNCHANGED edge
  /\ Close(w, "done")
  /\ UNCHANGED <<row, r, gone, req, age>>

Active(w) == job[w].pc \notin {"ready", "done", "broken"}

\* A command raises (500), or the process ends.
WriteFails(w) ==
  /\ Failures
  /\ Active(w)
  /\ Close(w, "broken")
  /\ UNCHANGED <<row, r, gone, edge, req, age>>

-----------------------------------------------------------------------------

Less(t) == IF t \in Nat \ {0} THEN t - 1 ELSE t

Passed(h) == IF req[h].pc = "idle" THEN req[h]
             ELSE Req(req[h].pc, req[h].url, req[h].ttl, req[h].span + 1)

\* What waits in a PATCH is a point in time, what waits in a POST a lifetime.
Waited(w) ==
  LET j == job[w]
  IN  IF Active(w)
      THEN Job(j.pc, j.op, j.url, IF j.op = "patch" THEN Less(j.exp) ELSE j.exp,
               j.rounds, j.span + 1)
      ELSE j

Later == Row(row.state, row.url, Less(row.exp))

\* A tick: every timer runs down.  No request lasts longer than Span.
Tick ==
  /\ \A h \in Readers : req[h].pc # "idle" => req[h].span < Span
  /\ \A w \in Writers : Active(w) => job[w].span < Span
  /\ row' = Later
  /\ r' = IF r.left > 1 THEN Key(r.url, r.left - 1, r.late) ELSE NoEntry
  /\ gone' = Less(gone)
  /\ edge' = IF edge.left > 1 THEN Object(edge.url, edge.left - 1) ELSE NoObject
  /\ req' = [h \in Readers |-> Passed(h)]
  /\ job' = [w \in Writers |-> Waited(w)]
  /\ age' = IF AnswerOf(Later) # Answer THEN 0
            ELSE IF age < AgeCap THEN age + 1 ELSE age

Redirect(h) == \/ ReadUrl(h) \/ ReadGone(h) \/ Select(h) \/ SetUrl(h)
               \/ SetGone(h) \/ Reply(h) \/ ReadFails(h)

Write(w) ==
  \/ \E u \in Urls, e \in Exps \cup {Never} : Create(w, u, e)
  \/ \E u \in Urls \cup {None}, e \in Exps \cup {None} : Patch(w, u, e)
  \/ Store(w) \/ Delete(w) \/ DropUrl(w) \/ DropGone(w)
  \/ Commit(w) \/ Purge(w) \/ WriteFails(w)

Next == (\E h \in Readers : Redirect(h)) \/ (\E w \in Writers : Write(w)) \/ Tick

Spec == Init /\ [][Next]_vars

-----------------------------------------------------------------------------
(* Properties.                                                             *)

KeyType == [url : Urls, left : 1 .. MaxLife, late : BOOLEAN]
ObjectType == [url : Urls, left : 1 .. EdgeTtl]

ReqType == [pc : {"idle", "exists", "select", "seturl", "setgone", "answer"},
            url : Urls \cup {None}, ttl : 0 .. MaxLife, span : 0 .. Span]

JobType == [pc : {"ready", "store", "drop_url", "drop_gone", "commit", "purge", "done",
                  "broken"},
            op : {"none", "create", "patch", "delete"}, url : Urls \cup {None},
            exp : 0 .. MaxLife \cup {None}, rounds : 0 .. 2, span : 0 .. Span]

\* Type correctness of the row, the caches and the requests in flight.
TypeOK ==
  /\ row \in [state : {"absent", "live", "deleted"}, url : Urls \cup {None},
              exp : Lifetimes]
  /\ r \in {NoEntry} \cup KeyType
  /\ gone \in 0 .. GoneTtl
  /\ edge \in {NoObject} \cup ObjectType
  /\ req \in [Readers -> ReqType]
  /\ job \in [Writers -> JobType]
  /\ age \in 0 .. AgeCap

\* An outdated "r:<token>" disappears: at the latest one lifetime of an entry
\* after the row was last written or expired, plus the duration of one request
\* (routes.py: no path renews an entry without reading the row).
StaleRedirectEnds == r.url \notin {None, Answer} => age + r.left <= MaxLife + Span

\* A negative entry that hides a live link disappears within its 60 s: nothing
\* renews "gone:<token>" while the row is live.
NegativeCacheEnds == gone > 0 /\ Answer # None => age + gone <= GoneTtl + Span

\* Varnish may keep what an outdated Redis entry answered, but only for one more
\* Varnish lifetime, purged or not.
StaleEdgeEnds ==
  edge.url \notin {None, Answer} => age + edge.left <= MaxLife + 2 * Span + EdgeTtl

\* delete_qr invalidates after its commit: from then on only a redirect that read
\* the row before the commit and wrote late, or a DELETE that did not get to
\* its invalidation, keeps a deleted link in Redis.
DeleteInvalidates ==
  row.state = "deleted" /\ r # NoEntry /\ ~r.late =>
    \E w \in Writers : job[w].op = "delete" /\ job[w].pc \in {"drop_url", "broken"}
=============================================================================
