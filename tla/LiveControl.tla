---------------------------- MODULE LiveControl ----------------------------
(***************************************************************************)
(* The control file between the dashboard and the peers, and the snapshot  *)
(* cache beside it.  scripts/serve_live_runtime.py handles every request   *)
(* in a thread of its own and takes no lock: a POST reads control.json,    *)
(* changes the keys it names and writes the file back; a GET answers from  *)
(* a cache kept under the signature of the snapshot directory, which the   *)
(* threads share and fill in two steps, the payload before its signature.  *)
(* Every peer looks at the file's time at the beginning of a tick          *)
(* (simulation/runtime.py) and applies what it can parse.                  *)
(*                                                                         *)
(* Abstractions: requests that are refused (path, origin, token, JSON) and *)
(* keys with a bad value change nothing and are left out; the directory's  *)
(* signature is that of control.json, as peers write their snapshots only  *)
(* at the end of their run.  Changes close to one another may get one time *)
(* stamp, the truncation and the writing of one write_text as a rule.      *)
(***************************************************************************)
EXTENDS Naturals

CONSTANTS
  Thread,       \* threads that handle POST /control
  Reader,       \* threads that handle GET /snapshot, or a stream
  Peer,
  Key,          \* CONTROL_KEYS
  Value,
  Default,      \* the value the run is launched with
  Empty,        \* the text of a file just truncated
  Garbled,      \* the rest of a longer text behind a shorter one
  Request,      \* what a POST may set
  MaxRequests   \* bound: POSTs in a run

ASSUME LiveControlAssumption ==
  /\ Default \in Value
  /\ MaxRequests \in Nat

Settings == UNION {[S -> Value] : S \in SUBSET Key}

ASSUME TextAssumption ==
  /\ {Empty, Garbled} \cap Settings = {}
  /\ Request \subseteq Settings

VARIABLES
  text,      \* what control.json holds
  mtime,     \* its st_mtime_ns
  post,      \* the POST each thread handles
  posted,    \* POSTs so far
  seen,      \* _control_mtime_ns of each peer
  looking,   \* peers between stat and read_text
  applied,   \* _tick_seconds, _tick_delay_seconds, _requested_drone_count
  get,       \* the GET each reader handles
  cache,     \* _merged_cache: the time of the file it was made from, 0 for none
  cacheSig,  \* _merged_signature
  latest,    \* history: what each key was last set to
  overlap,   \* history: two POSTs were handled at a time
  reading,   \* history: whether what a peer read last is what the file holds now
  crowded    \* history: two GETs filled the cache at a time, and none alone since

fileVars == <<text, mtime>>
postVars == <<post, posted, latest>>
peerVars == <<seen, looking, applied>>
cacheVars == <<get, cache, cacheSig, crowded>>
vars == <<fileVars, postVars, peerVars, cacheVars, overlap, reading>>

Size == (SUBSET Key) \cup {Empty, Garbled}
Signature == [time : Nat, size : Size]
Get == [at : {"idle", "signed", "missed", "merged", "stored", "answer"},
        sig : Signature, content : Nat, alone : BOOLEAN]

\* An empty set of settings.
Nothing == [k \in {} |-> Default]

\* Every variable keeps its type; a key that no request has dropped has a value.
TypeOK ==
  /\ text \in Settings \cup {Empty, Garbled}
  /\ mtime \in Nat \ {0}
  /\ post \in [Thread -> [at : {"idle", "read", "opened"}, change : Settings,
                          text : Settings]]
  /\ posted \in 0 .. MaxRequests
  /\ seen \in [Peer -> Nat]
  /\ looking \subseteq Peer
  /\ applied \in [Peer -> [Key -> Value]]
  /\ get \in [Reader -> Get]
  /\ cache \in Nat
  /\ cacheSig \in Signature
  /\ latest \in [Key -> Value]
  /\ overlap \in BOOLEAN
  /\ reading \in [Peer -> {"old", "now", "early"}]
  /\ crowded \in BOOLEAN

-----------------------------------------------------------------------------
NoPost == [at |-> "idle", change |-> Nothing, text |-> Nothing]
Unsigned == [time |-> 0, size |-> Empty]
NoGet == [at |-> "idle", sig |-> Unsigned, content |-> 0, alone |-> FALSE]

\* What json.loads makes of a text: nothing of one that is empty or garbled.
Parsed(t) == IF t \in {Empty, Garbled} THEN Nothing ELSE t

\* The settings g with those of f put over them.
Over(f, g) ==
  [k \in DOMAIN f \cup DOMAIN g |-> IF k \in DOMAIN f THEN f[k] ELSE g[k]]

\* The launcher writes the file before it starts the peers and the server.
Init ==
  /\ text = [k \in Key |-> Default]
  /\ mtime = 1
  /\ post = [t \in Thread |-> NoPost]
  /\ posted = 0
  /\ seen = [p \in Peer |-> 0]
  /\ looking = {}
  /\ applied = [p \in Peer |-> [k \in Key |-> Default]]
  /\ get = [r \in Reader |-> NoGet]
  /\ cache = 0
  /\ cacheSig = Unsigned
  /\ latest = [k \in Key |-> Default]
  /\ overlap = FALSE
  /\ reading = [p \in Peer |-> "old"]
  /\ crowded = FALSE

-----------------------------------------------------------------------------
Updated_Fresh(change) == change

\* do_POST: the file's settings with the request's put over them.
Updated(change) == Over(change, Parsed(text))

Read(t) ==
  /\ post[t].at = "idle"
  /\ posted < MaxRequests
  /\ posted' = posted + 1
  /\ \E change \in Request :
       post' = [post EXCEPT ![t] = [at |-> "read", change |-> change,
                                    text |-> Updated(change)]]
  /\ overlap' = (overlap \/ \E u \in Thread : post[u].at # "idle")
  /\ UNCHANGED <<fileVars, latest, peerVars, cacheVars, reading>>

\* The file changes, and may keep its time stamp: for a peer that has read it
\* since it got that one, this was too early.
Stamp ==
  /\ mtime' \in {mtime, mtime + 1}
  /\ reading' = [p \in Peer |->
       IF mtime' # mtime \/ reading[p] = "old" THEN "old" ELSE "early"]

\* write_text opens the file, which truncates it, ...
Open(t) ==
  /\ post[t].at = "read"
  /\ post' = [post EXCEPT ![t].at = "opened"]
  /\ text' = Empty
  /\ Stamp
  /\ UNCHANGED <<posted, latest, peerVars, cacheVars, overlap>>

\* ... and writes from its beginning: over what another thread wrote meanwhile,
\* whose end stays if it is longer.
Write(t) ==
  /\ post[t].at = "opened"
  /\ text' \in {post[t].text} \cup (IF text = Empty THEN {} ELSE {Garbled})
  /\ Stamp
  /\ latest' = Over(post[t].change, latest)
  /\ post' = [post EXCEPT ![t] = NoPost]
  /\ UNCHANGED <<posted, peerVars, cacheVars, overlap>>

-----------------------------------------------------------------------------
\* _apply_runtime_control: nothing to do while the file's time is the same.
Look(p) ==
  /\ p \notin looking
  /\ seen[p] # mtime
  /\ seen' = [seen EXCEPT ![p] = mtime]
  /\ looking' = looking \cup {p}
  /\ UNCHANGED <<fileVars, postVars, applied, cacheVars, overlap, reading>>

\* The time taken after the reading, which may have found the file empty.
Apply_StampLate(p) ==
  /\ p \in looking
  /\ looking' = looking \ {p}
  /\ seen' = [seen EXCEPT ![p] = mtime]
  /\ \E t \in {text, Empty} : applied' = [applied EXCEPT ![p] = Over(Parsed(t), @)]
  /\ reading' = [reading EXCEPT ![p] = "now"]
  /\ UNCHANGED <<fileVars, postVars, cacheVars, overlap>>

Apply_Replaces(p) ==
  /\ p \in looking
  /\ looking' = looking \ {p}
  /\ applied' = [applied EXCEPT ![p] = Parsed(text)]
  /\ reading' = [reading EXCEPT ![p] = "now"]
  /\ UNCHANGED <<fileVars, postVars, seen, cacheVars, overlap>>

\* A text that does not parse is passed over.
Apply(p) ==
  /\ p \in looking
  /\ looking' = looking \ {p}
  /\ applied' = [applied EXCEPT ![p] = Over(Parsed(text), @)]
  /\ reading' = [reading EXCEPT ![p] = "now"]
  /\ UNCHANGED <<fileVars, postVars, seen, cacheVars, overlap>>

-----------------------------------------------------------------------------
\* _snapshot_signature: names, times and sizes; values of as many digits make
\* texts of one size.
SignatureNow ==
  [time |-> mtime, size |-> IF text \in {Empty, Garbled} THEN text ELSE DOMAIN text]

\* The readers that fill the cache.
Filling == {r \in Reader : get[r].at \in {"missed", "merged", "stored"}}

\* get_merged_payload takes the signature, ...
Sign(r) ==
  /\ get[r].at = "idle"
  /\ get' = [get EXCEPT ![r].at = "signed", ![r].sig = SignatureNow]
  /\ UNCHANGED <<fileVars, postVars, peerVars, cache, cacheSig, overlap, reading, crowded>>

\* ... compares it with the one of the cache, ...
Hit(r) ==
  /\ get[r].at = "signed"
  /\ cache # 0 /\ cacheSig = get[r].sig
  /\ get' = [get EXCEPT ![r].at = "answer"]
  /\ UNCHANGED <<fileVars, postVars, peerVars, cache, cacheSig, overlap, reading, crowded>>

Miss(r) ==
  /\ get[r].at = "signed"
  /\ cache = 0 \/ cacheSig # get[r].sig
  /\ get' = [u \in Reader |->
       IF u = r THEN [get[r] EXCEPT !.at = "missed", !.alone = Filling = {}]
                ELSE [get[u] EXCEPT !.alone = FALSE]]
  /\ crowded' = (crowded \/ Filling # {})
  /\ UNCHANGED <<fileVars, postVars, peerVars, cache, cacheSig, overlap, reading>>

\* ... reads the directory if they differ, ...
Merge(r) ==
  /\ get[r].at = "missed"
  /\ get' = [get EXCEPT ![r].at = "merged", ![r].content = mtime]
  /\ UNCHANGED <<fileVars, postVars, peerVars, cache, cacheSig, overlap, reading, crowded>>

\* ... stores the payload ...
StorePayload(r) ==
  /\ get[r].at = "merged"
  /\ get' = [get EXCEPT ![r].at = "stored"]
  /\ cache' = get[r].content
  /\ UNCHANGED <<fileVars, postVars, peerVars, cacheSig, overlap, reading, crowded>>

\* The payload stored under the signature that the directory has by now.
StoreSignature_Now(r) ==
  /\ get[r].at = "stored"
  /\ get' = [get EXCEPT ![r].at = "answer", ![r].content = 0,
                              ![r].alone = FALSE]
  /\ cacheSig' = SignatureNow
  /\ crowded' = (crowded /\ ~get[r].alone)
  /\ UNCHANGED <<fileVars, postVars, peerVars, cache, overlap, reading>>

\* ... and the signature taken before it was read.
StoreSignature(r) ==
  /\ get[r].at = "stored"
  /\ get' = [get EXCEPT ![r].at = "answer", ![r].content = 0,
                              ![r].alone = FALSE]
  /\ cacheSig' = get[r].sig
  /\ crowded' = (crowded /\ ~get[r].alone)
  /\ UNCHANGED <<fileVars, postVars, peerVars, cache, overlap, reading>>

\* What is answered is the cache as it is now, whoever has filled it.
Answer(r) ==
  /\ get[r].at = "answer"
  /\ get' = [get EXCEPT ![r] = NoGet]
  /\ UNCHANGED <<fileVars, postVars, peerVars, cache, cacheSig, overlap, reading, crowded>>

-----------------------------------------------------------------------------
Next ==
  \/ \E t \in Thread : Read(t) \/ Open(t) \/ Write(t)
  \/ \E p \in Peer : Look(p) \/ Apply(p)
  \/ \E r \in Reader : \/ Sign(r) \/ Hit(r) \/ Miss(r) \/ Merge(r)
                       \/ StorePayload(r) \/ StoreSignature(r) \/ Answer(r)

\* A request that has begun ends, and peers go on ticking.
Fairness ==
  /\ \A t \in Thread : WF_vars(Open(t) \/ Write(t))
  /\ \A p \in Peer : WF_vars(Look(p) \/ Apply(p))

Spec == Init /\ [][Next]_vars /\ Fairness

-----------------------------------------------------------------------------
\* As long as POSTs come one after the other, every key has the value it was
\* last set to, and none is lost.  (Two at a time lose updates, or leave a file
\* nobody can parse: the next POST then keeps only its own keys.)
SequentialPostsStick ==
  ~overlap /\ (\A t \in Thread : post[t].at # "opened") => text = latest

\* An answer is no older than its request, by the file's time, whatever POSTs do
\* meanwhile: what is cached under a signature was read after the signature was
\* taken.  Two GETs that fill the cache at a time may leave the older payload
\* under the newer signature; that lasts until a GET fills it alone, and no longer.
AnswerIsFresh ==
  ~crowded => \A r \in Reader : get[r].at = "answer" => cache >= get[r].sig.time

\* Every peer ends up with the settings in the file, although it may look at it
\* in the middle of a write and passes over what it cannot parse; but for a peer
\* that read it between two changes with one time stamp, which does not look
\* again before the next POST.
SettlesOnFile ==
  <>[](\A p \in Peer : \/ reading[p] = "early"
                       \/ \A k \in DOMAIN Parsed(text) : applied[p][k] = Parsed(text)[k])
=============================================================================
