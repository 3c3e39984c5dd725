-------------------------- MODULE GeneralApiProofs --------------------------
(***************************************************************************)
(* What GeneralApi promises of the settings file, proved of any number of  *)
(* processes, any patches and any environment.                             *)
(***************************************************************************)
EXTENDS GeneralApi, TLAPS

Places ==
    {"idle", "write", "replace", "posted", "save", "path", "events", "send",
     "sent"}

\* What an operation holds.
Work(patch, config, run, participant, named, token) ==
    [patch |-> patch, config |-> config, run |-> run,
     participant |-> participant, named |-> named, token |-> token]

IsWork(w) ==
    w = Work(w.patch, w.config, w.run, w.participant, w.named, w.token)

\* Legal settings, as validate leaves them.
Sound(config) ==
    /\ config = Normalized(config)
    /\ Valid(config)
    /\ config.bot \in Bots

\* The settings to be written come from the file, from the patch or from the
\* environment, while nobody else replaced the file.
Explained(p, w) ==
    \A s \in Settings : \/ w.config[s] = OnDisk[s]
                        \/ s \in Named(w.patch)
                        \/ s \in DOMAIN Overrides(p)

\* A token that Archive issued is written with its participant and its run.
Lands(w, isFresh) ==
    w.token # NoToken =>
       /\ w.config.token = w.token /\ w.config.enabled = TRUE
       /\ w.named \/ isFresh => w.config.participant = w.participant
       /\ isFresh => w.config.run = w.run

\* The patch in w is one of save_registration.
Registration(w, isFresh) ==
    /\ w.patch = [participant |-> w.patch.participant, token |-> w.token,
                  enabled |-> TRUE]
    /\ w.patch.participant # Blanks /\ w.token \in Nat
    /\ w.named \/ isFresh => w.patch.participant = w.participant

RunInForce(p, w) == w.run = Loaded(p).run
ParticipantInForce(p, w) == w.participant = Loaded(p).participant

\* What is true of a process that stands at place with what w says.
Standing(p, place, w, isFresh) ==
    /\ place \in {"write", "replace"} =>
          /\ Sound(w.config)
          /\ isFresh => Explained(p, w)
          /\ Lands(w, isFresh)
    /\ place = "posted" => w.participant # Blanks
    /\ place = "save" => /\ Registration(w, isFresh)
                         /\ isFresh => RunInForce(p, w)
    /\ place \in {"posted", "events", "send"} /\ isFresh =>
          ParticipantInForce(p, w)
    /\ place \in {"posted", "send"} /\ isFresh => RunInForce(p, w)

Typed ==
    /\ pc \in [Processes -> Places]
    /\ work = [p \in Processes |-> work[p]]
    /\ \A p \in Processes : IsWork(work[p])
    /\ fresh \in [Processes -> BOOLEAN]
    /\ issued \in Nat

ApiInv ==
    /\ Typed
    /\ file = Missing \/ Sound(file)
    /\ \A p \in Processes : Standing(p, pc[p], work[p], fresh[p])

-----------------------------------------------------------------------------
(* What an operation holds *)

\* What the actions make of it.
PutPatch(w, a)       == [w EXCEPT !.patch = a]
PutConfig(w, a)      == [w EXCEPT !.config = a]
PutRun(w, a)         == [w EXCEPT !.run = a]
PutParticipant(w, a) == [w EXCEPT !.participant = a]
PutNamed(w, a)       == [w EXCEPT !.named = a]
PutToken(w, a)       == [w EXCEPT !.token = a]
PutPath(w, a, b)     == [w EXCEPT !.run = a, !.participant = b]
PutAnswer(w, a, b)   == [w EXCEPT !.named = a, !.token = b]

\* The fields of what an operation holds.
LEMMA WorkFacts ==
    ASSUME NEW pa, NEW co, NEW ru, NEW pt, NEW na, NEW to
    PROVE  /\ IsWork(Work(pa, co, ru, pt, na, to))
           /\ Work(pa, co, ru, pt, na, to).patch = pa
           /\ Work(pa, co, ru, pt, na, to).config = co
           /\ Work(pa, co, ru, pt, na, to).run = ru
           /\ Work(pa, co, ru, pt, na, to).participant = pt
           /\ Work(pa, co, ru, pt, na, to).named = na
           /\ Work(pa, co, ru, pt, na, to).token = to
BY DEF Work, IsWork

\* One field is replaced, and the others stay.
LEMMA PutField ==
    ASSUME NEW v, IsWork(v), NEW a
    PROVE  /\ PutPatch(v, a) =
                Work(a, v.config, v.run, v.participant, v.named, v.token)
           /\ PutConfig(v, a) =
                Work(v.patch, a, v.run, v.participant, v.named, v.token)
           /\ PutRun(v, a) =
                Work(v.patch, v.config, a, v.participant, v.named, v.token)
           /\ PutParticipant(v, a) =
                Work(v.patch, v.config, v.run, a, v.named, v.token)
           /\ PutNamed(v, a) =
                Work(v.patch, v.config, v.run, v.participant, a, v.token)
           /\ PutToken(v, a) =
                Work(v.patch, v.config, v.run, v.participant, v.named, a)
<1>1. PICK pa, co, ru, pt, na, to :
         /\ pa = v.patch /\ co = v.config /\ ru = v.run
         /\ pt = v.participant /\ na = v.named /\ to = v.token
  OBVIOUS
<1>2. v = [patch |-> pa, config |-> co, run |-> ru, participant |-> pt,
           named |-> na, token |-> to]
  BY <1>1 DEF IsWork, Work
<1>3. PutPatch(v, a) = Work(a, co, ru, pt, na, to)
  BY <1>2 DEF Work, PutPatch
<1>4. PutConfig(v, a) = Work(pa, a, ru, pt, na, to)
  BY <1>2 DEF Work, PutConfig
<1>5. PutRun(v, a) = Work(pa, co, a, pt, na, to)
  BY <1>2 DEF Work, PutRun
<1>6. PutParticipant(v, a) = Work(pa, co, ru, a, na, to)
  BY <1>2 DEF Work, PutParticipant
<1>7. PutNamed(v, a) = Work(pa, co, ru, pt, a, to)
  BY <1>2 DEF Work, PutNamed
<1>8. PutToken(v, a) = Work(pa, co, ru, pt, na, a)
  BY <1>2 DEF Work, PutToken
<1> QED
  BY <1>1, <1>3, <1>4, <1>5, <1>6, <1>7, <1>8

\* Two fields are replaced at once.
LEMMA PutFields ==
    ASSUME NEW v, IsWork(v), NEW a, NEW b
    PROVE  /\ PutPath(v, a, b) =
                Work(v.patch, v.config, a, b, v.named, v.token)
           /\ PutAnswer(v, a, b) =
                Work(v.patch, v.config, v.run, v.participant, a, b)
<1>1. PutPath(v, a, b) = PutParticipant(PutRun(v, a), b)
  BY DEF IsWork, Work, PutPath, PutParticipant, PutRun
<1>2. PutAnswer(v, a, b) = PutToken(PutNamed(v, a), b)
  BY DEF IsWork, Work, PutAnswer, PutToken, PutNamed
<1>3. IsWork(PutRun(v, a)) /\ IsWork(PutNamed(v, a))
  BY PutField, WorkFacts
<1> QED
  BY <1>1, <1>2, <1>3, PutField, WorkFacts

\* Nothing is held yet.
LEMMA BlankFacts == IsWork(Blank) /\ Blank.token = NoToken
<1>1. /\ Blank = Work(<<>>, Base, "", "", FALSE, NoToken)
      /\ IsWork(Blank) /\ Blank.token = NoToken
  BY WorkFacts DEF Blank, Work
<1> QED
  BY <1>1

-----------------------------------------------------------------------------
(* Settings *)

\* What validate made of a value it leaves alone.
LEMMA StandsFacts ==
    ASSUME NEW s, NEW x
    PROVE  /\ Stands(s, Stands(s, x)) = Stands(s, x)
           /\ s \in Texts => Stands(s, x) # Blanks
           /\ x # Blanks /\ s \notin {"roles", "url"} => Stands(s, x) = x
           /\ s \notin Texts \cup {"roles", "url"} => Stands(s, x) = x
<1>1. Base.url # "" /\ Empty(s) # Blanks
  <2>1. Base.url \in Urls
    BY BaseAssumption DEF Valid
  <2>2. "" # Blanks /\ \A n \in Nat : n # Blanks
    BY BlanksAssumption
  <2>3. 0 \in Nat
    OBVIOUS
  <2>4. NoToken # Blanks
    BY <2>2, <2>3 DEF NoToken
  <2> QED
    BY <2>1, <2>2, <2>4, BlanksAssumption DEF Empty
<1>2. /\ Stands(s, x) = IF s \in Texts /\ x = Blanks THEN Empty(s)
                        ELSE IF s = "roles" /\ x = {} THEN {"trader"}
                        ELSE IF s = "url" /\ x = "" THEN Base.url
                        ELSE x
      /\ "roles" \notin Texts /\ "url" \notin Texts
  BY DEF Stands, Texts
<1>3. \A y : Stands(s, y) = IF s \in Texts /\ y = Blanks THEN Empty(s)
                            ELSE IF s = "roles" /\ y = {} THEN {"trader"}
                            ELSE IF s = "url" /\ y = "" THEN Base.url
                            ELSE y
  BY DEF Stands, Texts
<1>4. s \in Texts => Stands(s, x) # Blanks
  BY <1>1, <1>2
<1>5. Stands(s, Stands(s, x)) = Stands(s, x)
  <2>1. CASE s \in Texts
    BY <1>2, <1>3, <1>4, <2>1
  <2>2. CASE s = "roles"
    BY <1>2, <1>3, <2>2
  <2>3. CASE s = "url"
    BY <1>1, <1>2, <1>3, <2>3
  <2>4. CASE s \notin Texts \cup {"roles", "url"}
    BY <1>2, <1>3, <2>4
  <2> QED
    BY <2>1, <2>2, <2>3, <2>4
<1> QED
  BY <1>2, <1>4, <1>5

\* Settings that validate has seen stay as they are.
LEMMA NormalizedFacts ==
    ASSUME NEW u
    PROVE  /\ Normalized(Normalized(u)) = Normalized(u)
           /\ DOMAIN Normalized(u) = Settings
           /\ \A s \in Settings : Normalized(u)[s] = Stands(s, u[s])
<1> DEFINE m == Normalized(u)
<1>1. DOMAIN m = Settings /\ \A s \in Settings : m[s] = Stands(s, u[s])
  BY DEF Normalized
<1>2. m = [s \in Settings |-> Stands(s, u[s])]
  BY DEF Normalized
<1> HIDE DEF m
<1>3. Normalized(m) = [s \in Settings |-> Stands(s, m[s])]
  BY DEF Normalized
<1>4. \A s \in Settings : Stands(s, m[s]) = Stands(s, u[s])
  BY <1>1, StandsFacts
<1>5. Normalized(m) = m
  BY <1>2, <1>3, <1>4
<1> QED
  BY <1>1, <1>5 DEF m

\* What validate left is left alone.
LEMMA SoundFacts ==
    ASSUME NEW config, Sound(config)
    PROVE  /\ DOMAIN config = Settings
           /\ \A s \in Settings : Stands(s, config[s]) = config[s]
           /\ config.participant # Blanks
<1>1. /\ DOMAIN config = Settings
      /\ \A s \in Settings : config[s] = Stands(s, config[s])
  BY NormalizedFacts DEF Sound
<1>2. "participant" \in Settings /\ "participant" \in Texts
  BY BaseAssumption DEF Texts
<1> QED
  BY <1>1, <1>2, StandsFacts

\* The settings in the file, or of no file, are legal, and the file is whole.
LEMMA OnDiskFacts ==
    ASSUME ApiInv
    PROVE  Sound(OnDisk) /\ file # Partial
<1>1. Sound(Base)
  BY BaseAssumption DEF Sound, Bots
<1>2. Sound(OnDisk)
  BY <1>1 DEF ApiInv, OnDisk
<1>3. ~ Sound(Partial)
  <2>1. "bot" \in Settings
    BY BaseAssumption
  <2>2. DOMAIN Partial = {}
    BY DEF Partial
  <2> QED
    BY <2>1, <2>2, SoundFacts
<1> QED
  BY <1>2, <1>3, BaseAssumption DEF ApiInv

\* What a process loads, if it can: the environment's settings, else those on
\* disk.
LEMMA LoadedFacts ==
    ASSUME ApiInv, NEW p \in Processes
    PROVE  /\ Valid(Loaded(p)) => Sound(Loaded(p))
           /\ Legal(p) => Valid(Loaded(p))
           /\ DOMAIN Overrides(p) \subseteq Overridable
           /\ \A s \in Settings \ DOMAIN Overrides(p) :
                 Loaded(p)[s] = OnDisk[s]
<1> DEFINE d == OnDisk
           e == Overrides(p)
           u == Updated(d, e)
           v == Updated(Base, e)
<1>1. /\ d.bot \in Bots /\ Valid(d) /\ d.bot # ""
      /\ \A s \in Settings : Stands(s, d[s]) = d[s]
  BY OnDiskFacts, SoundFacts DEF Sound, Valid
<1>2. DOMAIN e \subseteq Overridable
  BY <1>1, EnvironmentAssumption DEF Overrides
<1>3. Loaded(p) = Normalized(u) /\ Legal(p) = Valid(Normalized(v))
  BY DEF Loaded, Legal
<1> HIDE DEF d, e
<1>4. \A s \in Settings : /\ u[s] = IF s \in DOMAIN e THEN e[s] ELSE d[s]
                          /\ v[s] = IF s \in DOMAIN e THEN e[s] ELSE Base[s]
  BY DEF Updated
<1>5. {"bot", "url", "participant", "roles", "cash"} \subseteq Settings
  BY BaseAssumption
<1> HIDE DEF u, v
<1> DEFINE m == Normalized(u)
           n == Normalized(v)
<1>6. \A s \in Settings : m[s] = Stands(s, u[s]) /\ n[s] = Stands(s, v[s])
  BY NormalizedFacts
<1>7. Normalized(m) = m
  BY NormalizedFacts
<1> HIDE DEF m, n
<1>8. /\ \A s \in Settings \ DOMAIN e : m[s] = d[s]
      /\ \A s \in Settings \cap DOMAIN e : m[s] = n[s]
  <2>1. ASSUME NEW s \in Settings, s \notin DOMAIN e
        PROVE  m[s] = d[s]
    <3>1. u[s] = d[s]
      BY <2>1, <1>4
    <3>2. m[s] = Stands(s, d[s])
      BY <3>1, <1>6
    <3> QED
      BY <3>2, <1>1
  <2>2. ASSUME NEW s \in Settings, s \in DOMAIN e
        PROVE  m[s] = n[s]
    <3>1. u[s] = v[s]
      BY <2>2, <1>4
    <3>2. m[s] = Stands(s, u[s]) /\ n[s] = Stands(s, v[s])
      BY <1>6
    <3> QED
      BY <3>1, <3>2
  <2> QED
    BY <2>1, <2>2
<1>9. m.bot = d.bot /\ m.roles = d.roles /\ m.cash = d.cash
  BY <1>2, <1>5, <1>8 DEF Overridable
<1>10. Valid(m) => Sound(m)
  BY <1>1, <1>7, <1>9 DEF Sound
<1>11. Valid(n) => Valid(m)
  BY <1>1, <1>5, <1>8, <1>9 DEF Valid
<1> QED
  BY <1>2, <1>3, <1>8, <1>10, <1>11 DEF d, e, m, n

\* A bot that a patch names, if it names one, is known.
NamesKnownBot(patch) ==
    "bot" \in DOMAIN patch => patch["bot"] \in Bots \cup {"", Blanks}

\* What a save is going to write.
LEMMA MergedFacts ==
    ASSUME ApiInv, NEW p \in Processes, NEW patch, Loads(p),
           DOMAIN patch \subseteq Settings, NamesKnownBot(patch),
           Valid(Merged(p, patch))
    PROVE  /\ Sound(Merged(p, patch))
           /\ \A s \in Settings \ Named(patch) :
                 Merged(p, patch)[s] = Loaded(p)[s]
           /\ \A s \in Named(patch) :
                 Merged(p, patch)[s] = Stands(s, patch[s])
<1> DEFINE l == Loaded(p)
           n == Named(patch)
           g == Restrict(patch, n)
           u == Updated(l, g)
<1>1. Sound(l)
  BY LoadedFacts DEF Loads
<1>2. n \subseteq DOMAIN patch
  BY DEF Named
<1>3. DOMAIN g = n /\ \A s \in n : g[s] = patch[s]
  BY DEF Restrict
<1>4. Merged(p, patch) = Normalized(u)
  BY DEF Merged
<1> HIDE DEF l, n, g
<1>5. \A s \in Settings : u[s] = IF s \in n THEN patch[s] ELSE l[s]
  BY <1>3 DEF Updated
<1> HIDE DEF u
<1>6. "bot" \in Settings /\ "bot" \in Texts
  BY BaseAssumption DEF Texts
<1> DEFINE m == Normalized(u)
<1>7. /\ Normalized(m) = m
      /\ \A s \in Settings : m[s] = Stands(s, u[s])
  BY NormalizedFacts
<1> HIDE DEF m
<1>8. \A s \in Settings \ n : m[s] = l[s]
  BY <1>1, <1>5, <1>7, SoundFacts
<1>9. \A s \in n : m[s] = Stands(s, patch[s])
  BY <1>2, <1>5, <1>7
<1>10. m.bot \in Bots
  <2>1. m.bot # ""
    BY <1>4 DEF m, Valid
  <2>2. CASE "bot" \in n
    <3>1. m.bot = Stands("bot", patch["bot"])
      BY <1>9, <2>2
    <3>2. Stands("bot", Blanks) = ""
      BY <1>6 DEF Stands, Empty
    <3>3. patch["bot"] # Blanks
      BY <2>1, <3>1, <3>2
    <3>4. m.bot = patch["bot"]
      BY <3>1, <3>3, StandsFacts
    <3> QED
      BY <1>2, <2>1, <2>2, <3>3, <3>4 DEF NamesKnownBot
  <2>3. CASE "bot" \notin n
    BY <1>1, <1>6, <1>8, <2>3 DEF Sound
  <2> QED
    BY <2>2, <2>3
<1>11. Sound(m)
  BY <1>4, <1>7, <1>10 DEF Sound, m
<1> QED
  BY <1>2, <1>4, <1>8, <1>9, <1>11 DEF m, l, n

-----------------------------------------------------------------------------
(* Steps *)

\* Process p goes to place with what w says, and leaves the file alone.
Moves(p, place, w) ==
    /\ file' = file
    /\ issued' \in Nat
    /\ Go(p, place, w)
    /\ fresh' = fresh \/ /\ place = "idle"
                         /\ fresh' = [fresh EXCEPT ![p] = TRUE]

\* A process that stays stands as it stood while the file is the same.
LEMMA StandingStays ==
    ASSUME NEW p, NEW place, NEW w, NEW isFresh,
           Standing(p, place, w, isFresh), file' = file
    PROVE  Standing(p, place, w, isFresh)'
<1>1. OnDisk' = OnDisk
  BY DEF OnDisk
<1>2. Loaded(p)' = Loaded(p) /\ Overrides(p)' = Overrides(p)
  BY <1>1 DEF Loaded, Overrides
<1> QED
  BY <1>1, <1>2
  DEF Standing, Explained, Lands, Registration, RunInForce,
      ParticipantInForce

\* A step of one process that leaves the file alone.
LEMMA MovesInv ==
    ASSUME ApiInv, NEW p \in Processes, NEW place \in Places, NEW w,
           Moves(p, place, w), IsWork(w), Standing(p, place, w, fresh[p])
    PROVE  ApiInv'
<1>1. /\ pc' \in [Processes -> Places]
      /\ fresh' \in [Processes -> BOOLEAN]
      /\ DOMAIN work' = Processes
      /\ work' = [q \in Processes |-> work'[q]]
      /\ \A q \in Processes :
            /\ pc'[q] = IF q = p THEN place ELSE pc[q]
            /\ work'[q] = IF q = p THEN w ELSE work[q]
            /\ q # p \/ place # "idle" => fresh'[q] = fresh[q]
  BY DEF ApiInv, Typed, Moves, Go
<1>2. \A q \in Processes : IsWork(work'[q])
  BY <1>1 DEF ApiInv, Typed
<1>3. file' = Missing \/ Sound(file')
  BY DEF ApiInv, Moves
<1>4. ASSUME NEW q \in Processes
      PROVE  Standing(q, pc[q], work[q], fresh[q])'
  <2>1. \E at, x, f : /\ at = pc'[q] /\ x = work'[q] /\ f = fresh'[q]
    OBVIOUS
  <2>2. PICK at, x, f : at = pc'[q] /\ x = work'[q] /\ f = fresh'[q]
    BY <2>1
  <2>3. Standing(q, at, x, f)
    <3>1. CASE q # p
      BY <1>1, <2>2, <3>1 DEF ApiInv
    <3>2. CASE q = p /\ place # "idle"
      BY <1>1, <2>2, <3>2
    <3>3. CASE q = p /\ place = "idle"
      BY <1>1, <2>2, <3>3 DEF Standing
    <3> QED
      BY <3>1, <3>2, <3>3
  <2>4. Standing(q, at, x, f)'
    BY <2>3, StandingStays DEF Moves
  <2> QED
    BY <2>2, <2>4
<1> QED
  BY <1>1, <1>2, <1>3, <1>4 DEF ApiInv, Typed, Moves, Sound, IsWork

\* Wherever it stands, a process may give up.
LEMMA IdleInv ==
    ASSUME ApiInv, NEW p \in Processes, Stop(p), UNCHANGED <<file, issued>>
    PROVE  ApiInv'
<1>1. Moves(p, "idle", Blank)
  BY DEF Stop, Moves, ApiInv, Typed
<1>2. IsWork(Blank) /\ Standing(p, "idle", Blank, fresh[p])
  BY BlankFacts DEF Standing
<1> QED
  BY <1>1, <1>2, MovesInv DEF Places

\* The part of a save before the file is written.
LEMMA MergeInv ==
    ASSUME ApiInv, NEW p \in Processes, NEW w, IsWork(w), Merge(p, w),
           UNCHANGED <<file, issued, fresh>>, NamesKnownBot(w.patch),
           w.token # NoToken => /\ Registration(w, fresh[p])
                                /\ fresh[p] => RunInForce(p, w)
    PROVE  ApiInv'
<1> DEFINE m == Merged(p, w.patch)
           x == [w EXCEPT !.config = m]
<1>1. /\ Moves(p, "write", x) /\ Loads(p)
      /\ DOMAIN w.patch \subseteq Settings /\ Valid(m)
  BY DEF Merge, Moves, ApiInv, Typed
<1>2. /\ Sound(m)
      /\ \A s \in Settings \ Named(w.patch) : m[s] = Loaded(p)[s]
      /\ \A s \in Named(w.patch) : m[s] = Stands(s, w.patch[s])
  BY <1>1, MergedFacts
<1> HIDE DEF m
<1>3. /\ IsWork(x) /\ x.config = m /\ x.patch = w.patch
      /\ x.token = w.token /\ x.named = w.named /\ x.run = w.run
      /\ x.participant = w.participant
  <2>1. x = PutConfig(w, m)
    BY DEF PutConfig
  <2> HIDE DEF x
  <2> QED
    BY <2>1, PutField, WorkFacts
<1> HIDE DEF x
<1>4. Explained(p, x)
  BY <1>2, <1>3, LoadedFacts DEF Explained
<1>5. Lands(x, fresh[p])
  <2>1. SUFFICES ASSUME w.token # NoToken PROVE Lands(x, fresh[p])
    BY <1>3 DEF Lands
  <2>2. w.patch = [participant |-> w.patch.participant, token |-> w.token,
                   enabled |-> TRUE]
    BY <2>1 DEF Registration
  <2>3. /\ DOMAIN w.patch = {"participant", "token", "enabled"}
        /\ w.patch["token"] = w.token /\ w.patch["enabled"] = TRUE
    BY <2>2
  <2>4. Named(w.patch) = {"participant", "token", "enabled"}
    BY <2>1, <2>3 DEF Named
  <2>5. /\ m.token = w.token /\ m.enabled = TRUE
        /\ m.participant = w.patch.participant
    <3>1. w.token # Blanks /\ w.patch.participant # Blanks
      BY <2>1, BlanksAssumption DEF Registration
    <3>2. /\ m.token = Stands("token", w.token)
          /\ m.enabled = Stands("enabled", TRUE)
          /\ m.participant = Stands("participant", w.patch.participant)
      BY <1>2, <2>3, <2>4
    <3>3. Stands("token", w.token) = w.token
      BY <3>1, StandsFacts
    <3>4. Stands("participant", w.patch.participant) = w.patch.participant
      BY <3>1, StandsFacts
    <3>5. Stands("enabled", TRUE) = TRUE
      BY DEF Stands, Texts
    <3> QED
      BY <3>2, <3>3, <3>4, <3>5
  <2>6. "run" \in Settings \ Named(w.patch)
    BY <2>4, BaseAssumption
  <2>7. m.run = Loaded(p).run
    BY <1>2, <2>6
  <2> QED
    BY <1>3, <2>1, <2>5, <2>7 DEF Lands, Registration, RunInForce
<1>6. Standing(p, "write", x, fresh[p])
  BY <1>2, <1>3, <1>4, <1>5 DEF Standing
<1> QED
  BY <1>1, <1>3, <1>6, MovesInv DEF Places

\* The file is replaced by legal settings, and nobody else is fresh who has
\* an operation under way.
LEMMA ReplaceInv ==
    ASSUME ApiInv, NEW p \in Processes, Replace(p)
    PROVE  ApiInv'
<1>1. Standing(p, pc[p], work[p], fresh[p]) /\ pc[p] = "replace"
  BY DEF ApiInv, Replace
<1>2. Sound(file')
  BY <1>1 DEF Standing, Replace
<1>3. /\ pc' \in [Processes -> Places]
      /\ fresh' \in [Processes -> BOOLEAN]
      /\ work' = [q \in Processes |-> work'[q]]
      /\ \A q \in Processes :
            /\ pc'[q] = IF q = p THEN "idle" ELSE pc[q]
            /\ work'[q] = IF q = p THEN Blank ELSE work[q]
            /\ fresh'[q] => q = p \/ pc[q] = "idle"
            /\ fresh'[q] \in BOOLEAN
  BY DEF ApiInv, Typed, Replace, Go, Places
<1>4. \A q \in Processes : IsWork(work'[q])
  BY <1>3, BlankFacts DEF ApiInv, Typed
<1>5. ASSUME NEW q \in Processes
      PROVE  Standing(q, pc[q], work[q], fresh[q])'
  <2>1. CASE pc'[q] = "idle"
    BY <2>1 DEF Standing
  <2>2. CASE pc'[q] # "idle"
    <3>1. /\ pc'[q] = pc[q] /\ work'[q] = work[q] /\ fresh'[q] = FALSE
      BY <1>3, <2>2
    <3>2. Standing(q, pc[q], work[q], fresh[q]) /\ fresh[q] \in BOOLEAN
      BY DEF ApiInv, Typed
    <3> QED
      BY <3>1, <3>2 DEF Standing, Lands, Registration
  <2> QED
    BY <2>1, <2>2
<1>6. issued' \in Nat
  BY DEF Replace, ApiInv, Typed
<1> QED
  BY <1>2, <1>3, <1>4, <1>5, <1>6 DEF ApiInv, Typed, Sound, IsWork

\* update and configure.
LEMMA ConfigureInv ==
    ASSUME ApiInv, NEW p \in Processes, NEW patch \in Patches,
           Configure(p, patch)
    PROVE  ApiInv'
<1> DEFINE w == [Blank EXCEPT !.patch = patch]
<1>1. IsWork(w) /\ w.patch = patch /\ w.token = NoToken
  <2>1. w = PutPatch(Blank, patch)
    BY DEF PutPatch
  <2> HIDE DEF w
  <2> QED
    BY <2>1, BlankFacts, PutField, WorkFacts
<1>2. Merge(p, w) /\ UNCHANGED <<file, issued, fresh>>
  BY DEF Configure
<1>3. NamesKnownBot(patch)
  BY DEF NamesKnownBot, Bots
<1> HIDE DEF w
<1> QED
  BY <1>1, <1>2, <1>3, MergeInv

\* The temporary file is written.
LEMMA WriteInv ==
    ASSUME ApiInv, NEW p \in Processes, Write(p)
    PROVE  ApiInv'
<1>1. Moves(p, "replace", work[p])
  BY DEF Write, Moves, ApiInv, Typed
<1>2. IsWork(work[p]) /\ Standing(p, "write", work[p], fresh[p])
  BY DEF Write, ApiInv, Typed
<1>3. Standing(p, "replace", work[p], fresh[p])
  BY <1>2 DEF Standing
<1> QED
  BY <1>1, <1>2, <1>3, MovesInv DEF Places

\* register, before Archive answers.
LEMMA RegisterInv ==
    ASSUME ApiInv, NEW p \in Processes, Register(p)
    PROVE  ApiInv'
<1> DEFINE w == [Blank EXCEPT !.run = Loaded(p).run,
                   !.participant = Loaded(p).participant]
<1>1. Moves(p, "posted", w)
  BY DEF Register, Moves, ApiInv, Typed
<1>2. /\ IsWork(w) /\ w.run = Loaded(p).run
      /\ w.participant = Loaded(p).participant
  <2>1. w = PutPath(Blank, Loaded(p).run, Loaded(p).participant)
    BY DEF PutPath
  <2> HIDE DEF w
  <2> QED
    BY <2>1, BlankFacts, PutFields, WorkFacts
<1> HIDE DEF w
<1>3. /\ IsWork(w) /\ RunInForce(p, w) /\ ParticipantInForce(p, w)
      /\ w.participant # Blanks
  <2>1. Sound(Loaded(p))
    BY LoadedFacts DEF Register, Loads
  <2> QED
    BY <1>2, <2>1, SoundFacts DEF RunInForce, ParticipantInForce
<1>4. Standing(p, "posted", w, fresh[p])
  BY <1>3 DEF Standing
<1> QED
  BY <1>1, <1>3, <1>4, MovesInv DEF Places

\* Archive's answer, made into a patch.
LEMMA AnswerInv ==
    ASSUME ApiInv, NEW p \in Processes, Answer(p)
    PROVE  ApiInv'
<1>1. /\ pc[p] = "posted" /\ IsWork(work[p]) /\ issued \in Nat
      /\ Standing(p, pc[p], work[p], fresh[p])
  BY DEF Answer, ApiInv, Typed
<1>2. PICK named \in BOOLEAN, token \in {NoToken, issued + 1} :
         LET answer == [work[p] EXCEPT !.named = named, !.token = token] IN
         /\ Go(p, "save",
               [answer EXCEPT !.patch = RegistrationPatch(p, answer)])
         /\ issued' = IF token = NoToken THEN issued ELSE token
         /\ ~ named => Loads(p)
         /\ UNCHANGED <<file, fresh>>
  BY DEF Answer
<1> DEFINE old == work[p]
           answer == [old EXCEPT !.named = named, !.token = token]
           w == [answer EXCEPT !.patch = RegistrationPatch(p, answer)]
<1>3. Moves(p, "save", w)
  BY <1>1, <1>2 DEF Moves, NoToken
<1> HIDE DEF old
<1>4. /\ IsWork(answer) /\ answer.named = named /\ answer.token = token
      /\ answer.run = old.run /\ answer.participant = old.participant
  <2>1. answer = PutAnswer(old, named, token) /\ IsWork(old)
    BY <1>1 DEF PutAnswer, old
  <2> HIDE DEF answer
  <2> QED
    BY <2>1, PutFields, WorkFacts
<1> DEFINE patch == RegistrationPatch(p, answer)
<1>5. patch = [participant |-> IF named THEN old.participant
                               ELSE Loaded(p).participant,
               token |-> token, enabled |-> TRUE]
  BY <1>4 DEF RegistrationPatch
<1>6. w = [answer EXCEPT !.patch = patch]
  OBVIOUS
<1> HIDE DEF patch, answer, w
<1>7. /\ w.patch = patch /\ w.run = old.run /\ w.named = named
      /\ w.participant = old.participant /\ w.token = token
      /\ IsWork(w)
  <2>1. w = PutPatch(answer, patch)
    BY <1>6 DEF PutPatch
  <2> QED
    BY <1>4, <2>1, PutField, WorkFacts
<1>8. fresh[p] => /\ old.run = Loaded(p).run
                  /\ old.participant = Loaded(p).participant
  BY <1>1 DEF Standing, RunInForce, ParticipantInForce, old
<1>9. patch.participant # Blanks /\ token \in Nat
  <2>1. old.participant # Blanks
    BY <1>1 DEF Standing, old
  <2>2. ~ named => Loaded(p).participant # Blanks
    BY <1>2, LoadedFacts, SoundFacts DEF Loads
  <2> QED
    BY <1>1, <1>5, <2>1, <2>2 DEF NoToken
<1>10. Registration(w, fresh[p]) /\ (fresh[p] => RunInForce(p, w))
  BY <1>5, <1>7, <1>8, <1>9 DEF Registration, RunInForce
<1>11. Standing(p, "save", w, fresh[p])
  BY <1>10 DEF Standing
<1> QED
  BY <1>3, <1>7, <1>11, MovesInv DEF Places

\* save_registration.
LEMMA SaveRegistrationInv ==
    ASSUME ApiInv, NEW p \in Processes, SaveRegistration(p)
    PROVE  ApiInv'
<1>1. /\ Merge(p, work[p]) /\ UNCHANGED <<file, issued, fresh>>
      /\ IsWork(work[p]) /\ Standing(p, "save", work[p], fresh[p])
  BY DEF SaveRegistration, ApiInv, Typed
<1>2. /\ Registration(work[p], fresh[p])
      /\ fresh[p] => RunInForce(p, work[p])
  BY <1>1 DEF Standing
<1>3. NamesKnownBot(work[p].patch)
  <2>1. "bot" \notin DOMAIN [participant |-> work[p].patch.participant,
                             token |-> work[p].token, enabled |-> TRUE]
    OBVIOUS
  <2> QED
    BY <1>2, <2>1 DEF NamesKnownBot, Registration
<1> QED
  BY <1>1, <1>2, <1>3, MergeInv

\* Requests: the loads that make the path and the query.
LEMMA RequestInv ==
    ASSUME ApiInv, NEW p \in Processes,
           TestConnection(p) \/ TakePath(p) \/ TakeQuery(p) \/ TakeRun(p)
    PROVE  ApiInv'
<1> USE DEF Places
<1>1. /\ IsWork(work[p]) /\ issued \in Nat
      /\ Standing(p, pc[p], work[p], fresh[p])
  BY DEF ApiInv, Typed
<1>2. CASE TestConnection(p)
  <2>1. Moves(p, "path", Blank)
    BY <1>1, <1>2 DEF TestConnection, Moves
  <2>2. IsWork(Blank) /\ Standing(p, "path", Blank, fresh[p])
    BY BlankFacts DEF Standing
  <2> QED
    BY <2>1, <2>2, MovesInv
<1>3. CASE TakePath(p)
  <2> DEFINE w == [Blank EXCEPT !.run = Loaded(p).run,
                     !.participant = Loaded(p).participant]
  <2>1. Moves(p, "send", w)
    BY <1>1, <1>3 DEF TakePath, Moves
  <2>2. IsWork(w) /\ RunInForce(p, w) /\ ParticipantInForce(p, w)
    <3>1. w = PutPath(Blank, Loaded(p).run, Loaded(p).participant)
      BY DEF PutPath
    <3> HIDE DEF w
    <3> QED
      BY <3>1, BlankFacts, PutFields, WorkFacts
      DEF RunInForce, ParticipantInForce
  <2> HIDE DEF w
  <2>3. Standing(p, "send", w, fresh[p])
    BY <2>2 DEF Standing
  <2> QED
    BY <2>1, <2>2, <2>3, MovesInv
<1>4. CASE TakeQuery(p)
  <2> DEFINE w == [Blank EXCEPT !.participant = Loaded(p).participant]
  <2>1. Moves(p, "events", w)
    BY <1>1, <1>4 DEF TakeQuery, Moves
  <2>2. IsWork(w) /\ ParticipantInForce(p, w)
    <3>1. w = PutParticipant(Blank, Loaded(p).participant)
      BY DEF PutParticipant
    <3> HIDE DEF w
    <3> QED
      BY <3>1, BlankFacts, PutField, WorkFacts DEF ParticipantInForce
  <2> HIDE DEF w
  <2>3. Standing(p, "events", w, fresh[p])
    BY <2>2 DEF Standing
  <2> QED
    BY <2>1, <2>2, <2>3, MovesInv
<1>5. CASE TakeRun(p)
  <2> DEFINE w == [work[p] EXCEPT !.run = Loaded(p).run]
  <2>1. Moves(p, "send", w)
    BY <1>1, <1>5 DEF TakeRun, Moves
  <2>2. /\ IsWork(w) /\ RunInForce(p, w)
        /\ w.participant = work[p].participant
    <3>1. w = PutRun(work[p], Loaded(p).run)
      BY DEF PutRun
    <3> HIDE DEF w
    <3> QED
      BY <1>1, <3>1, PutField, WorkFacts DEF RunInForce
  <2> HIDE DEF w
  <2>3. fresh[p] => ParticipantInForce(p, w)
    BY <1>1, <1>5, <2>2 DEF TakeRun, Standing, ParticipantInForce
  <2>4. Standing(p, "send", w, fresh[p])
    BY <2>2, <2>3 DEF Standing
  <2> QED
    BY <2>1, <2>2, <2>4, MovesInv
<1> QED
  BY <1>2, <1>3, <1>4, <1>5

\* The request leaves.
LEMMA SendInv ==
    ASSUME ApiInv, NEW p \in Processes, Send(p)
    PROVE  ApiInv'
<1> DEFINE w == [work[p] EXCEPT !.token = TokenOf(p)]
<1>1. Moves(p, "sent", w) /\ IsWork(work[p])
  BY DEF Send, Moves, ApiInv, Typed
<1>2. IsWork(w)
  <2>1. w = PutToken(work[p], TokenOf(p))
    BY DEF PutToken
  <2> HIDE DEF w
  <2> QED
    BY <1>1, <2>1, PutField, WorkFacts
<1> HIDE DEF w
<1>3. Standing(p, "sent", w, fresh[p])
  BY DEF Standing
<1> QED
  BY <1>1, <1>2, <1>3, MovesInv DEF Places

-----------------------------------------------------------------------------
(* Theorems *)

\* ApiInv is an invariant.
LEMMA ApiInvHolds == Spec => []ApiInv
<1>1. Init => ApiInv
  <2>1. SUFFICES ASSUME Init PROVE ApiInv
    OBVIOUS
  <2>2. Sound(Base)
    BY BaseAssumption DEF Sound, Bots
  <2>3. Typed
    BY <2>1, BlankFacts DEF Init, Typed, Places, NoToken
  <2>4. \A p \in Processes : Standing(p, pc[p], work[p], fresh[p])
    BY <2>1 DEF Init, Standing
  <2> QED
    BY <2>1, <2>2, <2>3, <2>4 DEF Init, ApiInv
<1>2. ASSUME ApiInv, [Next]_vars PROVE ApiInv'
  <2>1. CASE UNCHANGED vars
    <3>1. /\ file' = file /\ pc' = pc /\ work' = work /\ fresh' = fresh
          /\ issued' = issued
      BY <2>1 DEF vars
    <3>2. \A p \in Processes : Standing(p, pc[p], work[p], fresh[p])'
      <4>1. ASSUME NEW p \in Processes
            PROVE  Standing(p, pc[p], work[p], fresh[p])'
        <5>1. PICK at, x, f : at = pc[p] /\ x = work[p] /\ f = fresh[p]
          OBVIOUS
        <5>2. Standing(p, at, x, f)
          BY <1>2, <5>1 DEF ApiInv
        <5>3. Standing(p, at, x, f)'
          BY <3>1, <5>2, StandingStays
        <5> QED
          BY <3>1, <5>1, <5>3
      <4> QED
        BY <4>1
    <3> QED
      BY <1>2, <3>1, <3>2 DEF ApiInv, Typed, Sound, IsWork
  <2>2. ASSUME NEW p \in Processes, Fail(p) \/ Finish(p) PROVE ApiInv'
    BY <1>2, <2>2, IdleInv DEF Fail, Finish
  <2> QED
    BY <1>2, <2>1, <2>2, ConfigureInv, WriteInv, ReplaceInv, RegisterInv,
       AnswerInv, SaveRegistrationInv, RequestInv, SendInv DEF Next
<1> QED
  BY <1>1, <1>2, PTL DEF Spec

(* FileLoads: however saves of several processes overlap, fail and are     *)
(* interrupted, the settings file can be loaded by every process whose     *)
(* variables for the bot of the file are legal.                            *)
THEOREM NobodyLockedOut == Spec => []FileLoads
<1>1. ApiInv => FileLoads
  BY LoadedFacts, OnDiskFacts DEF FileLoads, Loads
<1> QED
  BY <1>1, ApiInvHolds, PTL

\* The file changes by a replacement only, to what the process merged.
LEMMA OnlyReplaced ==
    ASSUME ApiInv, Next, file' # file
    PROVE  \E p \in Processes : Replace(p)
BY DEF Next, Configure, Write, Fail, Register, Answer, SaveRegistration,
       TestConnection, TakePath, TakeQuery, TakeRun, Send, Finish

(* OnlyOverlapLoses: a setting on disk changes only by a save that names   *)
(* it, by the environment of the saving process, or by an overlapping      *)
(* save; an empty token names none.                                        *)
THEOREM SettingsStay == Spec => OnlyOverlapLoses
<1> DEFINE Reason(s) ==
             \E p \in Processes :
                /\ Replaces(p)
                /\ \/ s \in DOMAIN work[p].patch
                      /\ (s = "token" => work[p].patch["token"] # NoToken)
                   \/ s \in DOMAIN Overrides(p)
                   \/ ~ fresh[p]
           Kept == \A s \in Settings :
                      file' # file /\ file'[s] # OnDisk[s] => Reason(s)
<1>1. ASSUME ApiInv, Next PROVE Kept
  <2>1. SUFFICES ASSUME NEW s \in Settings, file' # file,
                        file'[s] # OnDisk[s]
                 PROVE  Reason(s)
    OBVIOUS
  <2>2. PICK p \in Processes : Replace(p)
    BY <1>1, <2>1, OnlyReplaced
  <2>3. /\ Replaces(p) /\ file' = work[p].config
        /\ Standing(p, "replace", work[p], fresh[p])
    BY <1>1, <2>2 DEF Replace, Replaces, ApiInv
  <2>4. fresh[p] => \/ s \in Named(work[p].patch)
                    \/ s \in DOMAIN Overrides(p)
    BY <2>1, <2>3 DEF Standing, Explained
  <2>5. s \in Named(work[p].patch) =>
           /\ s \in DOMAIN work[p].patch
           /\ s = "token" => work[p].patch["token"] # NoToken
    BY DEF Named
  <2> QED
    BY <2>3, <2>4, <2>5
<1>2. UNCHANGED vars => Kept
  BY DEF vars
<1>3. ASSUME ApiInv, [Next]_vars PROVE [Kept]_vars
  BY <1>1, <1>2, <1>3
<1> QED
  BY <1>3, ApiInvHolds, PTL DEF Spec, OnlyOverlapLoses

(* RegistrationLands: a token that Archive issued reaches the file with    *)
(* the participant it was issued to, and beside its run unless another     *)
(* save intervened.                                                        *)
THEOREM RegistrationsLand == Spec => RegistrationLands
<1> DEFINE Landed ==
             \A p \in Processes :
                LET got == work[p] IN
                Replaces(p) /\ got.token # NoToken =>
                   /\ file'.token = got.token /\ file'.enabled
                   /\ got.named \/ fresh[p] =>
                         file'.participant = got.participant
                   /\ fresh[p] => file'.run = got.run
<1>1. ASSUME ApiInv PROVE Landed
  <2>1. SUFFICES ASSUME NEW p \in Processes, Replaces(p),
                        work[p].token # NoToken
                 PROVE  /\ file'.token = work[p].token /\ file'.enabled
                        /\ work[p].named \/ fresh[p] =>
                              file'.participant = work[p].participant
                        /\ fresh[p] => file'.run = work[p].run
    OBVIOUS
  <2>2. Lands(work[p], fresh[p]) /\ file' = work[p].config
    BY <1>1, <2>1 DEF ApiInv, Standing, Replaces
  <2> QED
    BY <2>1, <2>2 DEF Lands
<1>2. ASSUME ApiInv PROVE [Landed]_vars
  BY <1>1, <1>2
<1> QED
  BY <1>2, ApiInvHolds, PTL DEF Spec, RegistrationLands

(* RequestsFollowTheFile: a request during which nobody else saved leaves  *)
(* with the run, the participant and the token in force.                   *)
THEOREM RequestsAreCurrent == Spec => RequestsFollowTheFile
<1> DEFINE Follows ==
             \A p \in Processes :
                pc[p] = "send" /\ pc'[p] = "sent" /\ fresh[p] =>
                   /\ work'[p].run = Loaded(p).run
                   /\ work'[p].participant = Loaded(p).participant
                   /\ work'[p].token = Loaded(p).token
<1>1. ASSUME ApiInv, Next PROVE Follows
  <2>1. SUFFICES ASSUME NEW p \in Processes, pc[p] = "send",
                        pc'[p] = "sent", fresh[p]
                 PROVE  /\ work'[p].run = Loaded(p).run
                        /\ work'[p].participant = Loaded(p).participant
                        /\ work'[p].token = Loaded(p).token
    OBVIOUS
  <2>2. Send(p)
    <3>1. pc \in [Processes -> Places]
      BY <1>1 DEF ApiInv, Typed
    <3>2. ASSUME NEW q \in Processes, NEW place \in Places \ {"sent"}, NEW w,
                 Go(q, place, w)
          PROVE  FALSE
      BY <2>1, <3>1, <3>2 DEF Go
    <3>3. ASSUME NEW q \in Processes, Send(q) PROVE q = p
      BY <2>1, <3>1, <3>3 DEF Send, Go
    <3>4. PICK q \in Processes :
             \/ Send(q)
             \/ \E place \in Places \ {"sent"} : \E w : Go(q, place, w)
      <4>1. {"idle", "write", "replace", "posted", "save", "path", "events",
             "send"} \subseteq Places \ {"sent"}
        BY DEF Places
      <4> QED
        BY <1>1, <4>1
        DEF Next, Configure, Merge, Write, Replace, Fail, Stop, Register,
            Answer, SaveRegistration, TestConnection, TakePath, TakeQuery,
            TakeRun, Finish
    <3> QED
      BY <3>2, <3>3, <3>4
  <2>3. /\ work = [q \in Processes |-> work[q]] /\ IsWork(work[p])
        /\ Standing(p, "send", work[p], fresh[p])
    BY <1>1, <2>1 DEF ApiInv, Typed
  <2>4. work'[p] = [work[p] EXCEPT !.token = Loaded(p).token]
    BY <2>2, <2>3 DEF Send, Go, TokenOf
  <2>5. /\ work'[p].run = work[p].run
        /\ work'[p].participant = work[p].participant
        /\ work'[p].token = Loaded(p).token
    <3>1. work'[p] = PutToken(work[p], Loaded(p).token)
      BY <2>4 DEF PutToken
    <3> QED
      BY <2>3, <3>1, PutField, WorkFacts
  <2> QED
    BY <2>1, <2>3, <2>5 DEF Standing, RunInForce, ParticipantInForce
<1>2. UNCHANGED vars => Follows
  BY DEF vars
<1>3. ASSUME ApiInv, [Next]_vars PROVE [Follows]_vars
  BY <1>1, <1>2, <1>3
<1> QED
  BY <1>3, ApiInvHolds, PTL DEF Spec, RequestsFollowTheFile

=============================================================================
