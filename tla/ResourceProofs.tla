----------------------------- MODULE ResourceProofs -----------------------------
(***************************************************************************)
(* Theorems about the two resources that all apps share without a lock of  *)
(* their own: the sessions with the database (ExasolSessions) and the      *)
(* dependency environments (Environments, here Env).  They hold for every  *)
(* value of the constants: any number of threads, rewrites, sessions and   *)
(* environments, and deaths of the process at any step.  Neither component *)
(* knows of the other; they share this module and no state.                *)
(***************************************************************************)
EXTENDS ExasolSessions, EnvironmentState, FiniteSets, FiniteSetTheorems, TLAPS

Env == INSTANCE Environments

-----------------------------------------------------------------------------
(* Files: their types, and that secrets are numbered as they are written.  *)
(* Without the count of the writers that still have one to store, the      *)
(* numbers would leave their type.                                         *)

FileTypes ==
    /\ profile \in Profile \cup {None, Torn}
    /\ secret \in Versions \cup {None, Torn}
    /\ secrets \in Versions
    /\ writer \in [Writers -> Writer]
    /\ rewrites \in 0..MaxRewrites

Storing == {w \in Writers : writer[w].pc \in {"secret", "fill secret"}}
SecretsAreCounted == IsFiniteSet(Storing) /\ secrets + Cardinality(Storing) <= rewrites

SecretsGrow ==
    /\ secret \in Versions => secret = secrets
    /\ profile \in Profile => profile.since <= secrets
    /\ \A w \in Writers : writer[w].since <= secrets /\ (writer[w].pc # "none" => writer[w].settings \in Settings)

FileInv == FileTypes /\ SecretsAreCounted /\ SecretsGrow

\* What the record of a writer becomes, field by field.
LEMMA WriterMoves ==
    ASSUME NEW r \in Writer, NEW pc \in WriterSteps
    PROVE  /\ [r EXCEPT !.pc = pc] \in Writer
           /\ [r EXCEPT !.pc = pc] = [pc |-> pc, settings |-> r.settings, since |-> r.since, crossed |-> r.crossed]
  BY DEF Writer

LEMMA WriterUncrossed ==
    ASSUME NEW r \in Writer, NEW b \in BOOLEAN
    PROVE  /\ [r EXCEPT !.crossed = b] \in Writer
           /\ [r EXCEPT !.crossed = b] = [pc |-> r.pc, settings |-> r.settings, since |-> r.since, crossed |-> b]
  BY DEF Writer

LEMMA WriterSince ==
    ASSUME NEW r \in Writer, NEW n
    PROVE  [r EXCEPT !.since = n] = [pc |-> r.pc, settings |-> r.settings, since |-> n, crossed |-> r.crossed]
  BY DEF Writer

LEMMA Fields ==
    ASSUME NEW pc, NEW settings, NEW n, NEW crossed
    PROVE  LET r == [pc |-> pc, settings |-> settings, since |-> n, crossed |-> crossed] IN
           r.pc = pc /\ r.settings = settings /\ r.since = n /\ r.crossed = crossed
  OBVIOUS

LEMMA WriterRecord ==
    ASSUME NEW pc \in WriterSteps, NEW settings \in Settings \cup {None}, NEW n \in Versions
    PROVE  [pc |-> pc, settings |-> settings, since |-> n, crossed |-> FALSE] \in Writer
  BY DEF Writer

LEMMA NoWriterIs == NoWriter \in Writer /\ NoWriter.since = 0 /\ NoWriter.pc = "none"
  BY ExasolAssumption DEF NoWriter, Writer, WriterSteps, Versions

LEMMA FileInit == Init => FileInv
<1> SUFFICES ASSUME Init PROVE FileInv
  OBVIOUS
<1>1. Storing = {}
  BY DEF Init, Storing, NoWriter
<1>2. IsFiniteSet(Storing) /\ Cardinality(Storing) = 0
  BY <1>1, FS_EmptySet
<1> QED BY <1>2, ExasolAssumption DEF Init, FileInv, FileTypes, SecretsAreCounted, SecretsGrow, Writer, NoWriter, WriterSteps, Versions

\* The secrets stored and those still to be stored are no more than the rewrites begun.
LEMMA CountKeeps ==
    ASSUME FileInv, NEW n \in Nat, NEW m \in Nat, secrets' = n, rewrites' = m, n + rewrites <= m + secrets, Storing' \subseteq Storing
    PROVE  SecretsAreCounted'
<1>1. IsFiniteSet(Storing') /\ Cardinality(Storing') <= Cardinality(Storing)
  BY FS_Subset DEF FileInv, SecretsAreCounted
<1>2. Cardinality(Storing) \in Nat /\ Cardinality(Storing') \in Nat
  BY <1>1, FS_CardinalityType DEF FileInv, SecretsAreCounted
<1>3. secrets \in Nat /\ rewrites \in Nat /\ secrets + Cardinality(Storing) <= rewrites
  BY ExasolAssumption DEF FileInv, SecretsAreCounted, FileTypes, Versions
<1>4. n + Cardinality(Storing') <= m
  BY <1>1, <1>2, <1>3
<1> QED BY <1>1, <1>4 DEF SecretsAreCounted

LEMMA CountSame ==
    ASSUME FileInv, secrets' = secrets, rewrites' = rewrites, Storing' \subseteq Storing
    PROVE  SecretsAreCounted'
<1>1. PICK n \in Nat, m \in Nat : n = secrets /\ m = rewrites
  BY ExasolAssumption DEF FileInv, FileTypes, Versions
<1>2. n + rewrites <= m + secrets
  BY <1>1
<1> QED BY <1>1, <1>2, CountKeeps

LEMMA CountAdds ==
    ASSUME FileInv, secrets' = secrets, rewrites' = rewrites + 1, NEW w \in Writers, Storing' \subseteq Storing \cup {w}
    PROVE  SecretsAreCounted'
<1>1. /\ IsFiniteSet(Storing \cup {w})
      /\ Cardinality(Storing \cup {w}) = Cardinality(Storing) \/ Cardinality(Storing \cup {w}) = Cardinality(Storing) + 1
  BY FS_AddElement DEF FileInv, SecretsAreCounted
<1>2. IsFiniteSet(Storing') /\ Cardinality(Storing') <= Cardinality(Storing \cup {w})
  BY <1>1, FS_Subset
<1>3. Cardinality(Storing) \in Nat /\ Cardinality(Storing') \in Nat
  BY <1>2, FS_CardinalityType DEF FileInv, SecretsAreCounted
<1> QED BY <1>1, <1>2, <1>3, ExasolAssumption DEF FileInv, SecretsAreCounted, FileTypes, Versions

LEMMA CountMoves ==
    ASSUME FileInv, NEW w \in Storing, secrets' = secrets + 1, rewrites' = rewrites, Storing' \subseteq Storing \ {w}
    PROVE  SecretsAreCounted' /\ secrets + 1 \in Versions
<1>1. /\ IsFiniteSet(Storing \ {w})
      /\ Cardinality(Storing \ {w}) = Cardinality(Storing) - 1
  BY FS_RemoveElement DEF FileInv, SecretsAreCounted
<1>2. IsFiniteSet(Storing') /\ Cardinality(Storing') <= Cardinality(Storing \ {w})
  BY <1>1, FS_Subset
<1>3. Cardinality(Storing) \in Nat /\ Cardinality(Storing') \in Nat
  BY <1>2, FS_CardinalityType DEF FileInv, SecretsAreCounted
<1> QED BY <1>1, <1>2, <1>3, ExasolAssumption DEF FileInv, SecretsAreCounted, FileTypes, Versions

\* After a step of a writer, every other one is where it was.
LEMMA PassedIs ==
    ASSUME FileInv, NEW w \in Writers, NEW pc \in WriterSteps, NEW filled
    PROVE  /\ Passed(w, pc, filled) \in [Writers -> Writer]
           /\ \A x \in Writers \ {w} : /\ Passed(w, pc, filled)[x].pc = writer[x].pc
                                       /\ Passed(w, pc, filled)[x].settings = writer[x].settings
                                       /\ Passed(w, pc, filled)[x].since = writer[x].since
           /\ Passed(w, pc, filled)[w] = [pc |-> pc, settings |-> writer[w].settings, since |-> writer[w].since, crossed |-> FALSE]
<1> DEFINE after(x) == [writer[x] EXCEPT !.crossed = @ \/ writer[x].pc = filled]
           mine == [writer[w] EXCEPT !.pc = pc, !.crossed = FALSE]
<1>1. \A x \in Writers : writer[x] \in Writer
  BY DEF FileInv, FileTypes
<1>2. \A x \in Writers : /\ after(x) \in Writer /\ after(x).pc = writer[x].pc
                         /\ after(x).settings = writer[x].settings /\ after(x).since = writer[x].since
  BY <1>1 DEF Writer
<1>3. PICK gone : gone = [writer[w] EXCEPT !.pc = pc]
  OBVIOUS
<1>4. gone \in Writer /\ gone = [pc |-> pc, settings |-> writer[w].settings, since |-> writer[w].since, crossed |-> writer[w].crossed]
  BY <1>1, <1>3, WriterMoves
<1>5. gone.pc = pc /\ gone.settings = writer[w].settings /\ gone.since = writer[w].since
  BY <1>4
<1>6. mine = [gone EXCEPT !.crossed = FALSE]
  BY <1>3
<1>7. mine \in Writer /\ mine = [pc |-> pc, settings |-> writer[w].settings, since |-> writer[w].since, crossed |-> FALSE]
  BY <1>4, <1>5, <1>6, WriterUncrossed
<1>8. Passed(w, pc, filled) = [x \in Writers |-> IF x = w THEN mine ELSE after(x)]
  BY DEF Passed
<1> HIDE DEF after, mine
<1> QED BY <1>2, <1>7, <1>8

\* A writer goes on as r, and the others stay where they are, with what they are to write.
GoesOn(w, r, after) ==
    /\ after \in [Writers -> Writer] /\ after[w] = r
    /\ \A x \in Writers \ {w} :
           after[x].pc = writer[x].pc /\ after[x].settings = writer[x].settings /\ after[x].since = writer[x].since

LEMMA Numbers == FileInv => secrets \in Nat /\ rewrites \in Nat /\ secrets <= secrets /\ 0 <= secrets /\ writer \in [Writers -> Writer]
  BY ExasolAssumption DEF FileInv, FileTypes, Versions

LEMMA WriterIs ==
    ASSUME FileInv, NEW w \in Writers
    PROVE  writer[w] \in Writer /\ writer[w].since <= secrets /\ (writer[w].pc # "none" => writer[w].settings \in Settings)
  BY DEF FileInv, FileTypes, SecretsGrow

LEMMA OneGoesOn ==
    ASSUME FileInv, NEW w \in Writers, NEW r \in Writer
    PROVE  GoesOn(w, r, [writer EXCEPT ![w] = r])
  BY Numbers DEF GoesOn

LEMMA PassedGoesOn ==
    ASSUME FileInv, NEW w \in Writers, NEW pc \in WriterSteps, NEW filled
    PROVE  GoesOn(w, [pc |-> pc, settings |-> writer[w].settings, since |-> writer[w].since, crossed |-> FALSE], Passed(w, pc, filled))
  BY PassedIs DEF GoesOn

LEMMA WriterKeeps ==
    ASSUME FileInv, NEW w \in Writers, NEW r \in Writer, NEW after, writer' = after, GoesOn(w, r, after),
           NEW n \in Nat, secrets <= n, r.since <= n, r.pc # "none" => r.settings \in Settings
    PROVE  /\ \A x \in Writers : after[x].since <= n /\ (after[x].pc # "none" => after[x].settings \in Settings)
           /\ r.pc \in {"secret", "fill secret"} => Storing' \subseteq Storing \cup {w}
           /\ r.pc \notin {"secret", "fill secret"} => Storing' \subseteq Storing \ {w}
<1>1. \A x \in Writers : writer[x].since <= secrets /\ writer[x].since \in Nat
  BY WriterIs DEF Writer, Versions
<1>2. \A x \in Writers \ {w} : after[x].since <= n
  BY <1>1, Numbers DEF GoesOn
<1>3. \A x \in Writers \ {w} : after[x].pc # "none" => after[x].settings \in Settings
  BY WriterIs DEF GoesOn
<1>4. Storing' = {x \in Writers : after[x].pc \in {"secret", "fill secret"}}
  BY DEF Storing
<1>5. \A x \in Writers \ {w} : x \in Storing' => x \in Storing
  BY <1>4 DEF GoesOn, Storing
<1>6. w \in Storing' => r.pc \in {"secret", "fill secret"}
  BY <1>4 DEF GoesOn
<1>7. Storing' \subseteq Writers
  BY <1>4
<1> QED BY <1>2, <1>3, <1>5, <1>6, <1>7 DEF GoesOn

\* The step of a writer that stores no secret.
LEMMA FilesKeep ==
    ASSUME FileInv, NEW w \in Writers, NEW r \in Writer, NEW after, writer' = after, GoesOn(w, r, after),
           secrets' = secrets, rewrites' = rewrites,
           r.since <= secrets, r.pc # "none" => r.settings \in Settings, r.pc = "fill secret" => w \in Storing, r.pc # "secret",
           NEW p \in Profile \cup {None, Torn}, profile' = p, p \in Profile => p.since <= secrets,
           secret' \in {secret, Torn}
    PROVE  FileInv' /\ secrets' = secrets
<1>1. PICK n \in Nat, m \in Nat : n = secrets /\ m = rewrites
  BY Numbers
<1>2. \A x \in Writers : after[x].since <= n /\ (after[x].pc # "none" => after[x].settings \in Settings)
  BY <1>1, Numbers, WriterKeeps
<1>3. r.pc = "fill secret" => Storing' \subseteq Storing \cup {w}
  BY <1>1, Numbers, WriterKeeps
<1>4. r.pc # "fill secret" => Storing' \subseteq Storing \ {w}
  BY <1>1, Numbers, WriterKeeps
<1>5. Storing' \subseteq Storing
  BY <1>3, <1>4
<1>6. SecretsAreCounted'
  BY <1>5, CountSame
<1>7. Torn \notin Versions
  BY ExasolAssumption DEF FileInv
<1>8. SecretsGrow'
  BY <1>1, <1>2, <1>7 DEF SecretsGrow, FileInv
<1> QED BY <1>6, <1>7, <1>8 DEF FileInv, FileTypes, GoesOn

LEMMA FileUnchanged == FileInv /\ UNCHANGED fileVars => FileInv' /\ secrets' = secrets
  BY DEF fileVars, FileInv, FileTypes, SecretsAreCounted, Storing, SecretsGrow

LEMMA BeginRewriteKeeps ==
    ASSUME FileInv, NEW w \in Writers, NEW settings \in Settings, NEW fresh \in BOOLEAN, BeginRewrite(w, settings, fresh)
    PROVE  FileInv' /\ secrets' = secrets
<1>1. PICK r : r = [pc |-> IF fresh THEN "secret" ELSE "profile", settings |-> settings,
                    since |-> IF profile = None THEN 0 ELSE profile.since, crossed |-> FALSE]
  OBVIOUS
<1>2. profile # None => profile \in Profile /\ profile.since \in Versions /\ profile.since <= secrets
  BY DEF BeginRewrite, Readable, Profile, FileInv, SecretsGrow
<1>3. 0 \in Versions
  BY ExasolAssumption DEF FileInv, Versions
<1>4. r \in Writer /\ r.since <= secrets /\ r.settings \in Settings
  BY <1>1, <1>2, <1>3, Numbers DEF Writer, WriterSteps
<1>5. PICK after : after = [writer EXCEPT ![w] = r] /\ GoesOn(w, r, after)
  BY <1>4, OneGoesOn
<1>6. writer' = after /\ secrets' = secrets /\ rewrites' = rewrites + 1 /\ rewrites < MaxRewrites
  BY <1>1, <1>5 DEF BeginRewrite
<1>7. profile' = profile /\ secret' = secret
  BY DEF BeginRewrite
<1>8. PICK n \in Nat : n = secrets
  BY Numbers
<1>9. \A x \in Writers : after[x].since <= n /\ (after[x].pc # "none" => after[x].settings \in Settings)
  BY <1>4, <1>5, <1>6, <1>8, Numbers, WriterKeeps
<1>10. Storing' \subseteq Storing \cup {w}
  BY <1>4, <1>5, <1>6, <1>8, Numbers, WriterKeeps
<1>11. SecretsAreCounted'
  BY <1>6, <1>10, CountAdds
<1>12. rewrites' \in 0..MaxRewrites
  BY <1>6, Numbers, ExasolAssumption DEF FileInv
<1>13. SecretsGrow'
  BY <1>6, <1>7, <1>8, <1>9 DEF SecretsGrow, FileInv
<1> QED BY <1>5, <1>6, <1>7, <1>11, <1>12, <1>13 DEF FileInv, FileTypes, GoesOn

LEMMA TruncateSecretKeeps ==
    ASSUME FileInv, NEW w \in Writers, TruncateSecret(w)
    PROVE  FileInv' /\ secrets' = secrets
<1>1. PICK r, after : /\ r = [pc |-> "fill secret", settings |-> writer[w].settings, since |-> writer[w].since, crossed |-> FALSE]
                      /\ after = Passed(w, "fill secret", "nothing")
  OBVIOUS
<1>2. GoesOn(w, r, after)
  BY <1>1, PassedGoesOn DEF WriterSteps
<1>3. writer[w].pc = "secret" /\ writer[w].settings \in Settings /\ w \in Storing
  BY WriterIs DEF TruncateSecret, Storing
<1>4. r \in Writer /\ r.since <= secrets /\ r.settings \in Settings /\ r.pc = "fill secret"
  BY <1>1, <1>3, WriterIs DEF Writer, WriterSteps
<1>5. /\ writer' = after /\ secrets' = secrets /\ rewrites' = rewrites /\ profile' = profile /\ secret' = Torn
  BY <1>1 DEF TruncateSecret
<1>6. profile \in Profile \cup {None, Torn} /\ (profile \in Profile => profile.since <= secrets)
  BY DEF FileInv, FileTypes, SecretsGrow
<1>7. PICK p \in Profile \cup {None, Torn} : p = profile
  BY <1>6
<1> QED BY <1>2, <1>3, <1>4, <1>5, <1>6, <1>7, FilesKeep

LEMMA FillSecretKeeps ==
    ASSUME FileInv, NEW w \in Writers, FillSecret(w)
    PROVE  FileInv' /\ secrets <= secrets'
<1>1. PICK r, p : /\ r = [pc |-> "profile", settings |-> writer[w].settings, since |-> secrets + 1, crossed |-> FALSE]
                  /\ p = Passed(w, "profile", "fill secret")
  OBVIOUS
<1>2. GoesOn(w, [pc |-> "profile", settings |-> writer[w].settings, since |-> writer[w].since, crossed |-> FALSE], p)
  BY <1>1, PassedGoesOn DEF WriterSteps
<1>3. writer[w].pc = "fill secret" /\ writer[w].settings \in Settings /\ w \in Storing
  BY WriterIs DEF FillSecret, Storing
<1>4. PICK after : after = [p EXCEPT ![w].since = secrets + 1]
  OBVIOUS
<1>5. p[w] = [pc |-> "profile", settings |-> writer[w].settings, since |-> writer[w].since, crossed |-> FALSE]
  BY <1>2 DEF GoesOn
<1>6. [p[w] EXCEPT !.since = secrets + 1] = r
  <2>1. p[w] \in Writer
    BY <1>2 DEF GoesOn
  <2>2. [p[w] EXCEPT !.since = secrets + 1] = [pc |-> p[w].pc, settings |-> p[w].settings, since |-> secrets + 1, crossed |-> p[w].crossed]
    BY <2>1, WriterSince
  <2>3. p[w].pc = "profile" /\ p[w].settings = writer[w].settings /\ p[w].crossed = FALSE
    BY <1>5, Fields
  <2> QED BY <1>1, <2>2, <2>3
<1>7. after = [p EXCEPT ![w] = r]
  BY <1>4, <1>6
<1>8. p \in [Writers -> Writer]
  BY <1>2 DEF GoesOn
<1>9. after[w] = r /\ \A x \in Writers \ {w} : after[x] = p[x]
  BY <1>7, <1>8
<1>10. PICK n \in Nat, m \in Nat : n = secrets + 1 /\ m = rewrites
  BY Numbers
<1>11. writer' = after /\ secrets' = n /\ rewrites' = m /\ profile' = profile
  BY <1>1, <1>4, <1>10 DEF FillSecret
<1>12. secret' \in {n, Torn}
  BY <1>10 DEF FillSecret, Filled
<1>13. \A x \in Writers \ {w} : after[x].pc = writer[x].pc /\ after[x].settings = writer[x].settings /\ after[x].since = writer[x].since
  BY <1>2, <1>9 DEF GoesOn
<1>14. Storing' \subseteq Storing \ {w}
  <2>1. Storing' = {x \in Writers : after[x].pc \in {"secret", "fill secret"}}
    BY <1>11 DEF Storing
  <2>2. w \notin Storing'
    <3>1. r.pc = "profile"
      BY <1>1
    <3> QED BY <1>9, <2>1, <3>1
  <2> QED BY <1>13, <2>1, <2>2 DEF Storing
<1>15. SecretsAreCounted' /\ n \in Versions
  BY <1>3, <1>10, <1>11, <1>14, CountMoves
<1>16. r \in Writer /\ r.since <= n /\ r.settings \in Settings
  <2>1. r = [pc |-> "profile", settings |-> writer[w].settings, since |-> n, crossed |-> FALSE]
    BY <1>1, <1>10
  <2>2. r \in Writer
    BY <1>3, <1>15, <2>1, WriterRecord DEF WriterSteps
  <2>3. r.since = n /\ r.settings = writer[w].settings
    BY <2>1, Fields, Zenon
  <2>4. n <= n
    BY <1>10
  <2> QED BY <1>3, <2>2, <2>3, <2>4, Zenon
<1>17. after \in [Writers -> Writer]
  BY <1>7, <1>8, <1>16
<1>18. GoesOn(w, r, after)
  BY <1>9, <1>13, <1>17 DEF GoesOn
<1>19. secrets <= n
  BY <1>10, Numbers
<1>20. \A x \in Writers : after[x].since <= n /\ (after[x].pc # "none" => after[x].settings \in Settings)
  BY <1>11, <1>16, <1>18, <1>19, WriterKeeps
<1>21. profile \in Profile => profile.since <= n
  <2>1. profile \in Profile => profile.since \in Nat /\ profile.since <= secrets
    BY DEF FileInv, SecretsGrow, Profile, Versions
  <2> QED BY <1>19, <2>1, Numbers
<1>22. Torn \notin Versions
  BY ExasolAssumption DEF FileInv
<1>23. secret' \in Versions \cup {None, Torn} /\ (secret' \in Versions => secret' = n)
  BY <1>12, <1>15, <1>22
<1>24. SecretsGrow'
  BY <1>11, <1>20, <1>21, <1>23 DEF SecretsGrow
<1>25. FileTypes'
  BY <1>10, <1>11, <1>15, <1>17, <1>23 DEF FileTypes, FileInv
<1> QED BY <1>11, <1>15, <1>19, <1>24, <1>25 DEF FileInv

\* What a writer leaves in the profile is of its type, and no newer than the secrets.
LEMMA ProfileKeeps ==
    ASSUME FileInv, NEW w \in Writers, writer[w].pc # "none"
    PROVE  /\ Written(w) \in Profile /\ Written(w).since <= secrets
           /\ Filled(w, Written(w)) \subseteq {Written(w), Torn}
           /\ Torn \notin Profile
  BY WriterIs, ExasolAssumption DEF Written, Writer, Profile, Filled, FileInv

\* A writer that has nothing to do with the secret any more.
LEMMA ProfileStepKeeps ==
    ASSUME FileInv, NEW w \in Writers, writer[w].pc \in {"profile", "fill profile"}, profile' \in {Written(w), Torn},
           NEW r, \/ r = NoWriter
                  \/ r = [pc |-> "fill profile", settings |-> writer[w].settings, since |-> writer[w].since, crossed |-> FALSE],
           NEW after, writer' = after, GoesOn(w, r, after),
           secret' = secret, secrets' = secrets, rewrites' = rewrites
    PROVE  FileInv' /\ secrets' = secrets
<1>1. writer[w] \in Writer /\ writer[w].since <= secrets /\ writer[w].settings \in Settings
  BY WriterIs
<1>2. ASSUME r = NoWriter
      PROVE  r \in Writer /\ r.since <= secrets /\ (r.pc # "none" => r.settings \in Settings) /\ r.pc \notin {"secret", "fill secret"}
  BY <1>2, NoWriterIs, Numbers, Zenon DEF FileInv
<1>5. ASSUME r = [pc |-> "fill profile", settings |-> writer[w].settings, since |-> writer[w].since, crossed |-> FALSE]
      PROVE  r \in Writer /\ r.since <= secrets /\ (r.pc # "none" => r.settings \in Settings) /\ r.pc \notin {"secret", "fill secret"}
  <2>1. writer[w].since \in Versions
    BY <1>1 DEF Writer
  <2>2. r \in Writer
    BY <1>1, <1>5, <2>1, WriterRecord DEF WriterSteps
  <2>3. r.since = writer[w].since /\ r.settings = writer[w].settings /\ r.pc = "fill profile"
    BY <1>5, Fields, Zenon
  <2> QED BY <1>1, <2>2, <2>3, Zenon
<1>6. r \in Writer /\ r.since <= secrets /\ (r.pc # "none" => r.settings \in Settings) /\ r.pc \notin {"secret", "fill secret"}
  BY <1>2, <1>5, Zenon
<1>3. PICK p \in {Written(w), Torn} : p = profile'
  OBVIOUS
<1>4. p \in Profile \cup {None, Torn} /\ (p \in Profile => p.since <= secrets)
  BY <1>3, ProfileKeeps
<1> QED BY <1>3, <1>4, <1>6, FilesKeep

LEMMA RewriteKeeps ==
    ASSUME FileInv, NEW w \in Writers, Rewrite(w)
    PROVE  FileInv' /\ secrets <= secrets' /\ UNCHANGED <<session, cache, idle, call, stray>>
<1>1. secrets <= secrets
  BY Numbers
<1>2. NoWriter \in Writer
  BY ExasolAssumption DEF NoWriter, Writer, WriterSteps, Versions, FileInv
<1>3. CASE TruncateSecret(w)
  BY <1>1, <1>3, TruncateSecretKeeps DEF Rewrite
<1>4. CASE FillSecret(w)
  BY <1>4, FillSecretKeeps DEF Rewrite
<1>5. CASE KeepProfile(w)
  <2>1. PICK after : after = [writer EXCEPT ![w] = NoWriter] /\ GoesOn(w, NoWriter, after)
    BY <1>2, OneGoesOn
  <2>2. FileInv' /\ secrets' = secrets
    BY <1>5, <2>1, ProfileStepKeeps DEF KeepProfile
  <2> QED BY <1>1, <2>2 DEF Rewrite
<1>6. CASE TruncateProfile(w)
  <2>1. PICK r, after : /\ r = [pc |-> "fill profile", settings |-> writer[w].settings, since |-> writer[w].since, crossed |-> FALSE]
                        /\ after = Passed(w, "fill profile", "nothing")
    OBVIOUS
  <2>2. GoesOn(w, r, after)
    BY <2>1, PassedGoesOn DEF WriterSteps
  <2>3. FileInv' /\ secrets' = secrets
    BY <1>6, <2>1, <2>2, ProfileStepKeeps DEF TruncateProfile
  <2> QED BY <1>1, <2>3 DEF Rewrite
<1>7. CASE FillProfile(w)
  <2>1. PICK p : p = Passed(w, "none", "fill profile")
    OBVIOUS
  <2>2. GoesOn(w, [pc |-> "none", settings |-> writer[w].settings, since |-> writer[w].since, crossed |-> FALSE], p)
    BY <2>1, PassedGoesOn DEF WriterSteps
  <2>3. PICK after : after = [p EXCEPT ![w] = NoWriter]
    OBVIOUS
  <2>4. GoesOn(w, NoWriter, after)
    BY <1>2, <2>2, <2>3 DEF GoesOn
  <2>5. writer' = after /\ writer[w].pc = "fill profile"
    BY <1>7, <2>1, <2>3 DEF FillProfile
  <2>6. profile' \in {Written(w), Torn}
    BY <1>7, <2>5, ProfileKeeps DEF FillProfile
  <2>7. FileInv' /\ secrets' = secrets
    BY <1>7, <2>4, <2>5, <2>6, ProfileStepKeeps DEF FillProfile
  <2> QED BY <1>1, <2>7 DEF Rewrite
<1> QED BY <1>3, <1>4, <1>5, <1>6, <1>7 DEF Rewrite

LEMMA CrashKeepsFiles ==
    ASSUME FileInv, Crash
    PROVE  FileInv' /\ secrets' = secrets
<1>1. Storing' = {}
  BY DEF Crash, Storing, NoWriter
<1>2. PICK n \in Nat, m \in Nat : n = secrets /\ m = rewrites /\ secrets' = n /\ rewrites' = m
  BY Numbers DEF Crash
<1>3. SecretsAreCounted'
  BY <1>1, <1>2, CountKeeps
<1>4. NoWriter \in Writer /\ NoWriter.since = 0 /\ NoWriter.pc = "none"
  BY ExasolAssumption DEF NoWriter, Writer, WriterSteps, Versions, FileInv
<1>5. writer' \in [Writers -> Writer] /\ \A x \in Writers : writer'[x].since = 0 /\ writer'[x].pc = "none"
  BY <1>4 DEF Crash
<1>6. SecretsGrow'
  BY <1>2, <1>5, Numbers DEF Crash, FileInv, SecretsGrow
<1> QED BY <1>3, <1>5, <1>6 DEF Crash, FileInv, FileTypes

-----------------------------------------------------------------------------
(* Sessions.  What a call and a session have to look like, stated of       *)
(* values, so that a step is judged by the values that it writes.          *)

CallGood(c, k, n) ==
    /\ k.pc # "none" => k.read \in Profile /\ k.read.since <= n
    /\ k.session # None <=> k.pc \in {"init", "execute", "discard"}
    /\ k.pc = "login" => k.read.since <= k.secret
    /\ c \in Threads => k.kind = "query" /\ (k.failed => k.fault \/ k.unknown)
    /\ c \notin Threads => k.pc \notin {"connect", "discard"} /\ (k.pc # "none" => k.kind # "query")

\* The session x that a call k holds is set up for it; when it is gone and the call has no
\* other attempt, that is on file.
HeldGood(c, k, x) ==
    /\ k.pc # "discard" => x.settings = k.read.settings /\ ~x.touched
    /\ k.pc = "execute" => x.ready
    /\ c \in Threads /\ k.attempt = 1 /\ x.state # "open" => k.fault

\* A thread that connects has nothing in its cache h, and has what it works with there later.
CacheGood(k, h) ==
    /\ k.pc \in {"resolve", "login", "init"} => h = None
    /\ k.pc \in {"execute", "discard"} => h = k.session
    /\ k.attempt = 1 /\ k.pc = "connect" => h = None

KeptGood(k, x) == k.pc # "discard" => x.ready /\ ~x.touched

Holds(c, k, h, s) == k.session = s \/ (c \in Threads /\ h = s)

SessionTypes ==
    /\ session \in [Sessions -> Session]
    /\ cache \in [Threads -> Sessions \cup {None}]
    /\ idle \subseteq Threads
    /\ call \in [Callers -> Call]
    /\ stray \subseteq Sessions

UseInv ==
    /\ \A c \in Callers : CallGood(c, call[c], secrets)
    /\ \A c \in Callers : call[c].session # None => HeldGood(c, call[c], session[call[c].session])
    /\ \A t \in Threads : CacheGood(call[t], cache[t])
    /\ \A t \in Threads : cache[t] # None => KeptGood(call[t], session[cache[t]])
    /\ \A s \in Sessions : ~session[s].outdated

HolderInv ==
    \A s \in Sessions :
        /\ \A c, d \in Callers : Holds(c, call[c], cache[c], s) /\ Holds(d, call[d], cache[d], s) => c = d
        /\ session[s].state # "closed" <=> (s \in stray \/ \E c \in Callers : Holds(c, call[c], cache[c], s))
        /\ s \in stray => \A c \in Callers : ~Holds(c, call[c], cache[c], s)

SessionInv == SessionTypes /\ UseInv /\ HolderInv
IInv == FileInv /\ SessionInv

LEMMA NoCallIs ==
    ASSUME NEW c \in Callers, NEW n \in Nat
    PROVE  NoCall \in Call /\ NoCall.pc = "none" /\ NoCall.session = None /\ CallGood(c, NoCall, n) /\ CacheGood(NoCall, None)
<1>1. NoCall \in Call
  BY ExasolAssumption DEF NoCall, Call, CallSteps, Kinds, Versions
<1> QED BY <1>1 DEF NoCall, CallGood, CacheGood

LEMMA ClosedIs == Closed \in Session /\ Closed.state = "closed" /\ Closed.outdated = FALSE
  BY DEF Closed, Session

LEMMA EmptyIsGood ==
    ASSUME FileInv, session' = [s \in Sessions |-> Closed], cache' = [t \in Threads |-> None], idle' = {},
           call' = [c \in Callers |-> NoCall], stray' = {}, FileInv'
    PROVE  SessionInv'
<1>1. secrets' \in Nat
  BY ExasolAssumption DEF FileInv, FileTypes, Versions
<1>2. PICK n \in Nat : n = secrets'
  BY <1>1
<1>3. None \notin Sessions
  BY ExasolAssumption DEF FileInv
<1>4. Threads \subseteq Callers
  BY DEF Callers
<1>5. \A c \in Callers : call'[c] = NoCall
  OBVIOUS
<1>6. \A c \in Callers : NoCall \in Call /\ NoCall.pc = "none" /\ NoCall.session = None /\ CallGood(c, NoCall, n) /\ CacheGood(NoCall, None)
  BY NoCallIs DEF FileInv
<1>7. \A s \in Sessions : session'[s] \in Session /\ session'[s].state = "closed" /\ ~session'[s].outdated
  BY ClosedIs
<1>8. SessionTypes'
  BY <1>6, ClosedIs DEF SessionTypes
<1>9. UseInv'
  BY <1>2, <1>4, <1>5, <1>6, <1>7 DEF UseInv
<1>10. \A c \in Callers, s \in Sessions : ~Holds(c, call'[c], cache'[c], s)
  BY <1>3, <1>5, <1>6 DEF Holds
<1>11. HolderInv'
  BY <1>7, <1>10 DEF HolderInv
<1> QED BY <1>8, <1>9, <1>11 DEF SessionInv

-----------------------------------------------------------------------------
(* The step of one caller: what it does to each session.                   *)

Had(c, s) == Holds(c, call[c], cache[c], s)

\* The session s becomes x while its caller goes from having it to having it or not.
Moves(c, s, x, has, left) ==
    /\ x = session[s] \/ Had(c, s) \/ session[s].state = "closed"
    /\ \/ /\ Had(c, s) <=> has
          /\ s \in left <=> s \in stray
          /\ x.state = "closed" <=> session[s].state = "closed"
       \/ /\ Had(c, s) /\ ~has
          /\ s \in left <=> s \in stray
          /\ x.state = "closed"
       \/ /\ has /\ session[s].state = "closed"
          /\ s \in left <=> s \in stray
          /\ x.state = "open"
       \/ Had(c, s) /\ ~has /\ s \in left /\ x.state # "closed"

LEMMA OneHolder ==
    ASSUME SessionInv, NEW s \in Sessions, NEW c \in Callers, Had(c, s)
    PROVE  /\ \A d \in Callers \ {c} : ~Had(d, s)
           /\ session[s].state # "closed"
           /\ s \notin stray
  BY DEF SessionInv, HolderInv, Had

LEMMA ClosedHasNone ==
    ASSUME SessionInv, NEW s \in Sessions, session[s].state = "closed"
    PROVE  s \notin stray /\ \A c \in Callers : ~Had(c, s)
  BY DEF SessionInv, HolderInv, Had

LEMMA MoveKeepsHolders ==
    ASSUME SessionInv, NEW c \in Callers, NEW s \in Sessions, NEW x, NEW has \in BOOLEAN, NEW left,
           Moves(c, s, x, has, left), session'[s] = x, stray' = left,
           Holds(c, call'[c], cache'[c], s) <=> has,
           \A d \in Callers \ {c} : Holds(d, call'[d], cache'[d], s) <=> Had(d, s)
    PROVE  /\ \A a, d \in Callers : Holds(a, call'[a], cache'[a], s) /\ Holds(d, call'[d], cache'[d], s) => a = d
           /\ session'[s].state # "closed" <=> (s \in stray' \/ \E d \in Callers : Holds(d, call'[d], cache'[d], s))
           /\ s \in stray' => \A d \in Callers : ~Holds(d, call'[d], cache'[d], s)
<1> DEFINE New(d) == Holds(d, call'[d], cache'[d], s)
<1>1. /\ \A a, d \in Callers : Had(a, s) /\ Had(d, s) => a = d
      /\ session[s].state # "closed" <=> (s \in stray \/ \E d \in Callers : Had(d, s))
      /\ s \in stray => \A d \in Callers : ~Had(d, s)
  BY DEF SessionInv, HolderInv, Had
<1>2. (New(c) <=> has) /\ \A d \in Callers \ {c} : New(d) <=> Had(d, s)
  OBVIOUS
<1>3. session'[s].state = x.state
  OBVIOUS
<1> HIDE DEF New
<1>4. /\ \A a, d \in Callers : New(a) /\ New(d) => a = d
      /\ x.state # "closed" <=> (s \in left \/ \E d \in Callers : New(d))
      /\ s \in left => \A d \in Callers : ~New(d)
  BY <1>1, <1>2 DEF Moves
<1> QED BY <1>3, <1>4 DEF New

LEMMA CallerKeeps ==
    ASSUME IInv, secrets' = secrets, NEW c \in Callers, NEW k \in Call, call' = [call EXCEPT ![c] = k],
           NEW sess \in [Sessions -> Session], session' = sess,
           NEW kept \in [Threads -> Sessions \cup {None}], cache' = kept, \A t \in Threads \ {c} : kept[t] = cache[t],
           idle' \subseteq Threads, NEW left \in SUBSET Sessions, stray' = left,
           CallGood(c, k, secrets),
           k.session # None => HeldGood(c, k, sess[k.session]),
           c \in Threads => CacheGood(k, kept[c]),
           c \in Threads /\ kept[c] # None => KeptGood(k, sess[kept[c]]),
           \A s \in Sessions : ~sess[s].outdated,
           \A s \in Sessions : Moves(c, s, sess[s], Holds(c, k, kept[c], s), left)
    PROVE  SessionInv'
<1>1. call'[c] = k /\ \A d \in Callers \ {c} : call'[d] = call[d]
  BY DEF IInv, SessionInv, SessionTypes
<1>2. SessionTypes'
  BY DEF IInv, SessionInv, SessionTypes
<1>3. Threads \subseteq Callers
  BY DEF Callers
<1>4. \A d \in Callers : call[d] \in Call
  BY DEF IInv, SessionInv, SessionTypes
<1>5. \A s \in Sessions, d \in Callers \ {c} : Had(d, s) => sess[s] = session[s]
  BY OneHolder, ClosedHasNone DEF Moves, IInv
<1>6. \A d \in Callers \ {c} : call[d].session # None => call[d].session \in Sessions /\ sess[call[d].session] = session[call[d].session]
  <2>1. \A d \in Callers \ {c} : call[d].session # None => call[d].session \in Sessions
    BY <1>4 DEF Call
  <2> QED BY <1>5, <2>1 DEF Had, Holds
<1>7. \A t \in Threads \ {c} : cache[t] # None => cache[t] \in Sessions /\ sess[cache[t]] = session[cache[t]]
  <2>1. \A t \in Threads \ {c} : cache[t] # None => cache[t] \in Sessions
    BY DEF IInv, SessionInv, SessionTypes
  <2> QED BY <1>3, <1>5, <2>1 DEF Had, Holds
<1>8. UseInv
  BY DEF IInv, SessionInv
<1>9. \A d \in Callers : CallGood(d, call'[d], secrets')
  BY <1>1, <1>8 DEF UseInv
<1>10. \A d \in Callers : call'[d].session # None => HeldGood(d, call'[d], session'[call'[d].session])
  BY <1>1, <1>6, <1>8 DEF UseInv
<1>11. \A t \in Threads : CacheGood(call'[t], cache'[t])
  BY <1>1, <1>3, <1>8 DEF UseInv
<1>12. \A t \in Threads : cache'[t] # None => KeptGood(call'[t], session'[cache'[t]])
  BY <1>1, <1>3, <1>7, <1>8 DEF UseInv
<1>13. UseInv'
  BY <1>9, <1>10, <1>11, <1>12 DEF UseInv
<1>14. \A d \in Callers \ {c}, s \in Sessions : Holds(d, call'[d], cache'[d], s) <=> Had(d, s)
  BY <1>1 DEF Had, Holds
<1>15. \A s \in Sessions : Holds(c, k, kept[c], s) \in BOOLEAN
  BY DEF Holds
<1>16. HolderInv'
  BY <1>1, <1>14, <1>15, MoveKeepsHolders DEF HolderInv, IInv
<1> QED BY <1>2, <1>13, <1>16 DEF SessionInv

-----------------------------------------------------------------------------
(* What a caller's record becomes.                                         *)

\* k is r gone to pc, with secret n and session s.
Goes(k, r, pc, n, s) ==
    /\ k \in Call /\ k.pc = pc /\ k.secret = n /\ k.session = s
    /\ k.kind = r.kind /\ k.read = r.read /\ k.attempt = r.attempt /\ k.fault = r.fault /\ k.failed = r.failed
    /\ k.unknown = r.unknown

LEMMA GoesPc ==
    ASSUME NEW r \in Call, NEW pc \in CallSteps
    PROVE  Goes([r EXCEPT !.pc = pc], r, pc, r.secret, r.session)
  BY DEF Goes, Call

LEMMA GoesSecret ==
    ASSUME NEW r \in Call, NEW pc, NEW n, NEW s, NEW k, Goes(k, r, pc, n, s), NEW m \in Versions
    PROVE  Goes([k EXCEPT !.secret = m], r, pc, m, s)
  BY DEF Goes, Call

LEMMA GoesSession ==
    ASSUME NEW r \in Call, NEW pc, NEW n, NEW s, NEW k, Goes(k, r, pc, n, s), NEW x \in Sessions \cup {None}
    PROVE  Goes([k EXCEPT !.session = x], r, pc, n, x)
  BY DEF Goes, Call

LEMMA GoesForms ==
    ASSUME NEW r \in Call, NEW pc \in CallSteps, NEW n \in Versions, NEW s \in Sessions \cup {None}
    PROVE  /\ Goes([r EXCEPT !.pc = pc], r, pc, r.secret, r.session)
           /\ Goes([r EXCEPT !.pc = pc, !.secret = n], r, pc, n, r.session)
           /\ Goes([r EXCEPT !.pc = pc, !.session = s], r, pc, r.secret, s)
           /\ Goes([r EXCEPT !.pc = pc, !.secret = n, !.session = s], r, pc, n, s)
<1>1. PICK a : a = [r EXCEPT !.pc = pc]
  OBVIOUS
<1>2. PICK b : b = [a EXCEPT !.secret = n]
  OBVIOUS
<1>3. Goes(a, r, pc, r.secret, r.session)
  BY <1>1, GoesPc
<1>4. Goes(b, r, pc, n, r.session)
  BY <1>2, <1>3, GoesSecret
<1>5. Goes([a EXCEPT !.session = s], r, pc, r.secret, s)
  BY <1>3, GoesSession
<1>6. Goes([b EXCEPT !.session = s], r, pc, n, s)
  BY <1>4, GoesSession
<1>7. b = [r EXCEPT !.pc = pc, !.secret = n] /\ [a EXCEPT !.session = s] = [r EXCEPT !.pc = pc, !.session = s]
  BY <1>1, <1>2
<1>8. [b EXCEPT !.session = s] = [r EXCEPT !.pc = pc, !.secret = n, !.session = s]
  BY <1>1, <1>2
<1> QED BY <1>1, <1>3, <1>4, <1>5, <1>6, <1>7, <1>8

LEMMA SetCallIs ==
    ASSUME NEW c, NEW k, SetCall(c, k)
    PROVE  call' = [call EXCEPT ![c] = k]
  BY DEF SetCall

\* What is known of a caller before its step.
LEMMA CallerIs ==
    ASSUME IInv, NEW c \in Callers
    PROVE  /\ call[c] \in Call /\ CallGood(c, call[c], secrets)
           /\ call[c].session # None => /\ call[c].session \in Sessions
                                        /\ HeldGood(c, call[c], session[call[c].session])
           /\ c \in Threads => /\ cache[c] \in Sessions \cup {None} /\ CacheGood(call[c], cache[c])
                               /\ cache[c] # None => KeptGood(call[c], session[cache[c]])
<1>1. call[c] \in Call
  BY DEF IInv, SessionInv, SessionTypes
<1>2. call[c].session \in Sessions \cup {None}
  BY <1>1 DEF Call
<1> QED BY <1>1, <1>2 DEF IInv, SessionInv, SessionTypes, UseInv

\* A step that leaves every session with whoever has it.
LEMMA StayMoves ==
    ASSUME NEW c, NEW s, NEW x, NEW has, x = session[s], Had(c, s) <=> has
    PROVE  Moves(c, s, x, has, stray)
  BY DEF Moves

LEMMA NoneIs == IInv => None \notin Sessions /\ SessionTypes /\ secrets \in Nat /\ \A s \in Sessions : ~session[s].outdated
  BY Numbers, ExasolAssumption DEF IInv, FileInv, SessionInv, UseInv

\* The caller goes on without touching a session, or the caches.
LEMMA RecordKeeps ==
    ASSUME IInv, secrets' = secrets, NEW c \in Callers, NEW k \in Call, call' = [call EXCEPT ![c] = k],
           UNCHANGED <<session, cache, idle, stray>>,
           \A s \in Sessions : Had(c, s) <=> Holds(c, k, cache[c], s),
           CallGood(c, k, secrets),
           k.session # None => HeldGood(c, k, session[k.session]),
           c \in Threads => CacheGood(k, cache[c]),
           c \in Threads /\ cache[c] # None => KeptGood(k, session[cache[c]])
    PROVE  SessionInv'
<1>1. /\ session \in [Sessions -> Session] /\ cache \in [Threads -> Sessions \cup {None}] /\ idle' \subseteq Threads
      /\ stray \in SUBSET Sessions /\ \A s \in Sessions : ~session[s].outdated
  BY NoneIs DEF SessionTypes
<1>2. \A s \in Sessions : Moves(c, s, session[s], Holds(c, k, cache[c], s), stray)
  BY StayMoves
<1>3. session' = session /\ cache' = cache /\ stray' = stray
  OBVIOUS
<1> QED BY <1>1, <1>2, <1>3, CallerKeeps

LEMMA BeginKeeps ==
    ASSUME IInv, secrets' = secrets, NEW c \in Callers, NEW step \in {"connect", "resolve"}, NEW kind \in Kinds, Begin(c, step, kind),
           c \in Threads => kind = "query" /\ step = "connect", c \notin Threads => kind # "query" /\ step = "resolve"
    PROVE  SessionInv'
<1>1. PICK k : k = [NoCall EXCEPT !.pc = step, !.kind = kind, !.read = profile]
  OBVIOUS
<1>2. k = [pc |-> step, kind |-> kind, read |-> profile, secret |-> 0, attempt |-> 0, session |-> None, fault |-> FALSE, unknown |-> FALSE, failed |-> FALSE]
  BY <1>1 DEF NoCall
<1>3. profile \in Profile /\ profile.since <= secrets
  BY DEF Begin, Readable, IInv, FileInv, SecretsGrow
<1>4. k \in Call
  BY <1>2, <1>3, NoneIs, ExasolAssumption DEF Call, CallSteps, Versions
<1>5. k.pc = step /\ k.kind = kind /\ k.read = profile /\ k.session = None /\ k.attempt = 0 /\ k.failed = FALSE
  BY <1>2
<1>6. CallGood(c, k, secrets)
  BY <1>3, <1>5, Zenon DEF CallGood
<1>7. call[c].pc = "none" /\ call' = [call EXCEPT ![c] = k]
  BY <1>1, SetCallIs DEF Begin
<1>8. call[c].session = None
  BY <1>7, CallerIs DEF CallGood
<1>9. \A s \in Sessions : Had(c, s) <=> Holds(c, k, cache[c], s)
  BY <1>5, <1>8 DEF Had, Holds
<1>10. c \in Threads => CacheGood(k, cache[c])
  BY <1>5 DEF CacheGood
<1>11. c \in Threads /\ cache[c] # None => KeptGood(k, session[cache[c]])
  BY <1>7, CallerIs DEF KeptGood
<1>12. UNCHANGED <<session, cache, idle, stray>>
  BY DEF Begin
<1> QED BY <1>4, <1>5, <1>6, <1>7, <1>9, <1>10, <1>11, <1>12, RecordKeeps

LEMMA ReuseKeeps ==
    ASSUME IInv, secrets' = secrets, NEW t \in Threads, Reuse(t)
    PROVE  SessionInv'
<1>1. t \in Callers
  BY DEF Callers
<1>2. PICK k : k = [call[t] EXCEPT !.pc = "execute", !.session = cache[t]]
  OBVIOUS
<1>3. call[t].pc = "connect" /\ cache[t] # None /\ session[cache[t]].settings = call[t].read.settings
  BY DEF Reuse, Reusable
<1>4. call[t] \in Call /\ cache[t] \in Sessions /\ CallGood(t, call[t], secrets) /\ KeptGood(call[t], session[cache[t]]) /\ CacheGood(call[t], cache[t])
  BY <1>1, <1>3, CallerIs
<1>5. Goes(k, call[t], "execute", call[t].secret, cache[t])
  <2>1. call[t].secret \in Versions
    BY <1>4 DEF Call
  <2> QED BY <1>2, <1>4, <2>1, GoesForms DEF CallSteps
<1>6. call' = [call EXCEPT ![t] = k]
  BY <1>2, SetCallIs DEF Reuse
<1>7. CallGood(t, k, secrets)
  BY <1>3, <1>4, <1>5 DEF CallGood, Goes
<1>8. HeldGood(t, k, session[k.session])
  <2>1. session[cache[t]].ready /\ ~session[cache[t]].touched
    BY <1>3, <1>4 DEF KeptGood
  <2>2. call[t].attempt # 1
    BY <1>3, <1>4 DEF CacheGood
  <2> QED BY <1>3, <1>5, <2>1, <2>2 DEF HeldGood, Goes
<1>9. CacheGood(k, cache[t]) /\ KeptGood(k, session[cache[t]])
  BY <1>3, <1>4, <1>5 DEF CacheGood, KeptGood, Goes
<1>10. \A s \in Sessions : Had(t, s) <=> Holds(t, k, cache[t], s)
  <2>1. call[t].session = None
    BY <1>3, <1>4 DEF CallGood
  <2> QED BY <1>5, <2>1, NoneIs DEF Had, Holds, Goes
<1>11. UNCHANGED <<session, cache, idle, stray>> /\ k \in Call
  BY <1>5 DEF Reuse, Goes
<1> QED BY <1>1, <1>6, <1>7, <1>8, <1>9, <1>10, <1>11, RecordKeeps

\* The thread's cached session, which is also the one its call has, is closed.
LEMMA InvalidateKeeps ==
    ASSUME IInv, secrets' = secrets, NEW t \in Threads, Invalidate(t), NEW k \in Call, call' = [call EXCEPT ![t] = k],
           stray' = stray, CallGood(t, k, secrets), CacheGood(k, None), k.session = None,
           call[t].session # None => call[t].session = cache[t]
    PROVE  SessionInv'
<1>1. t \in Callers /\ cache[t] \in Sessions \cup {None}
  BY CallerIs DEF Callers
<1>2. PICK kept : kept = [cache EXCEPT ![t] = None]
  OBVIOUS
<1>3. /\ kept \in [Threads -> Sessions \cup {None}] /\ cache' = kept /\ kept[t] = None
      /\ \A u \in Threads \ {t} : kept[u] = cache[u]
  BY <1>2, NoneIs DEF Invalidate, SessionTypes
<1>4. idle' \subseteq Threads /\ stray \in SUBSET Sessions
  BY NoneIs DEF Invalidate, SessionTypes
<1>5. PICK sess : sess = Forgotten(t)
  OBVIOUS
<1>6. session' = sess
  BY <1>5 DEF Invalidate
<1>7. /\ sess \in [Sessions -> Session]
      /\ \A s \in Sessions : sess[s] = IF s = cache[t] THEN Closed ELSE session[s]
  BY <1>1, <1>5, NoneIs, ClosedIs DEF Forgotten, SessionTypes
<1>8. \A s \in Sessions : ~sess[s].outdated
  BY <1>7, NoneIs, ClosedIs
<1>9. ASSUME NEW s \in Sessions PROVE Moves(t, s, sess[s], Holds(t, k, kept[t], s), stray)
  <2>1. ~Holds(t, k, kept[t], s)
    BY <1>3, NoneIs DEF Holds
  <2>2. Had(t, s) <=> s = cache[t]
    BY NoneIs DEF Had, Holds
  <2>3. CASE s = cache[t]
    <3>1. sess[s].state = "closed"
      BY <1>7, <2>3, ClosedIs
    <3> QED BY <2>1, <2>2, <2>3, <3>1 DEF Moves
  <2>4. CASE s # cache[t]
    BY <1>7, <2>1, <2>2, <2>4 DEF Moves
  <2> QED BY <2>3, <2>4
<1> QED BY <1>1, <1>3, <1>4, <1>6, <1>7, <1>8, <1>9, CallerKeeps

LEMMA ReplaceKeeps ==
    ASSUME IInv, secrets' = secrets, NEW t \in Threads, Replace(t)
    PROVE  SessionInv'
<1>1. t \in Callers
  BY DEF Callers
<1>2. PICK k : k = [call[t] EXCEPT !.pc = "resolve"]
  OBVIOUS
<1>3. call[t].pc = "connect" /\ call[t] \in Call /\ CallGood(t, call[t], secrets)
  BY <1>1, CallerIs DEF Replace
<1>4. Goes(k, call[t], "resolve", call[t].secret, call[t].session)
  BY <1>2, <1>3, GoesPc DEF CallSteps
<1>5. call[t].session = None
  BY <1>3 DEF CallGood
<1>6. CallGood(t, k, secrets) /\ CacheGood(k, None)
  BY <1>3, <1>4, <1>5 DEF CallGood, CacheGood, Goes
<1>7. call' = [call EXCEPT ![t] = k] /\ Invalidate(t) /\ stray' = stray
  BY <1>2, SetCallIs DEF Replace
<1> QED BY <1>4, <1>5, <1>6, <1>7, InvalidateKeeps DEF Goes

-----------------------------------------------------------------------------
(* Failures.  A call that ends with an error, or begins again, holds no    *)
(* session; an error without a fault would have been tried again.          *)

Ended(c, k) ==
    /\ k \in Call /\ k.session = None /\ k.pc \in {"none", "connect"}
    /\ CallGood(c, k, secrets) /\ CacheGood(k, None)

LEMMA ErrorEnds ==
    ASSUME IInv, NEW c \in Callers, NEW fault \in BOOLEAN, c \in Threads => call[c].fault \/ fault
    PROVE  Ended(c, Error(c, fault))
<1>3. ASSUME NEW b \in BOOLEAN, NEW k, k = [NoCall EXCEPT !.failed = b, !.fault = b], ~b => c \notin Threads
      PROVE  Ended(c, k)
  <2>1. k = [pc |-> "none", kind |-> "query", read |-> None, secret |-> 0, attempt |-> 0, session |-> None, fault |-> b, unknown |-> FALSE, failed |-> b]
    BY <1>3 DEF NoCall
  <2>2. k \in Call
    BY <2>1, NoneIs, ExasolAssumption DEF Call, CallSteps, Kinds, Versions
  <2>3. k.pc = "none" /\ k.kind = "query" /\ k.session = None /\ k.fault = b /\ k.failed = b
    BY <2>1
  <2>4. CallGood(c, k, secrets) /\ CacheGood(k, None)
    BY <2>3, Zenon DEF CallGood, CacheGood
  <2> QED BY <2>2, <2>3, <2>4 DEF Ended
<1>4. CASE c \in Threads
  <2>1. Error(c, fault) = [NoCall EXCEPT !.failed = TRUE, !.fault = TRUE]
    BY <1>4 DEF Error
  <2> QED BY <1>3, <1>4, <2>1
<1>5. CASE c \notin Threads
  <2>1. (c \in Threads) = FALSE
    BY <1>5
  <2>3. (c \in Threads /\ (call[c].fault \/ fault)) = FALSE
    BY <1>5
  <2>2. Error(c, fault) = [NoCall EXCEPT !.failed = FALSE, !.fault = FALSE]
    BY <2>1, <2>3, Zenon DEF Error
  <2> QED BY <1>3, <1>5, <2>2
<1> QED BY <1>4, <1>5

LEMMA AgainEnds ==
    ASSUME IInv, NEW c \in Threads, NEW fault \in BOOLEAN, call[c].pc # "none"
    PROVE  Ended(c, Again(c, fault))
<1>1. call[c] \in Call /\ CallGood(c, call[c], secrets)
  BY CallerIs DEF Callers
<1>2. call[c].fault \in BOOLEAN /\ call[c].read \in Profile /\ call[c].read.since <= secrets
  BY <1>1 DEF Call, CallGood
<1>3. PICK known \in BOOLEAN : known = (call[c].fault \/ fault)
  BY <1>2
<1>4. PICK r : r = call[c].read
  OBVIOUS
<1>5. PICK k : k = [NoCall EXCEPT !.pc = "connect", !.read = r, !.attempt = 1, !.fault = known]
  OBVIOUS
<1>6. k = Again(c, fault)
  BY <1>3, <1>4, <1>5 DEF Again
<1>7. k = [pc |-> "connect", kind |-> "query", read |-> r, secret |-> 0, attempt |-> 1, session |-> None, fault |-> known, unknown |-> FALSE, failed |-> FALSE]
  BY <1>5 DEF NoCall
<1>8. k \in Call
  BY <1>2, <1>4, <1>7, NoneIs, ExasolAssumption DEF Call, CallSteps, Kinds, Versions
<1>9. k.pc = "connect" /\ k.kind = "query" /\ k.read = r /\ k.session = None /\ k.failed = FALSE
  BY <1>7
<1>10. CallGood(c, k, secrets) /\ CacheGood(k, None)
  BY <1>2, <1>4, <1>9, Zenon DEF CallGood, CacheGood
<1> QED BY <1>6, <1>8, <1>9, <1>10 DEF Ended

\* A thread that does not know the text of the error for a lost session.
LEMMA UnknownEnds ==
    ASSUME IInv, NEW c \in Threads
    PROVE  Ended(c, [Error(c, FALSE) EXCEPT !.unknown = TRUE])
<1>1. call[c].fault \in BOOLEAN
  BY CallerIs DEF Callers, Call
<1>2. PICK b \in BOOLEAN : b = call[c].fault
  BY <1>1
<1>3. Error(c, FALSE) = [NoCall EXCEPT !.failed = TRUE, !.fault = b]
  <2>1. (c \in Threads) = TRUE /\ (c \in Threads /\ (call[c].fault \/ FALSE)) = b
    BY <1>2
  <2> QED BY <2>1, Zenon DEF Error
<1>4. Error(c, FALSE) = [pc |-> "none", kind |-> "query", read |-> None, secret |-> 0, attempt |-> 0, session |-> None,
                         fault |-> b, unknown |-> FALSE, failed |-> TRUE]
  BY <1>3 DEF NoCall
<1>5. PICK k : k = [Error(c, FALSE) EXCEPT !.unknown = TRUE]
  OBVIOUS
<1>6. k = [pc |-> "none", kind |-> "query", read |-> None, secret |-> 0, attempt |-> 0, session |-> None,
           fault |-> b, unknown |-> TRUE, failed |-> TRUE]
  <2>1. PICK x : x = [pc |-> "none", kind |-> "query", read |-> None, secret |-> 0, attempt |-> 0, session |-> None,
                      fault |-> b, unknown |-> FALSE, failed |-> TRUE]
    OBVIOUS
  <2>2. k = [x EXCEPT !.unknown = TRUE]
    BY <1>4, <1>5, <2>1, Zenon
  <2> QED BY <2>1, <2>2
<1>7. k \in Call
  BY <1>6, NoneIs, ExasolAssumption DEF Call, CallSteps, Kinds, Versions
<1>8. k.pc = "none" /\ k.kind = "query" /\ k.session = None /\ k.unknown = TRUE
  BY <1>6
<1>9. CallGood(c, k, secrets) /\ CacheGood(k, None)
  BY <1>8, Zenon DEF CallGood, CacheGood
<1> QED BY <1>5, <1>7, <1>8, <1>9 DEF Ended

LEMMA FailedEnds ==
    ASSUME IInv, NEW c \in Callers, NEW looksLost \in BOOLEAN, NEW fault \in BOOLEAN, Failed(c, looksLost, fault), call[c].pc # "none",
           c \in Threads => call[c].fault \/ fault \/ (looksLost /\ call[c].attempt = 0)
    PROVE  \E k : Ended(c, k) /\ call' = [call EXCEPT ![c] = k]
<1>1. CASE looksLost /\ MayRetry(c)
  <2>1. SetCall(c, Again(c, fault)) /\ c \in Threads
    BY <1>1 DEF Failed, MayRetry
  <2> QED BY <2>1, AgainEnds, SetCallIs
<1>2. CASE ~(looksLost /\ MayRetry(c))
  <2>1. SetCall(c, Error(c, fault))
    BY <1>2 DEF Failed
  <2>2. c \in Threads => call[c].fault \/ fault
    BY <1>2 DEF MayRetry
  <2> QED BY <2>1, <2>2, ErrorEnds, SetCallIs
<1> QED BY <1>1, <1>2

\* A call that held nothing ends, or begins again.
LEMMA EndedKeeps ==
    ASSUME IInv, secrets' = secrets, NEW c \in Callers, NEW k, Ended(c, k), call' = [call EXCEPT ![c] = k],
           call[c].session = None, call[c].pc # "discard", c \in Threads => cache[c] = None,
           UNCHANGED <<session, cache, idle, stray>>
    PROVE  SessionInv'
<1>1. \A s \in Sessions : Had(c, s) <=> Holds(c, k, cache[c], s)
  BY DEF Had, Holds, Ended
<1> QED BY <1>1, RecordKeeps DEF Ended

LEMMA ResolveKeeps ==
    ASSUME IInv, secrets' = secrets, NEW c \in Callers, Resolve(c)
    PROVE  SessionInv'
<1>1. call[c].pc = "resolve" /\ call[c] \in Call /\ CallGood(c, call[c], secrets)
  BY CallerIs DEF Resolve
<1>2. call[c].session = None /\ UNCHANGED <<session, cache, idle, stray>>
  BY <1>1 DEF CallGood, Resolve
<1>3. c \in Threads => cache[c] = None
  BY <1>1, CallerIs DEF CacheGood
<1>4. CASE secret \in Versions
  <2>1. PICK k : k = [call[c] EXCEPT !.pc = "login", !.secret = secret]
    OBVIOUS
  <2>2. call' = [call EXCEPT ![c] = k]
    BY <1>4, <2>1, SetCallIs DEF Resolve
  <2>3. Goes(k, call[c], "login", secret, None)
    BY <1>1, <1>2, <1>4, <2>1, GoesForms DEF CallSteps
  <2>4. secret = secrets
    BY <1>4 DEF IInv, FileInv, SecretsGrow
  <2>5. CallGood(c, k, secrets)
    BY <1>1, <2>3, <2>4, Zenon DEF CallGood, Goes
  <2>6. k \in Call /\ k.session = None /\ k.pc = "login"
    BY <2>3 DEF Goes
  <2>7. \A s \in Sessions : Had(c, s) <=> Holds(c, k, cache[c], s)
    BY <1>2, <2>6 DEF Had, Holds
  <2>8. c \in Threads => CacheGood(k, cache[c])
    BY <1>3, <2>6 DEF CacheGood
  <2> QED BY <1>2, <1>3, <2>2, <2>5, <2>6, <2>7, <2>8, RecordKeeps
<1>5. CASE secret \notin Versions
  <2>1. Failed(c, FALSE, TRUE)
    BY <1>5 DEF Resolve
  <2>2. PICK k : Ended(c, k) /\ call' = [call EXCEPT ![c] = k]
    BY <1>1, <2>1, FailedEnds
  <2> QED BY <1>1, <1>2, <1>3, <2>2, EndedKeeps
<1> QED BY <1>4, <1>5

LEMMA LoginFailsKeeps ==
    ASSUME IInv, secrets' = secrets, NEW c \in Callers, LoginFails(c)
    PROVE  SessionInv'
<1>1. call[c].pc = "login" /\ call[c] \in Call /\ CallGood(c, call[c], secrets)
  BY CallerIs DEF LoginFails
<1>2. call[c].session = None /\ UNCHANGED <<session, cache, idle, stray>>
  BY <1>1 DEF CallGood, LoginFails
<1>3. c \in Threads => cache[c] = None
  BY <1>1, CallerIs DEF CacheGood
<1>4. PICK looksLost \in BOOLEAN : Failed(c, looksLost, TRUE)
  BY DEF LoginFails
<1>5. PICK k : Ended(c, k) /\ call' = [call EXCEPT ![c] = k]
  BY <1>1, <1>4, FailedEnds
<1> QED BY <1>1, <1>2, <1>3, <1>5, EndedKeeps

LEMMA NewSessionIs == IInv /\ Unused # {} => NewSession \in Sessions /\ session[NewSession].state = "closed"
  BY DEF NewSession, Unused

\* The session that a login opens.
LEMMA OpenedIs ==
    ASSUME NEW settings \in Settings
    PROVE  LET x == [Closed EXCEPT !.state = "open", !.settings = settings, !.outdated = FALSE] IN
           x \in Session /\ x.state = "open" /\ x.settings = settings /\ x.outdated = FALSE /\ x.touched = FALSE
<1>1. PICK x : x = [Closed EXCEPT !.state = "open", !.settings = settings, !.outdated = FALSE]
  OBVIOUS
<1>2. x = [state |-> "open", settings |-> settings, outdated |-> FALSE, ready |-> FALSE, touched |-> FALSE]
  BY <1>1 DEF Closed
<1>3. x \in Session /\ x.state = "open" /\ x.settings = settings /\ x.outdated = FALSE /\ x.touched = FALSE
  BY <1>2 DEF Session
<1> QED BY <1>1, <1>3

LEMMA LoginKeeps ==
    ASSUME IInv, secrets' = secrets, NEW c \in Callers, Login(c)
    PROVE  SessionInv'
<1>1. PICK s : s = NewSession
  OBVIOUS
<1>2. s \in Sessions /\ session[s].state = "closed"
  BY <1>1, NewSessionIs DEF Login
<1>3. call[c].pc = "login" /\ call[c] \in Call /\ CallGood(c, call[c], secrets)
  BY CallerIs DEF Login
<1>4. call[c].session = None /\ call[c].read \in Profile /\ call[c].read.since <= call[c].secret /\ call[c].read.since <= secrets
  BY <1>3 DEF CallGood
<1>5. call[c].read.settings \in Settings
  BY <1>4 DEF Profile
<1>6. (call[c].secret < call[c].read.since) = FALSE
  <2>1. call[c].secret \in Nat /\ call[c].read.since \in Nat
    BY <1>3, <1>4 DEF Call, Profile, Versions
  <2>2. PICK a \in Nat, b \in Nat : a = call[c].secret /\ b = call[c].read.since
    BY <2>1
  <2>3. b <= a
    BY <1>4, <2>2, Zenon
  <2>4. ~(a < b)
    BY <2>3
  <2> QED BY <2>2, <2>4
<1>24. PICK settings \in Settings : settings = call[c].read.settings
  BY <1>5
<1>7. PICK x : x = [Closed EXCEPT !.state = "open", !.settings = settings, !.outdated = FALSE]
  OBVIOUS
<1>8. x \in Session /\ x.state = "open" /\ x.settings = call[c].read.settings /\ x.outdated = FALSE /\ x.touched = FALSE
  BY <1>7, <1>24, OpenedIs
<1>9. PICK sess : sess = [session EXCEPT ![s] = x]
  OBVIOUS
<1>10. /\ sess \in [Sessions -> Session] /\ sess[s] = x /\ \A r \in Sessions \ {s} : sess[r] = session[r]
  BY <1>2, <1>8, <1>9, NoneIs DEF SessionTypes
<1>11. session' = sess
  BY <1>1, <1>6, <1>7, <1>9, <1>24 DEF Login
<1>12. PICK k : k = [call[c] EXCEPT !.pc = "init", !.secret = 0, !.session = s]
  OBVIOUS
<1>13. call' = [call EXCEPT ![c] = k]
  BY <1>1, <1>12, SetCallIs DEF Login
<1>14. 0 \in Versions
  BY NoneIs, ExasolAssumption DEF Versions
<1>15. Goes(k, call[c], "init", 0, s)
  BY <1>2, <1>3, <1>12, <1>14, GoesForms DEF CallSteps
<1>16. k \in Call /\ k.pc = "init" /\ k.session = s /\ s # None
  BY <1>2, <1>15, NoneIs DEF Goes
<1>17. CallGood(c, k, secrets)
  BY <1>3, <1>4, <1>15, <1>16, Zenon DEF CallGood, Goes
<1>18. HeldGood(c, k, sess[k.session])
  BY <1>8, <1>10, <1>15, <1>16 DEF HeldGood, Goes
<1>19. c \in Threads => cache[c] = None
  BY <1>3, CallerIs DEF CacheGood
<1>20. c \in Threads => CacheGood(k, cache[c])
  BY <1>16, <1>19 DEF CacheGood
<1>21. \A r \in Sessions : ~sess[r].outdated
  BY <1>8, <1>10, NoneIs
<1>22. ASSUME NEW r \in Sessions PROVE Moves(c, r, sess[r], Holds(c, k, cache[c], r), stray)
  <2>1. CASE r = s
    <3>1. Holds(c, k, cache[c], r)
      BY <1>16, <2>1 DEF Holds
    <3> QED BY <1>2, <1>8, <1>10, <2>1, <3>1 DEF Moves
  <2>2. CASE r # s
    <3>1. Had(c, r) <=> Holds(c, k, cache[c], r)
      BY <1>4, <1>16, <2>2, NoneIs DEF Had, Holds
    <3> QED BY <1>10, <2>2, <3>1, StayMoves
  <2> QED BY <2>1, <2>2
<1>23. /\ cache \in [Threads -> Sessions \cup {None}] /\ cache' = cache /\ idle' \subseteq Threads
       /\ stray \in SUBSET Sessions /\ stray' = stray
  BY NoneIs DEF SessionTypes, Login
<1> QED BY <1>10, <1>11, <1>13, <1>16, <1>17, <1>18, <1>19, <1>20, <1>21, <1>22, <1>23, CallerKeeps

\* What a session becomes after its statements, and after one without a result set.
LEMMA SessionForms ==
    ASSUME NEW x \in Session
    PROVE  /\ [x EXCEPT !.ready = TRUE] \in Session
           /\ [x EXCEPT !.ready = TRUE].state = x.state /\ [x EXCEPT !.ready = TRUE].settings = x.settings
           /\ [x EXCEPT !.ready = TRUE].outdated = x.outdated /\ [x EXCEPT !.ready = TRUE].touched = x.touched
           /\ [x EXCEPT !.ready = TRUE].ready = TRUE
           /\ [x EXCEPT !.touched = TRUE] \in Session
           /\ [x EXCEPT !.touched = TRUE].state = x.state /\ [x EXCEPT !.touched = TRUE].outdated = x.outdated
           /\ \A gone \in {"lost", "vanished"} :
                 /\ [x EXCEPT !.state = gone] \in Session
                 /\ [x EXCEPT !.state = gone].state = gone /\ [x EXCEPT !.state = gone].settings = x.settings
                 /\ [x EXCEPT !.state = gone].outdated = x.outdated /\ [x EXCEPT !.state = gone].touched = x.touched
                 /\ [x EXCEPT !.state = gone].ready = x.ready
  BY DEF Session

LEMMA InitSessionKeeps ==
    ASSUME IInv, secrets' = secrets, NEW c \in Callers, InitSession(c)
    PROVE  SessionInv'
<1>1. call[c].pc = "init" /\ call[c] \in Call /\ CallGood(c, call[c], secrets)
  BY CallerIs DEF InitSession
<1>2. call[c].session # None
  BY <1>1 DEF CallGood
<1>3. PICK s \in Sessions : s = call[c].session
  BY <1>2, CallerIs
<1>4. HeldGood(c, call[c], session[s]) /\ session[s] \in Session
  BY <1>2, <1>3, CallerIs, NoneIs DEF SessionTypes
<1>5. PICK x : x = [session[s] EXCEPT !.ready = TRUE]
  OBVIOUS
<1>6. /\ x \in Session /\ x.state = session[s].state /\ x.settings = session[s].settings
      /\ x.outdated = session[s].outdated /\ x.touched = session[s].touched /\ x.ready = TRUE
  BY <1>4, <1>5, SessionForms
<1>7. PICK sess : sess = [session EXCEPT ![s] = x]
  OBVIOUS
<1>8. sess \in [Sessions -> Session] /\ sess[s] = x /\ \A r \in Sessions \ {s} : sess[r] = session[r]
  BY <1>6, <1>7, NoneIs DEF SessionTypes
<1>9. session' = sess
  BY <1>3, <1>5, <1>7 DEF InitSession
<1>10. PICK k : k = [call[c] EXCEPT !.pc = "execute"]
  OBVIOUS
<1>11. call' = [call EXCEPT ![c] = k]
  BY <1>10, SetCallIs DEF InitSession
<1>12. Goes(k, call[c], "execute", call[c].secret, s)
  BY <1>1, <1>3, <1>10, GoesPc DEF CallSteps
<1>13. k \in Call /\ k.pc = "execute" /\ k.session = s
  BY <1>12 DEF Goes
<1>14. CallGood(c, k, secrets)
  BY <1>1, <1>2, <1>3, <1>12, Zenon DEF CallGood, Goes
<1>15. HeldGood(c, k, sess[k.session])
  BY <1>1, <1>4, <1>6, <1>8, <1>12 DEF HeldGood, Goes
<1>16. PICK kept : kept = IF c \in Threads THEN [cache EXCEPT ![c] = s] ELSE cache
  OBVIOUS
<1>17. cache' = kept /\ idle' \subseteq Threads /\ stray' = stray /\ stray \in SUBSET Sessions
  BY <1>3, <1>16, NoneIs DEF InitSession, SessionTypes
<1>18. kept \in [Threads -> Sessions \cup {None}] /\ (c \in Threads => kept[c] = s) /\ \A t \in Threads \ {c} : kept[t] = cache[t]
  BY <1>3, <1>16, NoneIs DEF SessionTypes
<1>19. c \in Threads => CacheGood(k, kept[c]) /\ KeptGood(k, sess[kept[c]])
  BY <1>1, <1>4, <1>6, <1>8, <1>13, <1>18 DEF CacheGood, KeptGood, HeldGood
<1>20. \A r \in Sessions : ~sess[r].outdated
  BY <1>6, <1>8, NoneIs
<1>21. c \in Threads => cache[c] = None
  BY <1>1, CallerIs DEF CacheGood
<1>22. ASSUME NEW r \in Sessions PROVE Moves(c, r, sess[r], Holds(c, k, kept[c], r), stray)
  <2>1. (Had(c, r) <=> r = s) /\ (Holds(c, k, kept[c], r) <=> r = s)
    BY <1>3, <1>13, <1>18, <1>21, NoneIs DEF Had, Holds
  <2> QED BY <1>6, <1>8, <2>1 DEF Moves
<1> QED BY <1>8, <1>9, <1>11, <1>13, <1>14, <1>15, <1>17, <1>18, <1>19, <1>20, <1>22, CallerKeeps

\* A session of a call is closed, and the call ends or begins again.
LEMMA CloseKeeps ==
    ASSUME IInv, secrets' = secrets, NEW c \in Callers, NEW k, Ended(c, k), call' = [call EXCEPT ![c] = k],
           call[c].session # None, session' = [session EXCEPT ![call[c].session] = Closed],
           c \in Threads => cache[c] = None, UNCHANGED <<cache, idle, stray>>
    PROVE  SessionInv'
<1>1. PICK s \in Sessions : s = call[c].session
  BY CallerIs
<1>2. PICK sess : sess = [session EXCEPT ![s] = Closed]
  OBVIOUS
<1>3. sess \in [Sessions -> Session] /\ sess[s] = Closed /\ \A r \in Sessions \ {s} : sess[r] = session[r]
  BY <1>2, NoneIs, ClosedIs DEF SessionTypes
<1>4. session' = sess
  BY <1>1, <1>2
<1>5. k \in Call /\ k.session = None /\ CallGood(c, k, secrets) /\ CacheGood(k, None)
  BY DEF Ended
<1>6. \A r \in Sessions : ~sess[r].outdated
  BY <1>3, NoneIs, ClosedIs
<1>7. ASSUME NEW r \in Sessions PROVE Moves(c, r, sess[r], Holds(c, k, cache[c], r), stray)
  <2>1. (Had(c, r) <=> r = s) /\ ~Holds(c, k, cache[c], r)
    BY <1>1, <1>5, NoneIs DEF Had, Holds
  <2>2. CASE r = s
    BY <1>3, <2>1, <2>2, ClosedIs DEF Moves
  <2>3. CASE r # s
    BY <1>3, <2>1, <2>3 DEF Moves
  <2> QED BY <2>2, <2>3
<1>8. cache \in [Threads -> Sessions \cup {None}] /\ cache' = cache /\ idle' \subseteq Threads /\ stray \in SUBSET Sessions /\ stray' = stray
  BY NoneIs DEF SessionTypes
<1> QED BY <1>3, <1>4, <1>5, <1>6, <1>7, <1>8, CallerKeeps

LEMMA InitFailsKeeps ==
    ASSUME IInv, secrets' = secrets, NEW c \in Callers, InitFails(c)
    PROVE  SessionInv'
<1>1. call[c].pc = "init" /\ call[c] \in Call /\ CallGood(c, call[c], secrets)
  BY CallerIs DEF InitFails
<1>2. call[c].session # None
  BY <1>1 DEF CallGood
<1>3. c \in Threads => cache[c] = None
  BY <1>1, CallerIs DEF CacheGood
<1>4. PICK looksLost \in BOOLEAN : Failed(c, looksLost, TRUE)
  BY DEF InitFails
<1>5. PICK k : Ended(c, k) /\ call' = [call EXCEPT ![c] = k]
  BY <1>1, <1>4, FailedEnds
<1>6. session' = [session EXCEPT ![call[c].session] = Closed] /\ UNCHANGED <<cache, idle, stray>>
  BY DEF InitFails
<1> QED BY <1>2, <1>3, <1>5, <1>6, CloseKeeps

LEMMA NoCallEnds == ASSUME IInv, NEW c \in Callers PROVE Ended(c, NoCall)
  BY NoneIs, NoCallIs DEF Ended

LEMMA OthersCloseKeeps ==
    ASSUME IInv, secrets' = secrets, NEW c \in Callers, NEW kind \in Kinds \ {"query"}, Close(c, kind)
    PROVE  SessionInv'
<1>1. call[c].pc = "execute" /\ call[c].kind = kind /\ CallGood(c, call[c], secrets)
  BY CallerIs DEF Close
<1>2. call[c].session # None /\ c \notin Threads
  BY <1>1 DEF CallGood
<1>3. call' = [call EXCEPT ![c] = NoCall] /\ session' = [session EXCEPT ![call[c].session] = Closed] /\ UNCHANGED <<cache, idle, stray>>
  BY SetCallIs DEF Close
<1> QED BY <1>2, <1>3, NoCallEnds, CloseKeeps

LEMMA StrandKeeps ==
    ASSUME IInv, secrets' = secrets, NEW c \in Callers, Strand(c)
    PROVE  SessionInv'
<1>1. call[c].pc = "execute" /\ call[c].kind = "export" /\ CallGood(c, call[c], secrets)
  BY CallerIs DEF Strand
<1>2. call[c].session # None /\ c \notin Threads
  BY <1>1 DEF CallGood
<1>3. PICK s \in Sessions : s = call[c].session
  BY <1>2, CallerIs
<1>4. call' = [call EXCEPT ![c] = NoCall]
  BY SetCallIs DEF Strand
<1>5. PICK left : left = stray \cup {s}
  OBVIOUS
<1>6. stray' = left /\ left \in SUBSET Sessions /\ session' = session /\ cache' = cache /\ idle' = idle
  BY <1>3, <1>5, NoneIs DEF Strand, SessionTypes
<1>7. NoCall \in Call /\ NoCall.session = None /\ CallGood(c, NoCall, secrets)
  BY NoCallEnds DEF Ended
<1>8. ASSUME NEW r \in Sessions PROVE Moves(c, r, session[r], Holds(c, NoCall, cache[c], r), left)
  <2>1. (Had(c, r) <=> r = s) /\ ~Holds(c, NoCall, cache[c], r)
    BY <1>2, <1>3, <1>7, NoneIs DEF Had, Holds
  <2>2. CASE r = s
    <3>1. session[r].state # "closed"
      BY <2>1, <2>2, OneHolder DEF IInv
    <3> QED BY <1>5, <2>1, <2>2, <3>1 DEF Moves
  <2>3. CASE r # s
    <3>1. r \in left <=> r \in stray
      BY <1>5, <2>3
    <3> QED BY <2>1, <2>3, <3>1 DEF Moves
  <2> QED BY <2>2, <2>3
<1>9. session \in [Sessions -> Session] /\ cache \in [Threads -> Sessions \cup {None}] /\ idle \subseteq Threads /\ \A r \in Sessions : ~session[r].outdated
  BY NoneIs DEF SessionTypes
<1> QED BY <1>2, <1>4, <1>6, <1>7, <1>8, <1>9, CallerKeeps

-----------------------------------------------------------------------------
(* Queries                                                                 *)

LEMMA ExecutingIs ==
    ASSUME IInv, NEW t \in Threads, call[t].pc \in {"execute", "discard"}
    PROVE  /\ t \in Callers /\ call[t].session \in Sessions /\ cache[t] = call[t].session
           /\ HeldGood(t, call[t], session[call[t].session])
<1>1. t \in Callers
  BY DEF Callers
<1>2. CallGood(t, call[t], secrets) /\ CacheGood(call[t], cache[t])
  BY <1>1, CallerIs
<1>3. call[t].session # None /\ cache[t] = call[t].session
  BY <1>2 DEF CallGood, CacheGood
<1> QED BY <1>1, <1>3, CallerIs

LEMMA RowsKeeps ==
    ASSUME IInv, secrets' = secrets, NEW t \in Threads, Rows(t)
    PROVE  SessionInv'
<1>1. call[t].pc = "execute" /\ call' = [call EXCEPT ![t] = NoCall] /\ UNCHANGED <<session, cache, idle, stray>>
  BY SetCallIs DEF Rows
<1>2. /\ t \in Callers /\ call[t].session \in Sessions /\ cache[t] = call[t].session
      /\ HeldGood(t, call[t], session[call[t].session])
  BY <1>1, ExecutingIs
<1>3. NoCall \in Call /\ NoCall.session = None /\ NoCall.pc = "none" /\ NoCall.attempt = 0 /\ CallGood(t, NoCall, secrets)
  <2>1. NoCall.attempt = 0 /\ NoCall.pc = "none"
    BY DEF NoCall
  <2> QED BY <1>2, <2>1, NoCallEnds DEF Ended
<1>4. CacheGood(NoCall, cache[t])
  BY <1>3 DEF CacheGood
<1>5. KeptGood(NoCall, session[cache[t]])
  BY <1>1, <1>2 DEF KeptGood, HeldGood
<1>6. \A s \in Sessions : Had(t, s) <=> Holds(t, NoCall, cache[t], s)
  BY <1>2, <1>3, NoneIs DEF Had, Holds
<1> QED BY <1>1, <1>2, <1>3, <1>4, <1>5, <1>6, RecordKeeps

LEMMA NoRowsKeeps ==
    ASSUME IInv, secrets' = secrets, NEW t \in Threads, NoRows(t)
    PROVE  SessionInv'
<1>1. call[t].pc = "execute" /\ Alive(call[t].session) /\ UNCHANGED <<cache, idle, stray>>
  BY DEF NoRows
<1>2. t \in Callers /\ call[t].session \in Sessions /\ cache[t] = call[t].session
  BY <1>1, ExecutingIs
<1>3. PICK s \in Sessions : s = call[t].session
  BY <1>2
<1>4. call[t] \in Call /\ CallGood(t, call[t], secrets) /\ session[s] \in Session
  BY <1>2, <1>3, CallerIs, NoneIs DEF SessionTypes
<1>5. PICK x : x = [session[s] EXCEPT !.touched = TRUE]
  OBVIOUS
<1>6. x \in Session /\ x.state = session[s].state /\ x.outdated = session[s].outdated
  BY <1>4, <1>5, SessionForms
<1>7. PICK sess : sess = [session EXCEPT ![s] = x]
  OBVIOUS
<1>8. sess \in [Sessions -> Session] /\ sess[s] = x /\ \A r \in Sessions \ {s} : sess[r] = session[r]
  BY <1>6, <1>7, NoneIs DEF SessionTypes
<1>9. session' = sess
  BY <1>3, <1>5, <1>7 DEF NoRows
<1>10. PICK k : k = [call[t] EXCEPT !.pc = "discard"]
  OBVIOUS
<1>11. call' = [call EXCEPT ![t] = k]
  BY <1>10, SetCallIs DEF NoRows
<1>12. Goes(k, call[t], "discard", call[t].secret, s)
  BY <1>3, <1>4, <1>10, GoesPc DEF CallSteps
<1>13. k \in Call /\ k.pc = "discard" /\ k.session = s /\ s # None
  BY <1>12, NoneIs DEF Goes
<1>14. CallGood(t, k, secrets)
  BY <1>1, <1>4, <1>12, <1>13, Zenon DEF CallGood, Goes
<1>15. HeldGood(t, k, sess[k.session])
  <2>1. x.state = "open"
    BY <1>1, <1>3, <1>6 DEF Alive
  <2> QED BY <1>8, <1>13, <2>1 DEF HeldGood
<1>16. CacheGood(k, cache[t]) /\ KeptGood(k, sess[cache[t]])
  BY <1>2, <1>3, <1>13 DEF CacheGood, KeptGood
<1>17. \A r \in Sessions : ~sess[r].outdated
  BY <1>6, <1>8, NoneIs
<1>18. ASSUME NEW r \in Sessions PROVE Moves(t, r, sess[r], Holds(t, k, cache[t], r), stray)
  <2>1. (Had(t, r) <=> r = s) /\ (Holds(t, k, cache[t], r) <=> r = s)
    BY <1>2, <1>3, <1>13 DEF Had, Holds
  <2> QED BY <1>6, <1>8, <2>1 DEF Moves
<1>19. cache \in [Threads -> Sessions \cup {None}] /\ cache' = cache /\ idle' \subseteq Threads /\ stray \in SUBSET Sessions /\ stray' = stray
  BY <1>1, NoneIs DEF SessionTypes
<1> QED BY <1>2, <1>8, <1>9, <1>11, <1>13, <1>14, <1>15, <1>16, <1>17, <1>18, <1>19, CallerKeeps

LEMMA DiscardKeeps ==
    ASSUME IInv, secrets' = secrets, NEW t \in Threads, Discard(t)
    PROVE  SessionInv'
<1>1. call[t].pc = "discard" /\ Invalidate(t) /\ call' = [call EXCEPT ![t] = NoCall] /\ stray' = stray
  BY SetCallIs DEF Discard
<1>2. t \in Callers /\ cache[t] = call[t].session
  BY <1>1, ExecutingIs
<1> QED BY <1>1, <1>2, NoCallEnds, InvalidateKeeps DEF Ended

LEMMA QueryFailsKeeps ==
    ASSUME IInv, secrets' = secrets, NEW t \in Threads, QueryFails(t)
    PROVE  SessionInv'
<1>1. call[t].pc = "execute" /\ Invalidate(t) /\ stray' = stray
  BY DEF QueryFails
<1>2. /\ t \in Callers /\ call[t].session \in Sessions /\ cache[t] = call[t].session
      /\ HeldGood(t, call[t], session[call[t].session])
  BY <1>1, ExecutingIs
<1>3. PICK s \in Sessions : s = call[t].session
  BY <1>2
<1>4. call[t].attempt \in {0, 1} /\ call[t].fault \in BOOLEAN
  <2>1. call[t] \in Call
    BY <1>2, CallerIs
  <2> QED BY <2>1 DEF Call
<1>5. session[s].state # "open" /\ call[t].attempt # 0 => call[t].fault
  BY <1>2, <1>3, <1>4 DEF HeldGood
<1>6. \/ session[s].state = "open" /\ \E looksLost \in BOOLEAN : Failed(t, looksLost, TRUE)
      \/ session[s].state = "lost" /\ Failed(t, TRUE, FALSE)
      \/ session[s].state = "vanished" /\ SetCall(t, [Error(t, FALSE) EXCEPT !.unknown = TRUE])
  BY <1>3 DEF QueryFails
<1>7. \E k : Ended(t, k) /\ call' = [call EXCEPT ![t] = k]
  <2>1. CASE \E looksLost \in BOOLEAN : Failed(t, looksLost, TRUE)
    <3>1. PICK looksLost \in BOOLEAN : Failed(t, looksLost, TRUE)
      BY <2>1
    <3> QED BY <1>1, <1>2, <3>1, FailedEnds
  <2>2. CASE session[s].state = "lost" /\ Failed(t, TRUE, FALSE)
    <3>1. call[t].fault \/ call[t].attempt = 0
      BY <1>5, <2>2
    <3> QED BY <1>1, <1>2, <2>2, <3>1, FailedEnds
  <2>3. CASE SetCall(t, [Error(t, FALSE) EXCEPT !.unknown = TRUE])
    BY <2>3, UnknownEnds, SetCallIs
  <2> QED BY <1>6, <2>1, <2>2, <2>3
<1>8. PICK k : Ended(t, k) /\ call' = [call EXCEPT ![t] = k]
  BY <1>7
<1> QED BY <1>1, <1>2, <1>8, InvalidateKeeps DEF Ended

-----------------------------------------------------------------------------
(* The rest of the world                                                   *)

LEMMA LoseKeeps ==
    ASSUME IInv, secrets' = secrets, NEW s \in Sessions, Lose(s)
    PROVE  SessionInv'
<1>1. session[s] \in Session /\ session[s].state = "open" /\ cache' = cache /\ idle' = idle /\ stray' = stray
  BY NoneIs DEF Lose, SessionTypes
<1>22. PICK gone \in {"lost", "vanished"} : session' = [session EXCEPT ![s].state = gone]
  BY DEF Lose
<1>2. PICK x : x = [session[s] EXCEPT !.state = gone]
  OBVIOUS
<1>3. /\ x \in Session /\ x.state = gone /\ x.settings = session[s].settings /\ x.outdated = session[s].outdated
      /\ x.touched = session[s].touched /\ x.ready = session[s].ready
  BY <1>1, <1>2, <1>22, SessionForms
<1>4. PICK sess : sess = [session EXCEPT ![s] = x]
  OBVIOUS
<1>5. sess \in [Sessions -> Session] /\ sess[s] = x /\ \A r \in Sessions \ {s} : sess[r] = session[r]
  BY <1>3, <1>4, NoneIs DEF SessionTypes
<1>6. session' = sess
  BY <1>2, <1>4, <1>22
<1>7. ASSUME NEW c \in Callers
      PROVE  /\ call[c].session = s => call'[c].fault
             /\ call'[c] \in Call /\ call'[c].failed = call[c].failed /\ (call[c].fault => call'[c].fault)
             /\ call'[c].unknown = call[c].unknown
             /\ call'[c].pc = call[c].pc /\ call'[c].session = call[c].session /\ call'[c].read = call[c].read
             /\ call'[c].kind = call[c].kind /\ call'[c].attempt = call[c].attempt /\ call'[c].secret = call[c].secret
  <2>1. call[c] \in Call
    BY CallerIs
  <2>2. call'[c] = [call[c] EXCEPT !.fault = call[c].fault \/ call[c].session = s]
    BY DEF Lose
  <2>3. call[c].fault \in BOOLEAN
    BY <2>1 DEF Call
  <2>4. CASE call[c].fault \/ call[c].session = s
    <3>1. (call[c].fault \/ call[c].session = s) = TRUE
      BY <2>4
    <3>2. call'[c] = [call[c] EXCEPT !.fault = TRUE]
      BY <2>2, <3>1
    <3> QED BY <2>1, <3>2 DEF Call
  <2>5. CASE ~(call[c].fault \/ call[c].session = s)
    <3>1. (call[c].fault \/ call[c].session = s) = FALSE
      BY <2>5
    <3>2. call'[c] = [call[c] EXCEPT !.fault = FALSE]
      BY <2>2, <3>1
    <3>3. call'[c] = call[c]
      BY <2>1, <2>3, <2>5, <3>2 DEF Call
    <3> QED BY <2>1, <2>5, <3>3
  <2> QED BY <2>4, <2>5
<1>8. SessionTypes'
  <2>1. call' \in [Callers -> Call]
    BY <1>7 DEF Lose
  <2> QED BY <1>1, <1>5, <1>6, <2>1, NoneIs DEF SessionTypes
<1>9. ASSUME NEW c \in Callers PROVE CallGood(c, call'[c], secrets')
  <2>1. PICK k : k = call'[c]
    OBVIOUS
  <2>2. CallGood(c, call[c], secrets)
    BY CallerIs
  <2>3. CallGood(c, k, secrets)
    BY <1>7, <2>1, <2>2, Zenon DEF CallGood
  <2> QED BY <2>1, <2>3
<1>18. sess[s].state # "closed" /\ session[s].state # "closed"
  BY <1>1, <1>3, <1>5, <1>22
<1>10. \A r \in Sessions : /\ sess[r].settings = session[r].settings /\ sess[r].outdated = session[r].outdated
                           /\ sess[r].touched = session[r].touched /\ sess[r].ready = session[r].ready
                           /\ r # s => sess[r].state = session[r].state
                           /\ sess[r].state = "closed" <=> session[r].state = "closed"
  BY <1>3, <1>5, <1>18
<1>11. ASSUME NEW c \in Callers, call'[c].session # None PROVE HeldGood(c, call'[c], session'[call'[c].session])
  <2>1. call[c].session # None
    BY <1>7, <1>11
  <2>2. PICK r \in Sessions : r = call[c].session
    BY <2>1, CallerIs
  <2>3. HeldGood(c, call[c], session[r])
    BY <2>1, <2>2, CallerIs
  <2>5. PICK k, y : k = call'[c] /\ y = sess[r]
    OBVIOUS
  <2>6. /\ k.pc = call[c].pc /\ k.read = call[c].read /\ k.attempt = call[c].attempt
        /\ call[c].fault => k.fault
        /\ r = s => k.fault
    BY <1>7, <2>2, <2>5
  <2>7. /\ y.settings = session[r].settings /\ y.touched = session[r].touched /\ y.ready = session[r].ready
        /\ r # s => y.state = session[r].state
    BY <1>10, <2>5, Zenon
  <2>8. HeldGood(c, k, y)
    BY <2>3, <2>6, <2>7, Zenon DEF HeldGood
  <2>4. HeldGood(c, call'[c], sess[r])
    BY <2>5, <2>8
  <2> QED BY <1>6, <1>7, <2>2, <2>4
<1>12. \A t \in Threads : t \in Callers
  BY DEF Callers
<1>13. \A t \in Threads : CacheGood(call'[t], cache'[t])
  BY <1>1, <1>7, <1>12, CallerIs DEF CacheGood
<1>14. ASSUME NEW t \in Threads, cache'[t] # None PROVE KeptGood(call'[t], session'[cache'[t]])
  <2>1. cache[t] \in Sessions /\ KeptGood(call[t], session[cache[t]])
    BY <1>1, <1>12, <1>14, CallerIs
  <2>2. PICK r \in Sessions : r = cache[t]
    BY <2>1
  <2>3. PICK k, y : k = call'[t] /\ y = sess[r]
    OBVIOUS
  <2>4. k.pc = call[t].pc /\ y.ready = session[r].ready /\ y.touched = session[r].touched
    BY <1>7, <1>10, <1>12, <2>3, Zenon
  <2>5. KeptGood(k, y)
    BY <2>1, <2>2, <2>4, Zenon DEF KeptGood
  <2> QED BY <1>1, <1>6, <2>2, <2>3, <2>5
<1>21. \A r \in Sessions : ~session[r].outdated
  BY NoneIs
<1>19. \A r \in Sessions : ~session'[r].outdated
  BY <1>6, <1>10, <1>21, Zenon
<1>15. UseInv'
  BY <1>9, <1>11, <1>13, <1>14, <1>19 DEF UseInv
<1>16. \A c \in Callers, r \in Sessions : Holds(c, call'[c], cache'[c], r) <=> Holds(c, call[c], cache[c], r)
  BY <1>1, <1>7 DEF Holds
<1>20. \A r \in Sessions : session'[r].state = "closed" <=> session[r].state = "closed"
  BY <1>6, <1>10, Zenon
<1>17. HolderInv'
  BY <1>1, <1>16, <1>20 DEF HolderInv, IInv, SessionInv
<1> QED BY <1>8, <1>15, <1>17 DEF SessionInv

LEMMA GrowIdleKeeps ==
    ASSUME IInv, secrets' = secrets, NEW t \in Threads, GrowIdle(t)
    PROVE  SessionInv'
  BY DEF GrowIdle, IInv, SessionInv, SessionTypes, UseInv, HolderInv

LEMMA EndThreadKeeps ==
    ASSUME IInv, secrets' = secrets, NEW t \in Threads, EndThread(t)
    PROVE  SessionInv'
<1>1. t \in Callers /\ call[t].pc = "none" /\ cache[t] # None
  BY DEF EndThread, Callers
<1>2. PICK k : k = call[t]
  OBVIOUS
<1>3. k \in Call /\ CallGood(t, k, secrets) /\ call \in [Callers -> Call]
  BY <1>1, <1>2, CallerIs, NoneIs DEF SessionTypes
<1>4. call' = [call EXCEPT ![t] = k]
  BY <1>2, <1>3 DEF EndThread
<1>5. k.session = None /\ k.pc = "none"
  BY <1>1, <1>2, <1>3 DEF CallGood
<1>6. PICK s \in Sessions : s = cache[t]
  BY <1>1, CallerIs
<1>7. PICK kept, left : kept = [cache EXCEPT ![t] = None] /\ left = stray \cup {s}
  OBVIOUS
<1>8. /\ kept \in [Threads -> Sessions \cup {None}] /\ kept[t] = None /\ cache' = kept
      /\ \A u \in Threads \ {t} : kept[u] = cache[u]
  BY <1>7, NoneIs DEF EndThread, SessionTypes
<1>9. left \in SUBSET Sessions /\ stray' = left /\ idle' \subseteq Threads /\ session' = session
  BY <1>6, <1>7, NoneIs DEF EndThread, SessionTypes
<1>10. CacheGood(k, None)
  BY <1>5 DEF CacheGood
<1>11. ASSUME NEW r \in Sessions PROVE Moves(t, r, session[r], Holds(t, k, kept[t], r), left)
  <2>1. (Had(t, r) <=> r = s) /\ ~Holds(t, k, kept[t], r)
    BY <1>2, <1>5, <1>6, <1>8, NoneIs DEF Had, Holds
  <2>2. CASE r = s
    <3>1. session[r].state # "closed"
      BY <1>1, <2>1, <2>2, OneHolder DEF IInv
    <3> QED BY <1>7, <2>1, <2>2, <3>1 DEF Moves
  <2>3. CASE r # s
    <3>1. r \in left <=> r \in stray
      BY <1>7, <2>3
    <3> QED BY <2>1, <2>3, <3>1 DEF Moves
  <2> QED BY <2>2, <2>3
<1>12. session \in [Sessions -> Session] /\ \A r \in Sessions : ~session[r].outdated
  BY NoneIs DEF SessionTypes
<1> QED BY <1>1, <1>3, <1>4, <1>5, <1>8, <1>9, <1>10, <1>11, <1>12, CallerKeeps

LEMMA CollectKeeps ==
    ASSUME IInv, secrets' = secrets, NEW s \in Sessions, Collect(s)
    PROVE  SessionInv'
<1>1. s \in stray /\ stray' = stray \ {s} /\ session' = [session EXCEPT ![s] = Closed] /\ cache' = cache /\ idle' = idle /\ call' = call
  BY DEF Collect
<1>2. PICK sess : sess = [session EXCEPT ![s] = Closed]
  OBVIOUS
<1>3. sess \in [Sessions -> Session] /\ sess[s] = Closed /\ \A r \in Sessions \ {s} : sess[r] = session[r]
  BY <1>2, NoneIs, ClosedIs DEF SessionTypes
<1>4. \A c \in Callers : ~Holds(c, call[c], cache[c], s)
  BY <1>1 DEF IInv, SessionInv, HolderInv
<1>5. \A c \in Callers : call[c].session # s /\ (c \in Threads => cache[c] # s)
  BY <1>4 DEF Holds
<1>6. SessionTypes'
  BY <1>1, <1>2, <1>3, NoneIs DEF SessionTypes
<1>7. \A c \in Callers : call[c].session # None => session'[call[c].session] = session[call[c].session]
  BY <1>1, <1>2, <1>3, <1>5, CallerIs
<1>8. \A t \in Threads : cache[t] # None => session'[cache[t]] = session[cache[t]]
  <2>1. \A t \in Threads : t \in Callers
    BY DEF Callers
  <2> QED BY <1>1, <1>2, <1>3, <1>5, <2>1, CallerIs
<1>9. \A r \in Sessions : ~session'[r].outdated
  BY <1>1, <1>2, <1>3, NoneIs, ClosedIs
<1>10. UseInv'
  BY <1>1, <1>7, <1>8, <1>9 DEF UseInv, IInv, SessionInv
<1>11. HolderInv'
  <2>1. SUFFICES ASSUME NEW r \in Sessions
        PROVE  /\ \A c, d \in Callers : Holds(c, call[c], cache[c], r) /\ Holds(d, call[d], cache[d], r) => c = d
               /\ session'[r].state # "closed" <=> (r \in stray' \/ \E c \in Callers : Holds(c, call[c], cache[c], r))
               /\ r \in stray' => \A c \in Callers : ~Holds(c, call[c], cache[c], r)
    BY <1>1 DEF HolderInv
  <2>2. /\ \A c, d \in Callers : Holds(c, call[c], cache[c], r) /\ Holds(d, call[d], cache[d], r) => c = d
        /\ session[r].state # "closed" <=> (r \in stray \/ \E c \in Callers : Holds(c, call[c], cache[c], r))
        /\ r \in stray => \A c \in Callers : ~Holds(c, call[c], cache[c], r)
    BY DEF HolderInv, IInv, SessionInv
  <2>3. CASE r = s
    <3>1. session'[r].state = "closed" /\ r \notin stray'
      BY <1>1, <1>2, <1>3, <2>3, ClosedIs
    <3> QED BY <1>4, <2>2, <2>3, <3>1
  <2>4. CASE r # s
    <3>1. session'[r] = session[r] /\ (r \in stray' <=> r \in stray)
      BY <1>1, <1>2, <1>3, <2>4
    <3> QED BY <2>2, <3>1
  <2> QED BY <2>3, <2>4
<1> QED BY <1>6, <1>10, <1>11 DEF SessionInv

LEMMA SecretsGrowKeeps ==
    ASSUME IInv, FileInv', secrets <= secrets', UNCHANGED <<session, cache, idle, call, stray>>
    PROVE  SessionInv'
<1>1. PICK n \in Nat, m \in Nat : n = secrets /\ m = secrets'
  <2>1. secrets \in Nat
    BY NoneIs
  <2>2. secrets' \in Nat
    BY ExasolAssumption DEF FileInv, FileTypes, Versions
  <2> QED BY <2>1, <2>2
<1>2. n <= m
  BY <1>1, Zenon
<1>3. ASSUME NEW c \in Callers PROVE CallGood(c, call[c], m)
  <2>1. CallGood(c, call[c], n) /\ call[c] \in Call
    BY <1>1, CallerIs
  <2>2. call[c].pc # "none" => call[c].read.since \in Nat /\ call[c].read.since <= n
    BY <2>1 DEF CallGood, Profile, Versions
  <2>3. call[c].pc # "none" => call[c].read.since <= m
    BY <1>2, <2>2
  <2> QED BY <2>1, <2>3, Zenon DEF CallGood
<1>4. \A c \in Callers : CallGood(c, call'[c], secrets')
  BY <1>1, <1>3
<1> QED BY <1>4 DEF IInv, SessionInv, SessionTypes, UseInv, HolderInv

-----------------------------------------------------------------------------
(* The inductive invariant, and what it says.                              *)

LEMMA SessionsInit == Init => IInv
<1> SUFFICES ASSUME Init PROVE IInv
  OBVIOUS
<1>1. FileInv
  BY FileInit
<1>2. secrets = 0 /\ None \notin Sessions /\ 0 \in Nat
  BY ExasolAssumption DEF Init
<1>3. Threads \subseteq Callers
  BY DEF Callers
<1>4. \A c \in Callers : call[c] = NoCall /\ (c \in Threads => cache[c] = None)
  BY DEF Init
<1>5. \A c \in Callers : NoCall \in Call /\ NoCall.pc = "none" /\ NoCall.session = None /\ CallGood(c, NoCall, 0) /\ CacheGood(NoCall, None)
  BY <1>2, NoCallIs
<1>6. \A s \in Sessions : session[s] \in Session /\ session[s].state = "closed" /\ ~session[s].outdated
  BY ClosedIs DEF Init
<1>7. SessionTypes
  BY <1>5, ClosedIs DEF SessionTypes, Init
<1>8. UseInv
  BY <1>2, <1>3, <1>4, <1>5, <1>6 DEF UseInv
<1>9. \A c \in Callers, s \in Sessions : ~Holds(c, call[c], cache[c], s)
  BY <1>2, <1>4, <1>5 DEF Holds
<1>10. stray = {}
  BY DEF Init
<1>11. HolderInv
  BY <1>6, <1>9, <1>10 DEF HolderInv
<1> QED BY <1>1, <1>7, <1>8, <1>11 DEF IInv, SessionInv

LEMMA CallStepKeeps ==
    ASSUME IInv, NEW c \in Callers, Step(c)
    PROVE  IInv'
<1>1. FileInv' /\ secrets' = secrets
  BY FileUnchanged DEF Step, IInv
<1>2. "smoke" \in Kinds \ {"query"} /\ "validation" \in Kinds \ {"query"} /\ "export" \in Kinds \ {"query"}
  BY DEF Kinds
<1>3. CASE c \in Threads /\ (Reuse(c) \/ Replace(c) \/ Rows(c) \/ NoRows(c) \/ Discard(c) \/ QueryFails(c))
  BY <1>1, <1>3, ReuseKeeps, ReplaceKeeps, RowsKeeps, NoRowsKeeps, DiscardKeeps, QueryFailsKeeps DEF IInv
<1>4. CASE EndSmoke(c) \/ EndValidation(c) \/ EndExport(c)
  <2>1. PICK kind \in Kinds \ {"query"} : Close(c, kind)
    BY <1>2, <1>4 DEF EndSmoke, EndValidation, EndExport
  <2> QED BY <1>1, <2>1, OthersCloseKeeps DEF IInv
<1>5. CASE Strand(c) \/ Resolve(c) \/ Login(c) \/ LoginFails(c) \/ InitSession(c) \/ InitFails(c)
  BY <1>1, <1>5, StrandKeeps, ResolveKeeps, LoginKeeps, LoginFailsKeeps, InitSessionKeeps, InitFailsKeeps DEF IInv
<1> QED BY <1>3, <1>4, <1>5 DEF Step

LEMMA SessionsStep == IInv /\ [Next]_vars => IInv'
<1> SUFFICES ASSUME IInv, [Next]_vars PROVE IInv'
  OBVIOUS
<1>1. ASSUME NEW w \in Writers, NEW x \in Settings, NEW fresh \in BOOLEAN, BeginRewrite(w, x, fresh) PROVE IInv'
  <2>1. FileInv' /\ secrets' = secrets
    BY <1>1, BeginRewriteKeeps DEF IInv
  <2>2. secrets <= secrets' /\ UNCHANGED <<session, cache, idle, call, stray>>
    BY <1>1, <2>1, Numbers DEF IInv, BeginRewrite
  <2> QED BY <2>1, <2>2, SecretsGrowKeeps DEF IInv
<1>2. ASSUME NEW w \in Writers, Rewrite(w) PROVE IInv'
  BY <1>2, RewriteKeeps, SecretsGrowKeeps DEF IInv
<1>3. ASSUME NEW c \in Callers, NEW step \in {"connect", "resolve"}, NEW kind \in Kinds, Begin(c, step, kind),
             c \in Threads => kind = "query" /\ step = "connect", c \notin Threads => kind # "query" /\ step = "resolve"
      PROVE  IInv'
  <2>1. FileInv' /\ secrets' = secrets
    BY <1>3, FileUnchanged DEF Begin, IInv
  <2> QED BY <1>3, <2>1, BeginKeeps DEF IInv
<1>4. ASSUME NEW c \in Others, Smoke(c) \/ Validate(c) \/ Export(c) PROVE IInv'
  <2>0. Threads \cap Others = {}
    BY ExasolAssumption
  <2>1. c \in Callers /\ c \notin Threads
    BY <2>0 DEF Callers
  <2>2. PICK kind \in {"smoke", "validation", "export"} : Begin(c, "resolve", kind)
    BY <1>4 DEF Smoke, Validate, Export
  <2> QED BY <1>3, <2>1, <2>2 DEF Kinds
<1>5. ASSUME NEW c \in Callers, Step(c) PROVE IInv'
  BY <1>5, CallStepKeeps
<1>6. ASSUME NEW s \in Sessions, Lose(s) PROVE IInv'
  <2>1. FileInv' /\ secrets' = secrets
    BY <1>6, FileUnchanged DEF Lose, IInv
  <2> QED BY <1>6, <2>1, LoseKeeps DEF IInv
<1>7. ASSUME NEW s \in Sessions, Collect(s) PROVE IInv'
  <2>1. FileInv' /\ secrets' = secrets
    BY <1>7, FileUnchanged DEF Collect, IInv
  <2> QED BY <1>7, <2>1, CollectKeeps DEF IInv
<1>8. ASSUME NEW t \in Threads, Query(t) PROVE IInv'
  BY <1>3, <1>8 DEF Query, Kinds, Callers
<1>9. ASSUME NEW t \in Threads, GrowIdle(t) PROVE IInv'
  <2>1. FileInv' /\ secrets' = secrets
    BY <1>9, FileUnchanged DEF GrowIdle, IInv
  <2> QED BY <1>9, <2>1, GrowIdleKeeps DEF IInv
<1>10. ASSUME NEW t \in Threads, EndThread(t) PROVE IInv'
  <2>1. FileInv' /\ secrets' = secrets
    BY <1>10, FileUnchanged DEF EndThread, IInv
  <2> QED BY <1>10, <2>1, EndThreadKeeps DEF IInv
<1>11. CASE Crash
  <2>1. FileInv'
    BY <1>11, CrashKeepsFiles DEF IInv
  <2> QED BY <1>11, <2>1, EmptyIsGood DEF Crash, IInv
<1>12. CASE UNCHANGED vars
  <2>1. FileInv' /\ secrets' = secrets
    BY <1>12, FileUnchanged DEF vars, fileVars, IInv
  <2>2. secrets <= secrets' /\ UNCHANGED <<session, cache, idle, call, stray>>
    BY <1>12, <2>1, Numbers DEF IInv, vars
  <2> QED BY <2>1, <2>2, SecretsGrowKeeps DEF IInv
<1> QED
  BY <1>1, <1>2, <1>4, <1>5, <1>6, <1>7, <1>8, <1>9, <1>10, <1>11, <1>12 DEF Next

LEMMA SessionsInvariant == Spec => []IInv
  BY SessionsInit, SessionsStep, PTL DEF Spec

LEMMA TypesFollow == IInv => TypeOK
  BY DEF IInv, FileInv, FileTypes, SessionInv, SessionTypes, TypeOK

LEMMA StatementsFollow == IInv => StatementsFindTheirSession
<1> SUFFICES ASSUME IInv, NEW c \in Callers, call[c].pc = "execute"
    PROVE  LET x == session[call[c].session] IN
           /\ x.settings = call[c].read.settings
           /\ x.ready /\ ~x.touched /\ ~x.outdated
  BY DEF StatementsFindTheirSession
<1>1. call[c].session # None
  BY CallerIs DEF CallGood
<1>2. call[c].session \in Sessions /\ HeldGood(c, call[c], session[call[c].session])
  BY <1>1, CallerIs
<1> QED BY <1>2, NoneIs DEF HeldGood

LEMMA HoldersFollow == IInv => OpenSessionsHaveOneHolder
<1> SUFFICES ASSUME IInv, NEW s \in Sessions
    PROVE  /\ \A c, d \in Holders(s) : c = d
           /\ session[s].state # "closed" <=> (Holders(s) # {} \/ s \in stray)
           /\ s \in stray => Holders(s) = {}
  BY DEF OpenSessionsHaveOneHolder
<1>1. Holders(s) = {c \in Callers : Holds(c, call[c], cache[c], s)}
  BY DEF Holders, Holds, Callers
<1>2. /\ \A c, d \in Callers : Holds(c, call[c], cache[c], s) /\ Holds(d, call[d], cache[d], s) => c = d
      /\ session[s].state # "closed" <=> (s \in stray \/ \E c \in Callers : Holds(c, call[c], cache[c], s))
      /\ s \in stray => \A c \in Callers : ~Holds(c, call[c], cache[c], s)
  BY DEF IInv, SessionInv, HolderInv
<1> QED BY <1>1, <1>2

LEMMA RetriesFollow == IInv => LostSessionsAreRetried
  BY CallerIs DEF LostSessionsAreRetried, CallGood, Callers

\* Every reachable state of the sessions and the files behind them has the type that the
\* code gives it; secrets are numbered within the rewrites begun (exasol/service.py).
THEOREM ExasolTypeCorrect == Spec => []TypeOK
  BY SessionsInvariant, TypesFollow, PTL

\* For any number of threads, rewrites and sessions, a statement runs on an open or lost
\* session that was initialised, that no other statement left dirty, and that was opened for
\* the settings the query read, with a secret no older than its profile then.
THEOREM StatementsRunOnTheirSession == Spec => []StatementsFindTheirSession
  BY SessionsInvariant, StatementsFollow, PTL

\* No session of the database is ever in two hands, and none stays open that no call, no
\* cache and no garbage collector will close: thread-local caches need no lock.
THEOREM OneHolderPerSession == Spec => []OpenSessionsHaveOneHolder
  BY SessionsInvariant, HoldersFollow, PTL

\* For any number of threads and sessions, a query of an app fails only when something
\* failed while it ran, or when its session had gone and the error says so in words that
\* _looks_like_dead_session does not know: any other loss between queries is hidden by the
\* one retry, also when a second session is lost or the cache is stale.
THEOREM LostSessionsNeverFail == Spec => []LostSessionsAreRetried
  BY SessionsInvariant, RetriesFollow, PTL

-----------------------------------------------------------------------------
(* Environments: types.  A thread that has begun has an environment, and   *)
(* so has a collector that removes one; without that, the steps would not  *)
(* keep the type of the directories.                                       *)

HasEnvironment ==
    /\ \A t \in Clients : ensure[t].pc # "none" => ensure[t].env \in Envs
    /\ gc.pc = "remove" => gc.env \in Envs
EnvTypeInv == Env!TypeOK /\ HasEnvironment

Directories == Env!Directory \cup {Nothing}

LEMMA NothingIs == Nothing \notin Env!Directory
  BY EnvironmentsAssumption DEF Directory, Status, Env!Directory, Env!Status

LEMMA EnvTypeInit == Env!Init => EnvTypeInv
  BY EnvironmentsAssumption DEF Env!Init, EnvTypeInv, Env!TypeOK, HasEnvironment, Env!Directory, Env!Ensure, Env!Pass, Env!NoEnsure, Env!NoPass

LEMMA EnvIs == EnvTypeInv => /\ env \in [Envs -> Directories] /\ ensure \in [Clients -> Env!Ensure] /\ gc \in Env!Pass
                             /\ recorded \subseteq Envs /\ served \subseteq Envs /\ contested \subseteq Envs /\ crashes \in 0..MaxCrashes
  BY DEF EnvTypeInv, Env!TypeOK, Directories

\* One thread goes on as r, and the directory of e becomes d.
ThreadGoes(t, r, e, d) ==
    /\ t \in Clients /\ e \in Envs
    /\ r \in Env!Ensure /\ (r.pc # "none" => r.env = e)
    /\ ensure[t].pc # "none" => ensure[t].env = e
    /\ ensure' = [ensure EXCEPT ![t] = r]
    /\ d \in Directories /\ env' = [env EXCEPT ![e] = d]
    /\ gc' = gc /\ served' = served /\ crashes' = crashes /\ recorded' \subseteq Envs
    /\ contested' \subseteq Envs /\ contested \ {e} = contested' \ {e}

LEMMA ThreadTypes ==
    ASSUME EnvTypeInv, NEW t, NEW r, NEW e, NEW d, ThreadGoes(t, r, e, d)
    PROVE  EnvTypeInv'
<1>1. ensure' \in [Clients -> Env!Ensure] /\ \A u \in Clients : ensure'[u].pc # "none" => ensure'[u].env \in Envs
  BY EnvIs DEF ThreadGoes, EnvTypeInv, HasEnvironment
<1>2. env' \in [Envs -> Directories]
  BY EnvIs DEF ThreadGoes
<1> QED BY <1>1, <1>2, EnvIs DEF ThreadGoes, EnvTypeInv, HasEnvironment, Env!TypeOK, Directories

\* The record of a thread that goes to a step, or leaves.
At(pc, e) == [pc |-> pc, env |-> e, left |-> {}, forced |-> FALSE]

LEMMA AtIs ==
    ASSUME NEW e \in Envs, NEW pc \in {"check", "touch", "make", "install", "mark", "record"}
    PROVE  At(pc, e) \in Env!Ensure /\ At(pc, e).pc = pc /\ At(pc, e).env = e
  BY DEF At, Env!Ensure

LEMMA StepIs ==
    ASSUME NEW t, NEW pc, NEW e, Env!Step(t, pc, e)
    PROVE  ensure' = [ensure EXCEPT ![t] = At(pc, e)]
<1>1. PICK r : r = [Env!NoEnsure EXCEPT !.pc = pc, !.env = e]
  OBVIOUS
<1>2. r = At(pc, e)
  BY <1>1 DEF Env!NoEnsure, At
<1>3. ensure' = [ensure EXCEPT ![t] = r]
  BY <1>1, Zenon DEF Env!Step
<1> QED BY <1>2, <1>3, Zenon

LEMMA LeaveIs == Env!NoEnsure \in Env!Ensure /\ Env!NoEnsure.pc = "none"
  BY DEF Env!NoEnsure, Env!Ensure

LEMMA ListedIs ==
    ASSUME EnvTypeInv, NEW e \in Envs
    PROVE  Env!Listed(e) \subseteq Env!Parts /\ ("record" \in Env!Listed(e) \/ env[e] = Nothing \/ env[e].status = "unrecorded")
  BY DEF Env!Listed, Env!Parts

\* A directory that is there gets another status, and so on.
LEMMA DirectoryForms ==
    ASSUME NEW x \in Env!Directory, NEW s \in Env!Status, NEW b \in BOOLEAN
    PROVE  /\ [x EXCEPT !.status = s] \in Env!Directory
           /\ [x EXCEPT !.status = s].status = s /\ [x EXCEPT !.status = s].whole = x.whole
           /\ [x EXCEPT !.status = s, !.old = b] \in Env!Directory
           /\ [x EXCEPT !.status = s, !.old = b].status = s /\ [x EXCEPT !.status = s, !.old = b].whole = x.whole
           /\ [x EXCEPT !.whole = b] \in Env!Directory
           /\ [x EXCEPT !.whole = b].status = x.status /\ [x EXCEPT !.whole = b].whole = b
           /\ [x EXCEPT !.old = b] \in Env!Directory
           /\ [x EXCEPT !.old = b].status = x.status /\ [x EXCEPT !.old = b].whole = x.whole
  BY DEF Env!Directory

LEMMA WithoutIs ==
    ASSUME EnvTypeInv, NEW e \in Envs, NEW part \in Env!Parts
    PROVE  /\ Env!Without(e, part) \in Directories
           /\ Env!Without(e, part) # Nothing /\ Env!Without(e, part).status = "ready" =>
                 part # "record" /\ env[e] # Nothing /\ env[e].status = "ready"
<1>1. CASE env[e] = Nothing
  BY <1>1 DEF Env!Without, Directories
<1>2. CASE env[e] # Nothing
  <2>1. env[e] \in Env!Directory
    BY <1>2, EnvIs DEF Directories
  <2>2. CASE part = "record"
    <3>1. PICK x : x = env[e]
      OBVIOUS
    <3>2. Env!Without(e, part) = [x EXCEPT !.status = "unrecorded", !.old = TRUE]
      BY <1>2, <2>2, <3>1 DEF Env!Without
    <3>3. [x EXCEPT !.status = "unrecorded", !.old = TRUE] \in Env!Directory /\ [x EXCEPT !.status = "unrecorded", !.old = TRUE].status = "unrecorded"
      BY <2>1, <3>1 DEF Env!Directory, Env!Status
    <3> QED BY <3>2, <3>3 DEF Directories
  <2>3. CASE part # "record"
    <3>1. PICK x : x = env[e]
      OBVIOUS
    <3>2. Env!Without(e, part) = [x EXCEPT !.whole = FALSE]
      BY <1>2, <2>3, <3>1 DEF Env!Without
    <3>3. [x EXCEPT !.whole = FALSE] \in Env!Directory /\ [x EXCEPT !.whole = FALSE].status = x.status
      BY <2>1, <3>1 DEF Env!Directory
    <3> QED BY <1>2, <2>3, <3>1, <3>2, <3>3 DEF Directories
  <2> QED BY <2>2, <2>3
<1> QED BY <1>1, <1>2

\* Losing files under an installer changes where its thread stands, and nothing else.
LEMMA TornIs ==
    ASSUME EnvTypeInv, NEW e \in Envs, NEW part
    PROVE  /\ Env!Torn(e, part) \in [Clients -> Env!Ensure]
           /\ \A u \in Clients : /\ Env!Torn(e, part)[u].env = ensure[u].env /\ Env!Torn(e, part)[u].left = ensure[u].left
                                 /\ Env!Torn(e, part)[u].pc = ensure[u].pc
                                    \/ (ensure[u].env = e /\ ensure[u].pc = "install" /\ Env!Torn(e, part)[u].pc = "torn")
<1>1. ASSUME NEW x \in Env!Ensure
      PROVE  /\ [x EXCEPT !.pc = "torn"] \in Env!Ensure /\ [x EXCEPT !.pc = "torn"].env = x.env
             /\ [x EXCEPT !.pc = "torn"].left = x.left /\ [x EXCEPT !.pc = "torn"].pc = "torn"
  BY DEF Env!Ensure
<1>2. \A u \in Clients : ensure[u] \in Env!Ensure
  BY EnvIs
<1> QED BY <1>1, <1>2 DEF Env!Torn

\* What the end of a removal does to the directory.
LEMMA RemovedIs ==
    ASSUME EnvTypeInv, NEW e \in Envs, NEW alone, Env!RemoveDirectory(e, alone)
    PROVE  \E d \in {Nothing, env[e]} : /\ env' = [env EXCEPT ![e] = d] /\ d \in Directories
                                        /\ contested' \in {contested, contested \ {e}}
                                        /\ contested' # contested => d = Nothing /\ alone
<1>1. env = [env EXCEPT ![e] = env[e]] /\ env[e] \in Directories /\ Nothing \in Directories
  BY EnvIs DEF Directories
<1>2. CASE env' = [env EXCEPT ![e] = Nothing] /\ contested' = IF alone THEN contested \ {e} ELSE contested
  BY <1>1, <1>2
<1>3. CASE UNCHANGED <<env, contested>>
  BY <1>1, <1>3
<1> QED BY <1>2, <1>3 DEF Env!RemoveDirectory

-----------------------------------------------------------------------------
(* Whole environments                                                      *)

\* Why a ready environment is a whole one, of the directory x of e, of what the threads f do
\* and of what the collector g does.  While nobody disturbs e, whoever creates it does so
\* alone, and before the mark everything is installed; and a removal of it is on its way as
\* long as the record is still there.
Creates(k, e) == k.env = e /\ k.pc \in {"install", "torn", "mark"}
Removes(k, e) == k.env = e /\ k.pc = "remove"
Ready(x) == x # Nothing /\ x.status = "ready"

Good(e, x, f, g) ==
    /\ Ready(x) => x.whole \/ Removes(g, e) \/ \E t \in Clients : Removes(f[t], e)
    /\ \A t \in Clients : Creates(f[t], e) =>
          /\ \A u \in Clients : ~Removes(f[u], e) /\ (Creates(f[u], e) => u = t)
          /\ ~Removes(g, e)
          /\ f[t].pc # "torn" /\ (f[t].pc = "mark" => x.whole)
    /\ \A t \in Clients : Removes(f[t], e) => "record" \in f[t].left \/ ~Ready(x)
    /\ Removes(g, e) => "record" \in g.left \/ ~Ready(x)

WholeInv == \A e \in Envs \ contested : Good(e, env[e], ensure, gc)
EnvInv == EnvTypeInv /\ WholeInv

\* What the operators of Environments say in these terms.
LEMMA TermsAre ==
    ASSUME NEW e
    PROVE  /\ \A t \in Clients : t \in Env!Creators(e) <=> Creates(ensure[t], e)
           /\ \A t \in Clients : t \in Env!Removers(e) <=> Removes(ensure[t], e)
           /\ Env!Creators(e) \subseteq Clients /\ Env!Removers(e) \subseteq Clients
           /\ Env!Evicting(e) <=> Removes(gc, e)
           /\ Env!BeingRemoved(e) <=> Removes(gc, e) \/ \E t \in Clients : Removes(ensure[t], e)
           /\ Env!Reusable(e) <=> Ready(env[e])
  BY DEF Env!Creators, Env!Removers, Env!Evicting, Env!BeingRemoved, Env!Reusable, Creates, Removes, Ready

\* A thread rests when it neither creates nor removes.
Resting == {"none", "check", "touch", "make", "record"}

\* The threads after t has gone on as r.
LEMMA AfterIs ==
    ASSUME NEW t \in Clients, NEW f, f \in [Clients -> Env!Ensure], NEW r
    PROVE  [f EXCEPT ![t] = r][t] = r /\ \A u \in Clients \ {t} : [f EXCEPT ![t] = r][u] = f[u]
  OBVIOUS

\* For every other environment nothing has changed.
LEMMA GoodElsewhere ==
    ASSUME NEW t \in Clients, NEW f, f \in [Clients -> Env!Ensure], NEW r, NEW e, NEW x, NEW g, Good(e, x, f, g),
           ~Creates(f[t], e), ~Removes(f[t], e), ~Creates(r, e), ~Removes(r, e)
    PROVE  Good(e, x, [f EXCEPT ![t] = r], g)
<1>1. PICK h : h = [f EXCEPT ![t] = r]
  OBVIOUS
<1>2. h[t] = r /\ \A u \in Clients \ {t} : h[u] = f[u]
  BY <1>1, AfterIs
<1>3. Good(e, x, h, g)
  BY <1>2, Zenon DEF Good
<1> QED BY <1>1, <1>3

\* Nobody but t is at work on e, and t rests then.
LEMMA GoodAlone ==
    ASSUME NEW t \in Clients, NEW f, f \in [Clients -> Env!Ensure], NEW r, NEW e, NEW x, NEW g,
           \A u \in Clients \ {t} : ~Creates(f[u], e) /\ ~Removes(f[u], e), ~Removes(g, e),
           r.pc \in Resting, Ready(x) => x.whole
    PROVE  Good(e, x, [f EXCEPT ![t] = r], g)
<1>1. PICK h : h = [f EXCEPT ![t] = r]
  OBVIOUS
<1>2. h[t] = r /\ \A u \in Clients \ {t} : h[u] = f[u]
  BY <1>1, AfterIs
<1>3. ~Creates(r, e) /\ ~Removes(r, e)
  BY DEF Creates, Removes, Resting
<1>4. Good(e, x, h, g)
  BY <1>2, <1>3, Zenon DEF Good
<1> QED BY <1>1, <1>4

\* Nobody but t is at work on e, and t creates it then.
LEMMA GoodCreates ==
    ASSUME NEW t \in Clients, NEW f, f \in [Clients -> Env!Ensure], NEW r, NEW e, NEW x, NEW g,
           \A u \in Clients \ {t} : ~Creates(f[u], e) /\ ~Removes(f[u], e), ~Removes(g, e),
           r.pc \in {"install", "mark"}, Ready(x) => x.whole, r.pc = "mark" => x.whole
    PROVE  Good(e, x, [f EXCEPT ![t] = r], g)
<1>1. PICK h : h = [f EXCEPT ![t] = r]
  OBVIOUS
<1>2. h[t] = r /\ \A u \in Clients \ {t} : h[u] = f[u]
  BY <1>1, AfterIs
<1>3. ~Removes(r, e) /\ r.pc # "torn"
  BY DEF Removes
<1>4. Good(e, x, h, g)
  BY <1>2, <1>3, Zenon DEF Good
<1> QED BY <1>1, <1>4

\* t removes e, which nobody creates; a record that is still there is in front of it.
LEMMA GoodRemoves ==
    ASSUME NEW t \in Clients, NEW f, f \in [Clients -> Env!Ensure], NEW r, NEW e, NEW x, NEW y, NEW g, Good(e, y, f, g),
           \A u \in Clients : ~Creates(f[u], e), Removes(r, e), Ready(x) => Ready(y) /\ "record" \in r.left
    PROVE  Good(e, x, [f EXCEPT ![t] = r], g)
<1>1. PICK h : h = [f EXCEPT ![t] = r]
  OBVIOUS
<1>2. h[t] = r /\ \A u \in Clients \ {t} : h[u] = f[u]
  BY <1>1, AfterIs
<1>3. ~Creates(r, e)
  BY DEF Removes, Creates
<1>4. Good(e, x, h, g)
  BY <1>2, <1>3, Zenon DEF Good
<1> QED BY <1>1, <1>4

\* The end of a removal: what is left has no record that says ready.
LEMMA GoodGone ==
    ASSUME NEW t \in Clients, NEW f, f \in [Clients -> Env!Ensure], NEW r, NEW e, NEW x, NEW g,
           \A u \in Clients : ~Creates(f[u], e), r.pc \in Resting, ~Ready(x)
    PROVE  Good(e, x, [f EXCEPT ![t] = r], g)
<1>1. PICK h : h = [f EXCEPT ![t] = r]
  OBVIOUS
<1>2. h[t] = r /\ \A u \in Clients \ {t} : h[u] = f[u]
  BY <1>1, AfterIs
<1>3. ~Creates(r, e) /\ ~Removes(r, e)
  BY DEF Creates, Removes, Resting
<1>4. Good(e, x, h, g)
  BY <1>2, <1>3, Zenon DEF Good
<1> QED BY <1>1, <1>4

\* A thread rests before and after, or goes with nothing to say about e.
LEMMA GoodRests ==
    ASSUME NEW t \in Clients, NEW f, f \in [Clients -> Env!Ensure], NEW r, NEW e, NEW x, NEW g, Good(e, x, f, g),
           ~Removes(f[t], e), r.pc \in Resting
    PROVE  Good(e, x, [f EXCEPT ![t] = r], g)
<1>1. PICK h : h = [f EXCEPT ![t] = r]
  OBVIOUS
<1>2. h[t] = r /\ \A u \in Clients \ {t} : h[u] = f[u]
  BY <1>1, AfterIs
<1>3. ~Creates(r, e) /\ ~Removes(r, e)
  BY DEF Creates, Removes, Resting
<1>4. Good(e, x, h, g)
  BY <1>2, <1>3, Zenon DEF Good
<1> QED BY <1>1, <1>4

\* A step of one thread: it is enough to look at the environment it is about.
LEMMA ThreadKeeps ==
    ASSUME EnvInv, NEW t, NEW r, NEW e, NEW d, ThreadGoes(t, r, e, d),
           e \notin contested' => Good(e, d, [ensure EXCEPT ![t] = r], gc)
    PROVE  EnvInv'
<1>1. EnvTypeInv'
  BY ThreadTypes DEF EnvInv
<1>2. env \in [Envs -> Directories] /\ ensure \in [Clients -> Env!Ensure] /\ t \in Clients /\ e \in Envs
  BY EnvIs DEF EnvInv, ThreadGoes
<1>3. env'[e] = d /\ \A x \in Envs \ {e} : env'[x] = env[x]
  BY <1>2 DEF ThreadGoes
<1>4. gc' = gc /\ ensure' = [ensure EXCEPT ![t] = r]
  BY DEF ThreadGoes
<1>5. ASSUME NEW x \in Envs, x \notin contested' PROVE Good(x, env'[x], [ensure EXCEPT ![t] = r], gc)
  <2>1. CASE x = e
    BY <1>3, <1>5, <2>1
  <2>2. CASE x # e
    <3>1. Good(x, env[x], ensure, gc)
      BY <1>5, <2>2 DEF EnvInv, WholeInv, ThreadGoes
    <3>2. ~Creates(ensure[t], x) /\ ~Removes(ensure[t], x) /\ ~Creates(r, x) /\ ~Removes(r, x)
      BY <2>2 DEF ThreadGoes, Creates, Removes
    <3> QED BY <1>2, <1>3, <2>2, <3>1, <3>2, GoodElsewhere
  <2> QED BY <2>1, <2>2
<1>6. WholeInv'
  BY <1>4, <1>5 DEF WholeInv
<1> QED BY <1>1, <1>6 DEF EnvInv

\* What is known of the environment that a thread works on, unless it is contested.
LEMMA UndisturbedIs ==
    ASSUME EnvInv, NEW e \in Envs, e \notin contested
    PROVE  Good(e, env[e], ensure, gc)
  BY DEF EnvInv, WholeInv

-----------------------------------------------------------------------------
(* The steps of a thread                                                   *)

LEMMA DisturbIs ==
    ASSUME EnvInv, NEW e \in Envs, NEW b, Env!Disturb(e, b)
    PROVE  /\ contested' \subseteq Envs /\ contested \ {e} = contested' \ {e}
           /\ e \notin contested' => ~b /\ e \notin contested
  BY EnvIs DEF Env!Disturb, EnvInv

LEMMA MineIs ==
    ASSUME EnvInv, NEW t \in Clients, ensure[t].pc # "none"
    PROVE  Env!Mine(t) \in Envs /\ Env!Mine(t) = ensure[t].env
  BY DEF EnvInv, EnvTypeInv, HasEnvironment, Env!Mine

LEMMA DirectoryIs ==
    ASSUME EnvInv, NEW e \in Envs
    PROVE  env[e] \in Directories /\ (env[e] # Nothing => env[e] \in Env!Directory) /\ env = [env EXCEPT ![e] = env[e]]
  BY EnvIs DEF Directories, EnvInv

\* A thread that goes on without writing anything.
LEMMA QuietKeeps ==
    ASSUME EnvInv, NEW t \in Clients, NEW e \in Envs, NEW r \in Env!Ensure, r.pc \in Resting, r.pc # "none" => r.env = e,
           ensure[t].pc # "none" => ensure[t].env = e, ensure[t].pc # "remove",
           ensure' = [ensure EXCEPT ![t] = r],
           env' = env, gc' = gc, served' = served, crashes' = crashes, contested' = contested, recorded' \subseteq Envs
    PROVE  EnvInv'
<1>1. ThreadGoes(t, r, e, env[e])
  BY EnvIs, DirectoryIs DEF ThreadGoes, EnvInv
<1>2. ASSUME e \notin contested' PROVE Good(e, env[e], [ensure EXCEPT ![t] = r], gc)
  <2>1. ensure \in [Clients -> Env!Ensure] /\ Good(e, env[e], ensure, gc) /\ ~Removes(ensure[t], e)
    BY <1>2, EnvIs, UndisturbedIs DEF EnvInv, Removes
  <2> QED BY <2>1, GoodRests
<1> QED BY <1>1, <1>2, ThreadKeeps

LEMMA StartKeeps ==
    ASSUME EnvInv, NEW t \in Clients, NEW e \in Envs, NEW b \in BOOLEAN, Env!StartRemoval(t, e, b),
           ensure[t].pc # "none" => ensure[t].env = e,
           env' = env, gc' = gc, served' = served, crashes' = crashes, recorded' = recorded
    PROVE  EnvInv'
<1>1. PICK r : r = [pc |-> "remove", env |-> e, left |-> Env!Listed(e), forced |-> b]
  OBVIOUS
<1>2. r \in Env!Ensure /\ r.pc = "remove" /\ r.env = e /\ r.left = Env!Listed(e)
  BY <1>1, ListedIs DEF Env!Ensure, EnvInv
<1>3. ensure' = [ensure EXCEPT ![t] = r] /\ Env!Disturb(e, Env!Creators(e) # {})
  BY <1>1 DEF Env!StartRemoval
<1>4. ThreadGoes(t, r, e, env[e])
  BY <1>2, <1>3, EnvIs, DirectoryIs, DisturbIs DEF ThreadGoes, EnvInv
<1>5. ASSUME e \notin contested' PROVE Good(e, env[e], [ensure EXCEPT ![t] = r], gc)
  <2>1. e \notin contested /\ \A u \in Clients : ~Creates(ensure[u], e)
    BY <1>3, <1>5, DisturbIs, TermsAre
  <2>2. ensure \in [Clients -> Env!Ensure] /\ Good(e, env[e], ensure, gc)
    BY <2>1, EnvIs, UndisturbedIs DEF EnvInv
  <2>3. Removes(r, e) /\ (Ready(env[e]) => "record" \in r.left)
    BY <1>2, ListedIs DEF Removes, Ready, EnvInv
  <2> QED BY <2>1, <2>2, <2>3, GoodRemoves
<1> QED BY <1>4, <1>5, ThreadKeeps

LEMMA LooksKeep ==
    ASSUME EnvInv, NEW t \in Clients, NEW e \in Envs,
           Env!Force(t, e) \/ Env!Reuse(t, e) \/ Env!Wipe(t, e) \/ Env!Absent(t, e)
    PROVE  EnvInv'
<1>1. ensure[t].pc \in {"none", "check"} /\ (ensure[t].pc # "none" => ensure[t].env = e)
  BY DEF Env!Force, Env!Reuse, Env!Wipe, Env!Absent, Env!Looks, Env!At, Env!Mine
<1>2. CASE Env!Force(t, e) \/ Env!Wipe(t, e)
  <2>1. PICK b \in BOOLEAN : Env!StartRemoval(t, e, b)
    BY <1>2 DEF Env!Force, Env!Wipe
  <2>2. env' = env /\ gc' = gc /\ served' = served /\ crashes' = crashes /\ recorded' = recorded
    BY <1>2 DEF Env!Force, Env!Wipe, Env!rowVars
  <2> QED BY <1>1, <2>1, <2>2, StartKeeps
<1>3. CASE Env!Reuse(t, e) \/ Env!Absent(t, e)
  <2>1. PICK pc \in {"touch", "make"} : Env!Step(t, pc, e)
    BY <1>3 DEF Env!Reuse, Env!Absent
  <2>2. /\ env' = env /\ gc' = gc /\ served' = served /\ crashes' = crashes /\ contested' = contested /\ recorded' \subseteq Envs
        /\ ensure' = [ensure EXCEPT ![t] = At(pc, e)]
    BY <1>3, <2>1, StepIs, EnvIs DEF Env!Reuse, Env!Absent, Env!rowVars, EnvInv
  <2>3. At(pc, e) \in Env!Ensure /\ At(pc, e).pc \in Resting /\ At(pc, e).env = e
    BY AtIs DEF Resting
  <2> QED BY <1>1, <2>2, <2>3, QuietKeeps
<1> QED BY <1>2, <1>3

LEMMA TouchKeeps ==
    ASSUME EnvInv, NEW t \in Clients, Env!Touch(t)
    PROVE  EnvInv'
<1>1. PICK e \in Envs : e = Env!Mine(t) /\ ensure[t].env = e /\ ensure[t].pc = "touch"
  BY MineIs DEF Env!Touch, Env!At
<1>2. env[e] \in Env!Directory
  BY <1>1, DirectoryIs DEF Env!Touch
<1>3. PICK x : x = env[e]
  OBVIOUS
<1>4. PICK d : d = [x EXCEPT !.status = "ready", !.old = FALSE]
  OBVIOUS
<1>5. d \in Env!Directory /\ d.whole = x.whole
  BY <1>2, <1>3, <1>4 DEF Env!Directory, Env!Status
<1>6. env' = [env EXCEPT ![e] = d]
  <2>1. env' = [env EXCEPT ![e] = [env[e] EXCEPT !.status = "ready", !.old = FALSE]]
    BY <1>1, EnvIs DEF Env!Touch, EnvInv
  <2> QED BY <1>3, <1>4, <2>1, Zenon
<1>7. Env!Disturb(e, Env!Creators(e) # {} \/ Env!BeingRemoved(e) \/ ~Env!Reusable(e))
  BY <1>1 DEF Env!Touch
<1>8. /\ gc' = gc /\ served' = served /\ crashes' = crashes /\ recorded' = recorded
      /\ ensure' = [ensure EXCEPT ![t] = At("record", e)]
  BY <1>1, StepIs DEF Env!Touch, Env!rowVars
<1>9. PICK r \in Env!Ensure : r = At("record", e) /\ r.pc = "record" /\ r.env = e
  BY AtIs
<1>10. ThreadGoes(t, r, e, d)
  BY <1>1, <1>5, <1>6, <1>7, <1>8, <1>9, EnvIs, DisturbIs DEF ThreadGoes, EnvInv, Directories
<1>11. ASSUME e \notin contested' PROVE Good(e, d, [ensure EXCEPT ![t] = r], gc)
  <2>1. e \notin contested /\ Env!Creators(e) = {} /\ ~Env!BeingRemoved(e) /\ Env!Reusable(e)
    BY <1>7, <1>11, DisturbIs
  <2>2. /\ \A u \in Clients : ~Creates(ensure[u], e) /\ ~Removes(ensure[u], e)
        /\ ~Removes(gc, e) /\ Ready(x)
    BY <1>3, <2>1, TermsAre
  <2>3. x.whole
    BY <1>3, <2>1, <2>2, UndisturbedIs DEF Good
  <2>4. ensure \in [Clients -> Env!Ensure] /\ r.pc \in Resting /\ d.whole
    BY <1>5, <1>9, <2>3, EnvIs DEF EnvInv, Resting
  <2> QED BY <2>2, <2>4, GoodAlone
<1> QED BY <1>10, <1>11, ThreadKeeps

LEMMA MakeKeeps ==
    ASSUME EnvInv, NEW t \in Clients, Env!Make(t)
    PROVE  EnvInv'
<1>1. PICK e \in Envs : e = Env!Mine(t) /\ ensure[t].env = e /\ ensure[t].pc = "make"
  BY MineIs DEF Env!Make, Env!At
<1>2. PICK w \in BOOLEAN : w = (env[e] # Nothing /\ env[e].whole)
  BY DirectoryIs DEF Env!Directory
<1>3. PICK d : d = [status |-> "creating", old |-> FALSE, whole |-> w]
  OBVIOUS
<1>4. d \in Env!Directory /\ ~Ready(d)
  BY <1>3 DEF Env!Directory, Env!Status, Ready
<1>5. env' = [env EXCEPT ![e] = d]
  <2>1. env' = [env EXCEPT ![e] = [status |-> "creating", old |-> FALSE, whole |-> (env[e] # Nothing /\ env[e].whole)]]
    BY <1>1 DEF Env!Make
  <2> QED BY <1>2, <1>3, <2>1, Zenon
<1>6. Env!Disturb(e, Env!Creators(e) # {} \/ Env!BeingRemoved(e))
  BY <1>1 DEF Env!Make
<1>7. /\ gc' = gc /\ served' = served /\ crashes' = crashes /\ recorded' = recorded
      /\ ensure' = [ensure EXCEPT ![t] = At("install", e)]
  BY <1>1, StepIs DEF Env!Make, Env!rowVars
<1>8. PICK r \in Env!Ensure : r = At("install", e) /\ r.pc = "install" /\ r.env = e
  BY AtIs
<1>9. ThreadGoes(t, r, e, d)
  BY <1>1, <1>4, <1>5, <1>6, <1>7, <1>8, EnvIs, DisturbIs DEF ThreadGoes, EnvInv, Directories
<1>10. ASSUME e \notin contested' PROVE Good(e, d, [ensure EXCEPT ![t] = r], gc)
  <2>1. Env!Creators(e) = {} /\ ~Env!BeingRemoved(e)
    BY <1>6, <1>10, DisturbIs
  <2>2. (\A u \in Clients : ~Creates(ensure[u], e) /\ ~Removes(ensure[u], e)) /\ ~Removes(gc, e)
    BY <2>1, TermsAre
  <2>3. ensure \in [Clients -> Env!Ensure]
    BY EnvIs DEF EnvInv
  <2> QED BY <1>4, <1>8, <2>2, <2>3, GoodCreates
<1> QED BY <1>9, <1>10, ThreadKeeps

\* A creator that nobody has disturbed is alone, and its files are there.
LEMMA CreatorIs ==
    ASSUME EnvInv, NEW t \in Clients, NEW e \in Envs, e \notin contested, ensure[t].env = e, ensure[t].pc \in {"install", "torn", "mark"}
    PROVE  /\ \A u \in Clients \ {t} : ~Creates(ensure[u], e) /\ ~Removes(ensure[u], e)
           /\ ~Removes(gc, e) /\ ensure[t].pc # "torn" /\ (ensure[t].pc = "mark" => env[e].whole)
<1>1. Creates(ensure[t], e)
  BY DEF Creates
<1> QED BY <1>1, UndisturbedIs DEF Good

LEMMA InstallKeeps ==
    ASSUME EnvInv, NEW t \in Clients, Env!Install(t)
    PROVE  EnvInv'
<1>1. PICK e \in Envs : e = Env!Mine(t) /\ ensure[t].env = e /\ ensure[t].pc \in {"install", "torn"}
  BY MineIs DEF Env!Install, Env!At
<1>2. env[e] \in Env!Directory
  BY <1>1, DirectoryIs DEF Env!Install
<1>3. PICK x : x = env[e]
  OBVIOUS
<1>4. PICK all \in BOOLEAN : /\ env' = [env EXCEPT ![e] = [env[e] EXCEPT !.whole = all]]
                             /\ ensure[t].pc = "install" => all
  BY <1>1, EnvIs DEF Env!Install, Env!At, EnvInv
<1>5. PICK d : d = [x EXCEPT !.whole = all]
  OBVIOUS
<1>6. d \in Env!Directory /\ d.whole = all /\ env' = [env EXCEPT ![e] = d]
  <2>1. d \in Env!Directory /\ d.whole = all
    BY <1>2, <1>3, <1>5 DEF Env!Directory
  <2> QED BY <1>3, <1>4, <1>5, <2>1, Zenon
<1>7. /\ gc' = gc /\ served' = served /\ crashes' = crashes /\ recorded' = recorded /\ contested' = contested
      /\ ensure' = [ensure EXCEPT ![t] = At("mark", e)]
  BY <1>1, StepIs DEF Env!Install, Env!rowVars
<1>8. PICK r \in Env!Ensure : r = At("mark", e) /\ r.pc = "mark" /\ r.env = e
  BY AtIs
<1>9. ThreadGoes(t, r, e, d)
  BY <1>1, <1>6, <1>7, <1>8, EnvIs DEF ThreadGoes, EnvInv, Directories
<1>10. ASSUME e \notin contested' PROVE Good(e, d, [ensure EXCEPT ![t] = r], gc)
  <2>1. /\ \A u \in Clients \ {t} : ~Creates(ensure[u], e) /\ ~Removes(ensure[u], e)
        /\ ~Removes(gc, e) /\ d.whole
    BY <1>1, <1>4, <1>6, <1>7, <1>10, CreatorIs
  <2>2. ensure \in [Clients -> Env!Ensure]
    BY EnvIs DEF EnvInv
  <2> QED BY <1>8, <2>1, <2>2, GoodCreates
<1> QED BY <1>9, <1>10, ThreadKeeps

\* The mark, or the failure, of a creator.
LEMMA CreatorEnds ==
    ASSUME EnvInv, NEW t \in Clients, NEW e \in Envs, ensure[t].env = e, ensure[t].pc \in {"install", "torn", "mark"},
           NEW r \in Env!Ensure, r.pc \in {"none", "record"}, r.pc # "none" => r.env = e, NEW d \in Env!Directory,
           Ready(d) => ensure[t].pc = "mark" /\ d.whole = env[e].whole,
           ensure' = [ensure EXCEPT ![t] = r], env' = [env EXCEPT ![e] = d],
           gc' = gc, served' = served, crashes' = crashes, recorded' = recorded, contested' = contested
    PROVE  EnvInv'
<1>1. ThreadGoes(t, r, e, d)
  BY EnvIs DEF ThreadGoes, EnvInv, Directories
<1>2. ASSUME e \notin contested' PROVE Good(e, d, [ensure EXCEPT ![t] = r], gc)
  <2>1. /\ \A u \in Clients \ {t} : ~Creates(ensure[u], e) /\ ~Removes(ensure[u], e)
        /\ ~Removes(gc, e) /\ (Ready(d) => d.whole)
    BY <1>2, CreatorIs
  <2>2. ensure \in [Clients -> Env!Ensure] /\ r.pc \in Resting
    BY EnvIs DEF EnvInv, Resting
  <2> QED BY <2>1, <2>2, GoodAlone
<1> QED BY <1>1, <1>2, ThreadKeeps

LEMMA MarkKeeps ==
    ASSUME EnvInv, NEW t \in Clients, Env!Mark(t)
    PROVE  EnvInv'
<1>1. PICK e \in Envs : e = Env!Mine(t) /\ ensure[t].env = e /\ ensure[t].pc = "mark"
  BY MineIs DEF Env!Mark, Env!At
<1>2. PICK x \in Env!Directory : x = env[e]
  BY <1>1, DirectoryIs DEF Env!Mark
<1>3. PICK d : d = [x EXCEPT !.status = "ready", !.old = FALSE]
  OBVIOUS
<1>4. d \in Env!Directory /\ d.whole = x.whole
  BY <1>2, <1>3 DEF Env!Directory, Env!Status
<1>5. env' = [env EXCEPT ![e] = d]
  <2>1. env' = [env EXCEPT ![e] = [env[e] EXCEPT !.status = "ready", !.old = FALSE]]
    BY <1>1, EnvIs DEF Env!Mark, EnvInv
  <2> QED BY <1>2, <1>3, <2>1, Zenon
<1>6. /\ gc' = gc /\ served' = served /\ crashes' = crashes /\ recorded' = recorded /\ contested' = contested
      /\ ensure' = [ensure EXCEPT ![t] = At("record", e)]
  BY <1>1, StepIs DEF Env!Mark, Env!rowVars
<1>7. PICK r \in Env!Ensure : r = At("record", e) /\ r.pc = "record" /\ r.env = e
  BY AtIs
<1> QED BY <1>1, <1>2, <1>4, <1>5, <1>6, <1>7, CreatorEnds

LEMMA InstallFailsKeeps ==
    ASSUME EnvInv, NEW t \in Clients, Env!InstallFails(t)
    PROVE  EnvInv'
<1>1. PICK e \in Envs : e = Env!Mine(t) /\ ensure[t].env = e /\ ensure[t].pc \in {"install", "torn"}
  BY MineIs DEF Env!InstallFails, Env!At
<1>2. PICK x \in Env!Directory : x = env[e]
  BY <1>1, DirectoryIs DEF Env!InstallFails
<1>3. PICK d : d = [x EXCEPT !.status = "failed"]
  OBVIOUS
<1>4. d \in Env!Directory /\ ~Ready(d)
  BY <1>2, <1>3 DEF Env!Directory, Env!Status, Ready
<1>5. env' = [env EXCEPT ![e] = d]
  <2>1. env' = [env EXCEPT ![e] = [env[e] EXCEPT !.status = "failed"]]
    BY <1>1, EnvIs DEF Env!InstallFails, EnvInv
  <2> QED BY <1>2, <1>3, <2>1, Zenon
<1>6. /\ gc' = gc /\ served' = served /\ crashes' = crashes /\ recorded' = recorded /\ contested' = contested
      /\ ensure' = [ensure EXCEPT ![t] = Env!NoEnsure]
  BY DEF Env!InstallFails, Env!Leave, Env!rowVars
<1>7. PICK r \in Env!Ensure : r = Env!NoEnsure /\ r.pc = "none"
  BY LeaveIs
<1> QED BY <1>1, <1>4, <1>5, <1>6, <1>7, CreatorEnds

LEMMA ThreadLeaves ==
    ASSUME EnvInv, NEW t \in Clients, Env!DirectoryGone(t) \/ Env!Record(t)
    PROVE  EnvInv'
<1>1. ensure[t].pc \notin {"none", "remove"}
  BY DEF Env!DirectoryGone, Env!Record, Env!At
<1>2. PICK e \in Envs : e = Env!Mine(t) /\ ensure[t].env = e
  BY <1>1, MineIs
<1>3. /\ env' = env /\ gc' = gc /\ served' = served /\ crashes' = crashes /\ contested' = contested
      /\ ensure' = [ensure EXCEPT ![t] = Env!NoEnsure]
  BY DEF Env!DirectoryGone, Env!Record, Env!Leave, Env!rowVars
<1>4. recorded' \subseteq Envs
  BY <1>2, EnvIs DEF Env!DirectoryGone, Env!Record, Env!rowVars, EnvInv
<1>5. Env!NoEnsure.pc \in Resting
  BY LeaveIs DEF Resting
<1> QED BY <1>1, <1>2, <1>3, <1>4, <1>5, LeaveIs, QuietKeeps

LEMMA RemoveLastKeeps ==
    ASSUME EnvInv, NEW t \in Clients, Env!RemoveLast(t)
    PROVE  EnvInv'
<1>1. PICK e \in Envs : e = Env!Mine(t) /\ ensure[t].env = e /\ ensure[t].pc = "remove" /\ ensure[t].left = {}
  BY MineIs DEF Env!RemoveLast, Env!At
<1>2. PICK alone : Env!RemoveDirectory(e, alone) /\ (alone => Env!Creators(e) = {})
  BY <1>1 DEF Env!RemoveLast
<1>3. PICK d \in {Nothing, env[e]} : /\ env' = [env EXCEPT ![e] = d] /\ d \in Directories
                                     /\ contested' \in {contested, contested \ {e}}
                                     /\ contested' # contested => d = Nothing /\ alone
  BY <1>2, RemovedIs DEF EnvInv
<1>4. PICK pc \in {"check", "make"} : Env!Step(t, pc, e)
  BY <1>1 DEF Env!RemoveLast
<1>5. gc' = gc /\ served' = served /\ crashes' = crashes /\ recorded' = recorded /\ ensure' = [ensure EXCEPT ![t] = At(pc, e)]
  BY <1>4, StepIs DEF Env!RemoveLast, Env!rowVars
<1>6. PICK r \in Env!Ensure : r = At(pc, e) /\ r.pc \in Resting /\ r.env = e
  BY AtIs DEF Resting
<1>7. ThreadGoes(t, r, e, d)
  BY <1>1, <1>3, <1>5, <1>6, EnvIs DEF ThreadGoes, EnvInv
<1>8. ASSUME e \notin contested' PROVE Good(e, d, [ensure EXCEPT ![t] = r], gc)
  <2>1. ensure \in [Clients -> Env!Ensure]
    BY EnvIs DEF EnvInv
  <2>2. CASE e \in contested
    <3>1. d = Nothing /\ alone
      BY <1>3, <1>8, <2>2
    <3>2. ~Ready(d) /\ \A u \in Clients : ~Creates(ensure[u], e)
      BY <1>2, <3>1, TermsAre DEF Ready
    <3> QED BY <1>6, <2>1, <3>2, GoodGone
  <2>3. CASE e \notin contested
    <3>1. Good(e, env[e], ensure, gc) /\ Removes(ensure[t], e)
      BY <1>1, <2>3, UndisturbedIs DEF Removes
    <3>2. ~Ready(env[e]) /\ \A u \in Clients : ~Creates(ensure[u], e)
      BY <1>1, <3>1 DEF Good
    <3>3. ~Ready(d)
      BY <1>3, <3>2 DEF Ready
    <3> QED BY <1>6, <2>1, <3>2, <3>3, GoodGone
  <2> QED BY <2>2, <2>3
<1> QED BY <1>7, <1>8, ThreadKeeps

-----------------------------------------------------------------------------
(* Steps that touch several threads, and those of the collector            *)

LEMMA GoodApart ==
    ASSUME NEW x, NEW d, NEW f, NEW g, Good(x, d, f, g), NEW e, x # e, NEW h, NEW k,
           \A u \in Clients : h[u] = f[u] \/ (f[u].env = e /\ h[u].env = e),
           k = g \/ (~Removes(g, x) /\ ~Removes(k, x))
    PROVE  Good(x, d, h, k)
<1>1. \A u \in Clients : /\ Creates(h[u], x) <=> Creates(f[u], x)
                         /\ Removes(h[u], x) <=> Removes(f[u], x)
                         /\ Creates(f[u], x) \/ Removes(f[u], x) => h[u] = f[u]
  BY DEF Creates, Removes
<1>2. (Removes(k, x) <=> Removes(g, x)) /\ (Removes(g, x) => k = g)
  OBVIOUS
<1> QED BY <1>1, <1>2, Zenon DEF Good

LEMMA MoreKeeps ==
    ASSUME EnvInv, EnvTypeInv', NEW e \in Envs,
           \A x \in Envs \ {e} : env'[x] = env[x],
           \A u \in Clients : ensure'[u] = ensure[u] \/ (ensure[u].env = e /\ ensure'[u].env = e),
           \A x \in Envs \ {e} : gc' = gc \/ (~Removes(gc, x) /\ ~Removes(gc', x)),
           contested \ {e} = contested' \ {e},
           e \notin contested' => Good(e, env'[e], ensure', gc')
    PROVE  EnvInv'
<1>1. ASSUME NEW x \in Envs, x \notin contested' PROVE Good(x, env'[x], ensure', gc')
  <2>1. CASE x = e
    BY <1>1, <2>1
  <2>2. CASE x # e
    <3>1. Good(x, env[x], ensure, gc)
      BY <1>1, <2>2, UndisturbedIs
    <3>2. PICK h, k : h = ensure' /\ k = gc'
      OBVIOUS
    <3>3. Good(x, env[x], h, k)
      BY <2>2, <3>1, <3>2, GoodApart
    <3> QED BY <2>2, <3>2, <3>3
  <2> QED BY <2>1, <2>2
<1>2. WholeInv'
  BY <1>1 DEF WholeInv
<1> QED BY <1>2 DEF EnvInv

\* Nothing is torn where nobody creates.
LEMMA NothingTorn ==
    ASSUME EnvInv, NEW e \in Envs, NEW part, Env!Creators(e) = {}
    PROVE  Env!Torn(e, part) = ensure
<1>1. \A u \in Clients : ~(part = "contents" /\ ensure[u].env = e /\ ensure[u].pc = "install")
  BY TermsAre DEF Creates
<1>2. Env!Torn(e, part) = [u \in Clients |-> ensure[u]]
  BY <1>1 DEF Env!Torn
<1> QED BY <1>2, EnvIs DEF EnvInv

LEMMA RemoveSomeKeeps ==
    ASSUME EnvInv, NEW t \in Clients, Env!RemoveSome(t)
    PROVE  EnvInv'
<1>1. PICK e \in Envs : e = Env!Mine(t) /\ ensure[t].env = e /\ ensure[t].pc = "remove"
  BY MineIs DEF Env!RemoveSome, Env!At
<1>2. PICK part \in ensure[t].left : /\ env' = [env EXCEPT ![e] = Env!Without(e, part)]
                                     /\ ensure' = [Env!Torn(e, part) EXCEPT ![t].left = @ \ {part}]
  BY <1>1 DEF Env!RemoveSome
<1>3. ensure[t] \in Env!Ensure /\ part \in Env!Parts
  BY <1>2, EnvIs DEF EnvInv, Env!Ensure
<1>4. PICK d \in Directories : d = Env!Without(e, part) /\ (Ready(d) => part # "record" /\ Ready(env[e]))
  BY <1>3, WithoutIs DEF EnvInv, Ready
<1>5. PICK f : f = Env!Torn(e, part)
  OBVIOUS
<1>6. /\ f \in [Clients -> Env!Ensure]
      /\ \A u \in Clients : f[u].env = ensure[u].env /\ f[u].left = ensure[u].left
      /\ \A u \in Clients : f[u].pc = ensure[u].pc \/ (ensure[u].env = e /\ ensure[u].pc = "install" /\ f[u].pc = "torn")
  BY <1>5, TornIs DEF EnvInv
<1>7. PICK y : y = f[t]
  OBVIOUS
<1>8. PICK r : r = [y EXCEPT !.left = y.left \ {part}]
  OBVIOUS
<1>9. y \in Env!Ensure /\ y.env = e /\ y.pc = "remove" /\ y.left = ensure[t].left
  BY <1>1, <1>6, <1>7
<1>10. r \in Env!Ensure /\ r.env = e /\ r.pc = "remove" /\ r.left = ensure[t].left \ {part}
  BY <1>8, <1>9 DEF Env!Ensure
<1>11. ensure' = [f EXCEPT ![t] = r]
  BY <1>2, <1>5, <1>6, <1>7, <1>8
<1>12. Env!Disturb(e, Env!Creators(e) # {}) /\ gc' = gc /\ served' = served /\ recorded' = recorded /\ crashes' = crashes
  BY <1>1 DEF Env!RemoveSome, Env!rowVars
<1>13. env' = [env EXCEPT ![e] = d]
  BY <1>2, <1>4
<1>14. EnvTypeInv'
  <2>1. ensure' \in [Clients -> Env!Ensure] /\ \A u \in Clients : ensure'[u].pc # "none" => ensure'[u].env \in Envs
    BY <1>6, <1>10, <1>11, EnvIs DEF EnvInv, EnvTypeInv, HasEnvironment
  <2>2. env' \in [Envs -> Directories] /\ contested' \subseteq Envs
    BY <1>12, <1>13, EnvIs, DisturbIs DEF EnvInv
  <2> QED BY <1>12, <2>1, <2>2, EnvIs DEF EnvInv, EnvTypeInv, HasEnvironment, Env!TypeOK, Directories
<1>15. env'[e] = d /\ \A x \in Envs \ {e} : env'[x] = env[x]
  BY <1>13, EnvIs DEF EnvInv
<1>16. ASSUME NEW u \in Clients PROVE ensure'[u] = ensure[u] \/ (ensure[u].env = e /\ ensure'[u].env = e)
  <2>1. CASE ensure[u].env = e
    BY <1>6, <1>10, <1>11, <2>1
  <2>2. CASE ensure[u].env # e
    <3>1. u # t /\ f[u] = ensure[u]
      BY <1>1, <1>5, <2>2 DEF Env!Torn
    <3> QED BY <1>6, <1>11, <3>1
  <2> QED BY <2>1, <2>2
<1>17. ASSUME e \notin contested' PROVE Good(e, env'[e], ensure', gc')
  <2>1. e \notin contested /\ Env!Creators(e) = {}
    BY <1>12, <1>17, DisturbIs
  <2>2. f = ensure /\ (\A u \in Clients : ~Creates(ensure[u], e)) /\ Good(e, env[e], ensure, gc)
    BY <1>5, <2>1, NothingTorn, TermsAre, UndisturbedIs
  <2>3. ensure \in [Clients -> Env!Ensure] /\ Removes(r, e) /\ Removes(ensure[t], e)
    BY <1>1, <1>10, EnvIs DEF EnvInv, Removes
  <2>4. Ready(d) => Ready(env[e]) /\ "record" \in r.left
    BY <1>4, <1>10, <2>2, <2>3 DEF Good
  <2>5. Good(e, d, [ensure EXCEPT ![t] = r], gc)
    BY <2>2, <2>3, <2>4, GoodRemoves
  <2>6. ensure' = [ensure EXCEPT ![t] = r] /\ env'[e] = d /\ gc' = gc
    BY <1>11, <1>12, <1>15, <2>2
  <2> QED BY <2>5, <2>6
<1>18. contested \ {e} = contested' \ {e}
  BY <1>12, DisturbIs
<1> QED BY <1>12, <1>14, <1>15, <1>16, <1>17, <1>18, MoreKeeps

LEMMA EvictKeeps ==
    ASSUME EnvInv, NEW e \in Envs, Env!Evict(e)
    PROVE  EnvInv'
<1>1. PICK g : g = [gc EXCEPT !.pc = "remove", !.todo = gc.todo \ {e}, !.env = e, !.left = Env!Listed(e)]
  OBVIOUS
<1>2. gc \in Env!Pass /\ gc.pc = "evict" /\ Env!Listed(e) \subseteq Env!Parts
  BY EnvIs, ListedIs DEF EnvInv, Env!Evict
<1>3. g = [pc |-> "remove", refs |-> gc.refs, todo |-> gc.todo \ {e}, env |-> e, left |-> Env!Listed(e)]
  BY <1>1, <1>2 DEF Env!Pass
<1>4. g \in Env!Pass /\ g.pc = "remove" /\ g.env = e /\ g.left = Env!Listed(e)
  BY <1>2, <1>3 DEF Env!Pass
<1>5. gc' = g
  BY <1>1 DEF Env!Evict
<1>6. Env!Disturb(e, Env!Creators(e) # {}) /\ UNCHANGED <<env, ensure, served, recorded, crashes>>
  BY DEF Env!Evict, Env!rowVars
<1>7. EnvTypeInv'
  BY <1>4, <1>5, <1>6, EnvIs, DisturbIs DEF EnvInv, EnvTypeInv, HasEnvironment, Env!TypeOK, Directories
<1>8. \A x \in Envs \ {e} : ~Removes(gc, x) /\ ~Removes(gc', x)
  BY <1>2, <1>4, <1>5 DEF Removes
<1>9. ASSUME e \notin contested' PROVE Good(e, env'[e], ensure', gc')
  <2>1. e \notin contested /\ Env!Creators(e) = {}
    BY <1>6, <1>9, DisturbIs
  <2>2. (\A u \in Clients : ~Creates(ensure[u], e)) /\ Good(e, env[e], ensure, gc)
    BY <2>1, TermsAre, UndisturbedIs
  <2>3. Removes(g, e) /\ (Ready(env[e]) => "record" \in g.left)
    BY <1>4, ListedIs DEF EnvInv, Removes, Ready
  <2>4. Good(e, env[e], ensure, g)
    BY <2>2, <2>3, Zenon DEF Good
  <2> QED BY <1>5, <1>6, <2>4
<1> QED BY <1>6, <1>7, <1>8, <1>9, DisturbIs, MoreKeeps

LEMMA EvictSomeKeeps ==
    ASSUME EnvInv, Env!EvictSome
    PROVE  EnvInv'
<1>1. PICK e \in Envs : e = gc.env /\ gc.pc = "remove"
  BY DEF Env!EvictSome, EnvInv, EnvTypeInv, HasEnvironment
<1>2. PICK part \in gc.left : /\ env' = [env EXCEPT ![e] = Env!Without(e, part)] /\ ensure' = Env!Torn(e, part)
                              /\ gc' = [gc EXCEPT !.left = gc.left \ {part}]
  BY <1>1 DEF Env!EvictSome
<1>3. gc \in Env!Pass /\ part \in Env!Parts
  BY <1>2, EnvIs DEF EnvInv, Env!Pass
<1>4. PICK d \in Directories : d = Env!Without(e, part) /\ (Ready(d) => part # "record" /\ Ready(env[e]))
  BY <1>3, WithoutIs DEF EnvInv, Ready
<1>5. PICK g : g = [gc EXCEPT !.left = gc.left \ {part}]
  OBVIOUS
<1>6. g \in Env!Pass /\ g.pc = "remove" /\ g.env = e /\ g.left = gc.left \ {part}
  BY <1>1, <1>3, <1>5 DEF Env!Pass
<1>7. gc' = g /\ env' = [env EXCEPT ![e] = d]
  BY <1>2, <1>4, <1>5
<1>8. /\ ensure' \in [Clients -> Env!Ensure]
      /\ \A u \in Clients : ensure'[u].env = ensure[u].env
      /\ \A u \in Clients : ensure'[u].pc = ensure[u].pc \/ (ensure[u].env = e /\ ensure[u].pc = "install")
  BY <1>2, TornIs DEF EnvInv
<1>9. Env!Disturb(e, Env!Creators(e) # {}) /\ UNCHANGED <<served, recorded, crashes>>
  BY <1>1 DEF Env!EvictSome, Env!rowVars
<1>10. EnvTypeInv'
  <2>1. \A u \in Clients : ensure'[u].pc # "none" => ensure'[u].env \in Envs
    BY <1>8 DEF EnvInv, EnvTypeInv, HasEnvironment
  <2>2. env' \in [Envs -> Directories] /\ contested' \subseteq Envs
    BY <1>7, <1>9, EnvIs, DisturbIs DEF EnvInv
  <2> QED BY <1>6, <1>7, <1>8, <1>9, <2>1, <2>2, EnvIs DEF EnvInv, EnvTypeInv, HasEnvironment, Env!TypeOK, Directories
<1>11. env'[e] = d /\ \A x \in Envs \ {e} : env'[x] = env[x]
  BY <1>7, EnvIs DEF EnvInv
<1>12. ASSUME NEW u \in Clients PROVE ensure'[u] = ensure[u] \/ (ensure[u].env = e /\ ensure'[u].env = e)
  BY <1>2, <1>8 DEF Env!Torn
<1>13. \A x \in Envs \ {e} : ~Removes(gc, x) /\ ~Removes(gc', x)
  BY <1>1, <1>6, <1>7 DEF Removes
<1>14. ASSUME e \notin contested' PROVE Good(e, env'[e], ensure', gc')
  <2>1. e \notin contested /\ Env!Creators(e) = {}
    BY <1>9, <1>14, DisturbIs
  <2>2. ensure' = ensure /\ (\A u \in Clients : ~Creates(ensure[u], e)) /\ Good(e, env[e], ensure, gc)
    BY <1>2, <2>1, NothingTorn, TermsAre, UndisturbedIs
  <2>3. Removes(g, e) /\ Removes(gc, e)
    BY <1>1, <1>6 DEF Removes
  <2>4. Ready(d) => Ready(env[e]) /\ "record" \in g.left
    BY <1>4, <1>6, <2>2, <2>3 DEF Good
  <2>5. Good(e, d, ensure, g)
    BY <2>2, <2>3, <2>4, Zenon DEF Good
  <2> QED BY <1>7, <1>11, <2>2, <2>5
<1> QED BY <1>9, <1>10, <1>11, <1>12, <1>13, <1>14, DisturbIs, MoreKeeps

LEMMA EvictLastKeeps ==
    ASSUME EnvInv, Env!EvictLast
    PROVE  EnvInv'
<1>1. PICK e \in Envs : e = gc.env /\ gc.pc = "remove" /\ gc.left = {}
  BY DEF Env!EvictLast, EnvInv, EnvTypeInv, HasEnvironment
<1>2. PICK alone : Env!RemoveDirectory(e, alone) /\ (alone => Env!Creators(e) = {} /\ Env!Removers(e) = {})
  BY <1>1 DEF Env!EvictLast
<1>3. PICK d \in {Nothing, env[e]} : /\ env' = [env EXCEPT ![e] = d] /\ d \in Directories
                                     /\ contested' \in {contested, contested \ {e}}
                                     /\ contested' # contested => d = Nothing /\ alone
  BY <1>2, RemovedIs DEF EnvInv
<1>4. PICK g : g = [Env!NoPass EXCEPT !.pc = "evict", !.todo = gc.todo]
  OBVIOUS
<1>5. g = [pc |-> "evict", refs |-> {}, todo |-> gc.todo, env |-> Nothing, left |-> {}]
  BY <1>4 DEF Env!NoPass
<1>6. g \in Env!Pass /\ g.pc = "evict"
  BY <1>5, EnvIs DEF Env!Pass, EnvInv
<1>7. gc' = g /\ UNCHANGED <<ensure, served, recorded, crashes>>
  BY <1>4 DEF Env!EvictLast, Env!rowVars
<1>8. env' \in [Envs -> Directories] /\ contested' \subseteq Envs /\ contested \ {e} = contested' \ {e}
  BY <1>3, EnvIs DEF EnvInv
<1>9. EnvTypeInv'
  BY <1>6, <1>7, <1>8, EnvIs DEF EnvInv, EnvTypeInv, HasEnvironment, Env!TypeOK, Directories
<1>10. env'[e] = d /\ \A x \in Envs \ {e} : env'[x] = env[x]
  BY <1>3, EnvIs DEF EnvInv
<1>11. \A x \in Envs : ~Removes(g, x) /\ (x # e => ~Removes(gc, x))
  BY <1>1, <1>6 DEF Removes
<1>12. ASSUME e \notin contested' PROVE Good(e, env'[e], ensure', gc')
  <2>1. CASE e \in contested
    <3>1. d = Nothing /\ alone
      BY <1>3, <1>12, <2>1
    <3>2. ~Ready(d) /\ \A u \in Clients : ~Creates(ensure[u], e)
      BY <1>2, <3>1, TermsAre DEF Ready
    <3>3. Good(e, d, ensure, g)
      BY <1>11, <3>2, Zenon DEF Good
    <3> QED BY <1>7, <1>10, <3>3
  <2>2. CASE e \notin contested
    <3>1. Good(e, env[e], ensure, gc) /\ Removes(gc, e)
      BY <1>1, <2>2, UndisturbedIs DEF Removes
    <3>2. ~Ready(env[e]) /\ \A u \in Clients : ~Creates(ensure[u], e)
      BY <1>1, <3>1 DEF Good
    <3>3. ~Ready(d)
      BY <1>3, <3>2 DEF Ready
    <3>4. Good(e, d, ensure, g)
      BY <1>11, <3>2, <3>3, Zenon DEF Good
    <3> QED BY <1>7, <1>10, <3>4
  <2> QED BY <2>1, <2>2
<1> QED BY <1>7, <1>8, <1>9, <1>10, <1>11, <1>12, MoreKeeps

\* The collector reads, lists, or is through.
LEMMA PassKeeps ==
    ASSUME EnvInv, Env!CollectorReadsReferences \/ Env!CollectorLists \/ Env!CollectorEnds
    PROVE  EnvInv'
<1>1. UNCHANGED <<env, ensure, recorded, served, contested, crashes>>
  BY DEF Env!CollectorReadsReferences, Env!CollectorLists, Env!CollectorEnds, Env!rowVars
<1>2. gc \in Env!Pass /\ served \subseteq Envs /\ Env!Eligible \subseteq Envs
  BY EnvIs DEF EnvInv, Env!Eligible
<1>3. gc.pc # "remove"
  BY DEF Env!CollectorReadsReferences, Env!CollectorLists, Env!CollectorEnds
<1>4. gc' \in Env!Pass /\ gc'.pc # "remove"
  <2>1. CASE Env!CollectorReadsReferences
    BY <1>2, <2>1 DEF Env!CollectorReadsReferences, Env!Pass
  <2>2. CASE Env!CollectorLists
    <3>1. PICK g : g = [Env!NoPass EXCEPT !.pc = "evict", !.todo = Env!Eligible]
      OBVIOUS
    <3>2. g = [pc |-> "evict", refs |-> {}, todo |-> Env!Eligible, env |-> Nothing, left |-> {}]
      BY <3>1 DEF Env!NoPass
    <3> QED BY <1>2, <2>2, <3>1, <3>2 DEF Env!CollectorLists, Env!Pass
  <2>3. CASE Env!CollectorEnds
    BY <2>3 DEF Env!CollectorEnds, Env!NoPass, Env!Pass
  <2> QED BY <2>1, <2>2, <2>3
<1>5. EnvTypeInv'
  BY <1>1, <1>4 DEF EnvInv, EnvTypeInv, HasEnvironment, Env!TypeOK
<1>6. PICK g : g = gc'
  OBVIOUS
<1>7. ASSUME NEW x \in Envs, x \notin contested PROVE Good(x, env[x], ensure, g)
  <2>1. ~Removes(gc, x) /\ ~Removes(g, x) /\ Good(x, env[x], ensure, gc)
    BY <1>3, <1>4, <1>6, <1>7, UndisturbedIs DEF Removes
  <2> QED BY <2>1, Zenon DEF Good
<1>8. WholeInv'
  BY <1>1, <1>6, <1>7 DEF WholeInv
<1> QED BY <1>5, <1>8 DEF EnvInv

LEMMA InvalidateEnvKeeps ==
    ASSUME EnvInv, NEW e \in Envs, Env!Invalidate(e) \/ Env!GrowsOld(e)
    PROVE  EnvInv'
<1>1. UNCHANGED <<ensure, gc, served, recorded, contested, crashes>>
  BY DEF Env!Invalidate, Env!GrowsOld, Env!rowVars
<1>2. PICK x \in Env!Directory : x = env[e]
  BY DirectoryIs DEF Env!Invalidate, Env!GrowsOld
<1>3. PICK d \in {[x EXCEPT !.status = "invalidated"], [x EXCEPT !.old = TRUE]} : env' = [env EXCEPT ![e] = d]
  <2>1. \/ env' = [env EXCEPT ![e] = [env[e] EXCEPT !.status = "invalidated"]]
        \/ env' = [env EXCEPT ![e] = [env[e] EXCEPT !.old = TRUE]]
    BY EnvIs DEF Env!Invalidate, Env!GrowsOld, EnvInv
  <2> QED BY <1>2, <2>1
<1>4. d \in Env!Directory /\ d.whole = x.whole /\ (Ready(d) => Ready(x))
  BY <1>2, <1>3, NothingIs DEF Env!Directory, Env!Status, Ready
<1>5. env'[e] = d /\ (\A y \in Envs \ {e} : env'[y] = env[y]) /\ env' \in [Envs -> Directories]
  BY <1>3, <1>4, EnvIs DEF EnvInv, Directories
<1>6. EnvTypeInv'
  BY <1>1, <1>5 DEF EnvInv, EnvTypeInv, HasEnvironment, Env!TypeOK, Directories
<1>7. ASSUME e \notin contested' PROVE Good(e, env'[e], ensure', gc')
  <2>1. Good(e, x, ensure, gc)
    BY <1>1, <1>2, <1>7, UndisturbedIs
  <2>2. Good(e, d, ensure, gc)
    BY <1>4, <2>1, Zenon DEF Good
  <2> QED BY <1>1, <1>5, <2>2
<1> QED BY <1>1, <1>5, <1>6, <1>7, MoreKeeps

\* Nobody is at work after a death, and what was being removed has lost its record.
LEMMA EnvCrashKeeps ==
    ASSUME EnvInv, Env!Crash
    PROVE  EnvInv'
<1>1. /\ env' = env /\ served' = served /\ recorded' = recorded
      /\ ensure' = [t \in Clients |-> Env!NoEnsure] /\ gc' = Env!NoPass
      /\ contested' = contested \cup {e \in Envs : Env!RecordAwaitsRemoval(e)}
  BY DEF Env!Crash, Env!rowVars
<1>2. crashes' \in 0..MaxCrashes
  BY EnvIs, EnvironmentsAssumption DEF Env!Crash, EnvInv
<1>3. Env!NoPass \in Env!Pass /\ Env!NoPass.pc = "idle"
  BY DEF Env!NoPass, Env!Pass
<1>4. EnvTypeInv'
  BY <1>1, <1>2, <1>3, LeaveIs, EnvIs DEF EnvInv, EnvTypeInv, HasEnvironment, Env!TypeOK, Directories
<1>5. ASSUME NEW e \in Envs, e \notin contested' PROVE Good(e, env'[e], ensure', gc')
  <2>1. e \notin contested /\ ~Env!RecordAwaitsRemoval(e)
    BY <1>1, <1>5
  <2>2. /\ \A t \in Clients : Removes(ensure[t], e) => "record" \notin ensure[t].left
        /\ Removes(gc, e) => "record" \notin gc.left
    BY <2>1, TermsAre DEF Env!RecordAwaitsRemoval
  <2>3. Good(e, env[e], ensure, gc)
    BY <2>1, UndisturbedIs
  <2>4. Ready(env[e]) => env[e].whole
    BY <2>2, <2>3, Zenon DEF Good
  <2>5. PICK f, g : f = ensure' /\ g = gc'
    OBVIOUS
  <2>6. (\A t \in Clients : ~Creates(f[t], e) /\ ~Removes(f[t], e)) /\ ~Removes(g, e)
    BY <1>1, <1>3, <2>5, LeaveIs DEF Creates, Removes
  <2>7. Good(e, env[e], f, g)
    BY <2>4, <2>6, Zenon DEF Good
  <2> QED BY <1>1, <2>5, <2>7
<1>6. WholeInv'
  BY <1>5 DEF WholeInv
<1> QED BY <1>4, <1>6 DEF EnvInv

LEMMA EnvSame ==
    ASSUME EnvInv, UNCHANGED <<env, ensure, gc, contested, crashes>>, recorded' = recorded, served' \subseteq Envs
    PROVE  EnvInv'
<1>1. EnvTypeInv'
  BY DEF EnvInv, EnvTypeInv, HasEnvironment, Env!TypeOK
<1>2. WholeInv'
  BY DEF EnvInv, WholeInv
<1> QED BY <1>1, <1>2 DEF EnvInv

LEMMA EnvInit == Env!Init => EnvInv
<1> SUFFICES ASSUME Env!Init PROVE EnvInv
  OBVIOUS
<1>1. ASSUME NEW e \in Envs PROVE Good(e, env[e], ensure, gc)
  <2>1. ~Ready(env[e])
    BY <1>1 DEF Env!Init, Ready
  <2>2. (\A t \in Clients : ~Creates(ensure[t], e) /\ ~Removes(ensure[t], e)) /\ ~Removes(gc, e)
    BY LeaveIs DEF Env!Init, Creates, Removes, Env!NoPass
  <2> QED BY <2>1, <2>2, Zenon DEF Good
<1> QED BY <1>1, EnvTypeInit DEF EnvInv, WholeInv

LEMMA EnvStep == EnvInv /\ [Env!Next]_Env!vars => EnvInv'
<1> SUFFICES ASSUME EnvInv, [Env!Next]_Env!vars PROVE EnvInv'
  OBVIOUS
<1>1. ASSUME NEW t \in Clients, Env!EnsureStep(t) PROVE EnvInv'
  BY <1>1, LooksKeep, RemoveSomeKeeps, RemoveLastKeeps, TouchKeeps, MakeKeeps, InstallKeeps, MarkKeeps, InstallFailsKeeps, ThreadLeaves
     DEF Env!EnsureStep
<1>2. ASSUME NEW e \in Envs, Env!Invalidate(e) \/ Env!GrowsOld(e) PROVE EnvInv'
  BY <1>2, InvalidateEnvKeeps
<1>3. ASSUME NEW e \in Envs, Env!Serve(e) \/ Env!Release(e) PROVE EnvInv'
  <2>1. UNCHANGED <<env, ensure, gc, contested, crashes, recorded>>
    BY <1>3 DEF Env!Serve, Env!Release
  <2>2. served' \subseteq Envs
    BY <1>3, EnvIs DEF Env!Serve, Env!Release, EnvInv
  <2> QED BY <2>1, <2>2, EnvSame
<1>4. CASE Env!Collect
  BY <1>4, EvictKeeps, EvictSomeKeeps, EvictLastKeeps, PassKeeps DEF Env!Collect
<1>5. CASE Env!Crash
  BY <1>5, EnvCrashKeeps
<1>6. CASE UNCHANGED Env!vars
  <2>1. UNCHANGED <<env, ensure, gc, contested, crashes, recorded, served>>
    BY <1>6 DEF Env!vars
  <2> QED BY <2>1, EnvIs, EnvSame DEF EnvInv
<1> QED BY <1>1, <1>2, <1>3, <1>4, <1>5, <1>6 DEF Env!Next

LEMMA WholeFollows == EnvInv => EnvironmentsAreWhole
<1> SUFFICES ASSUME EnvInv, NEW e \in Envs, e \notin contested, env[e] # Nothing, env[e].status = "ready", ~BeingRemoved(e)
             PROVE  env[e].whole
  BY DEF EnvironmentsAreWhole
<1>1. ~Env!BeingRemoved(e)
  BY DEF BeingRemoved, Removers, Evicting, Env!BeingRemoved, Env!Removers, Env!Evicting
<1>2. ~Removes(gc, e) /\ \A t \in Clients : ~Removes(ensure[t], e)
  BY <1>1, TermsAre
<1>3. Ready(env[e]) /\ Good(e, env[e], ensure, gc)
  BY UndisturbedIs DEF Ready
<1> QED BY <1>2, <1>3 DEF Good

\* Every variable of Environments keeps its type: a thread or a collector that writes to a
\* directory, or takes it away, has the environment it is about.
THEOREM EnvironmentsTypeCorrect == Env!Spec => []Env!TypeOK
<1>1. EnvInv => Env!TypeOK
  BY DEF EnvInv, EnvTypeInv
<1> QED BY <1>1, EnvInit, EnvStep, PTL DEF Env!Spec

\* However many requests, removals and collector passes meet at one directory, file by file,
\* and wherever the process dies: a record that says ready stands for a whole environment,
\* unless an actor disturbed a creation or a removal, or wrote a stale record over one, or
\* the process died in a removal that had the record still before it.
THEOREM ReadyIsWhole == Env!Spec => []EnvironmentsAreWhole
  BY EnvInit, EnvStep, WholeFollows, PTL DEF Env!Spec
=================================================================================
