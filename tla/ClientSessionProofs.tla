------------------------ MODULE ClientSessionProofs ------------------------
(***************************************************************************)
(* One silent attempt per tab session, for any number of visits and of     *)
(* turns outside the tab.                                                  *)
(***************************************************************************)
EXTENDS ClientSession, TLAPS

\* A tab that keeps its storage is marked from its attempt on, and asks for
\* the providers only before it; one that cannot read it never asks.
TriesInv == /\ tries \in {0, 1, 2}
            /\ storage = "keeps" =>
                 /\ tries <= 1
                 /\ tries = 1 => "attempted" \in marks
                 /\ page = "asking" => tries = 0
            /\ storage = "blocked" => tries = 0 /\ page # "asking"

(* An action that makes no attempt keeps the count or clears it together   *)
(* with the marks, and none but the bootstrap leads to "asking": what all  *)
(* others do to the invariant (App.tsx, AppShell.tsx).                     *)
LEMMA NoAttempt ==
  ASSUME TriesInv, storage' = storage,
         \/ tries' = 0
         \/ tries' = tries /\ (storage = "keeps" => marks \subseteq marks'),
         page' = "asking" => page = "asking"
  PROVE  TriesInv'
BY DEF TriesInv

(* setMe clears the marks only with the count (App.tsx).                   *)
LEMMA SetMeEffect ==
  ASSUME NEW who, NEW a, SetMe(who, a)
  PROVE  tries' = 0 \/ (tries' = tries /\ marks' = marks)
BY DEF SetMe

(* The bootstrap: a session answers and clears, or nobody is signed in and *)
(* the guard has to let the attempt pass (silentSso.ts).                   *)
LEMMA BootStep ==
  ASSUME TriesInv, NEW who, Boot(who)
  PROVE  TriesInv'
<1>1. CASE ~who /\ shouldAttemptSilentSso
  <2>1. /\ storage # "blocked" /\ "attempted" \notin marks
        /\ page' = "asking" /\ marks' = marks /\ tries' = tries
        /\ storage' = storage
    BY <1>1 DEF Boot, SetMe, shouldAttemptSilentSso, readFlag
  <2> QED
    BY <2>1 DEF TriesInv
<1>2. CASE ~(~who /\ shouldAttemptSilentSso)
  <2>1. page' = "shown" /\ SetMe(who, address) /\ storage' = storage
    BY <1>2 DEF Boot
  <2> QED
    BY <2>1, SetMeEffect, NoAttempt
<1> QED
  BY <1>1, <1>2

(* The attempt itself: it is counted and marked in one step                *)
(* (silentSso.ts, beginSilentSso).                                         *)
LEMMA AttemptStep == ASSUME TriesInv, beginSilentSso PROVE TriesInv'
BY DEF TriesInv, beginSilentSso, Marked

(* A page load forgets the marks only where the browser does.              *)
LEMMA LoadStep ==
  ASSUME TriesInv, NEW a, Load(a), marks' = Forgetful(marks),
         tries' = tries, storage' = storage
  PROVE  TriesInv'
BY NoAttempt DEF Load, Forgetful

(* A principal that is replaced in a tab that stays on its page.           *)
LEMMA SetMeStep ==
  ASSUME TriesInv, NEW who, NEW a, SetMe(who, a),
         page' = page, storage' = storage
  PROVE  TriesInv'
BY SetMeEffect, NoAttempt

(* A sign out marks the tab twice over, or finds the session gone          *)
(* (AppShell.tsx, api.ts).                                                 *)
LEMMA LogoutStep == ASSUME TriesInv, LogoutAnswered PROVE TriesInv'
<1>1. CASE leaving = "served"
  BY <1>1, NoAttempt DEF LogoutAnswered, Marked, Marks
<1>2. CASE leaving # "served"
  BY <1>2, SetMeStep DEF LogoutAnswered
<1> QED
  BY <1>1, <1>2

(* The answer of a lookup made again (App.tsx, refreshMe).                 *)
LEMMA RefreshStep == ASSUME TriesInv, NEW p \in Probes, refreshMe(p) PROVE TriesInv'
<1>1. PICK a : SetMe(probe[p] = "yes", a)
  BY DEF refreshMe
<1> QED
  BY <1>1, SetMeStep DEF refreshMe

(* The invariant of the tab is inductive (App.tsx, AppShell.tsx,           *)
(* silentSso.ts, LoginPage.tsx).                                           *)
LEMMA TabStep == ASSUME TriesInv, [Next]_vars PROVE TriesInv'
<1>1. CASE BootAnswered \/ BootFailed
  BY <1>1, BootStep DEF BootAnswered, BootFailed
<1>2. CASE beginSilentSso
  BY <1>2, AttemptStep
<1>3. CASE SilentSucceeds \/ SilentRefused
  BY <1>3, LoadStep DEF SilentSucceeds, SilentRefused
<1>4. CASE ProvidersWithout \/ CallbackFails
  BY <1>4, NoAttempt DEF ProvidersWithout, CallbackFails
<1>5. CASE LogoutServed
  BY <1>5, NoAttempt DEF LogoutServed
<1>6. CASE LogoutAnswered
  BY <1>6, LogoutStep
<1>7. CASE \E p \in Probes : ProbeServed(p) \/ ProbeFailed(p) \/ refreshMe(p)
  BY <1>7, RefreshStep, NoAttempt DEF ProbeServed, ProbeFailed
<1>8. CASE loginSubmit \/ saveProfile \/ logout
  BY <1>8, NoAttempt DEF loginSubmit, saveProfile, logout, Ask
<1>9. CASE SignInAtProvider
  BY <1>9, LoadStep DEF SignInAtProvider
<1>10. CASE onUnauthorized
  BY <1>10, SetMeStep DEF onUnauthorized
<1>11. CASE Navigate
  BY <1>11, NoAttempt DEF Navigate
<1>12. CASE Visit
  BY <1>12, LoadStep DEF Visit
<1>13. CASE Elsewhere
  BY <1>13, NoAttempt DEF Elsewhere
<1>14. CASE UNCHANGED vars
  BY <1>14, NoAttempt DEF vars
<1> QED
  BY <1>1, <1>2, <1>3, <1>4, <1>5, <1>6, <1>7, <1>8, <1>9, <1>10, <1>11, <1>12,
     <1>13, <1>14 DEF Next, Machine, Person

(* A tab that keeps its storage makes one silent attempt at most between   *)
(* two sessions, and one that cannot read it makes none.                   *)
THEOREM TriedOnce == Spec => []OneTryPerSession
<1>1. Init => TriesInv
  BY DEF Init, TriesInv
<1>2. TriesInv /\ [Next]_vars => TriesInv'
  BY TabStep
<1>3. TriesInv => OneTryPerSession
  BY DEF TriesInv, OneTryPerSession
<1> QED
  BY <1>1, <1>2, <1>3, PTL DEF Spec
=============================================================================
