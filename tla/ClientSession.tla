--------------------------- MODULE ClientSession ---------------------------
(***************************************************************************)
(* One browser tab of the web client and the session it believes in.       *)
(*                                                                         *)
(* The server keeps the session behind a cookie every tab shares, the      *)
(* identity provider keeps one of its own, and the tab keeps what the last *)
(* answered session lookup told it.  The three drift apart: lookups answer *)
(* late, sessions end in another tab, the browser is sent to the provider  *)
(* and comes back as a new page load.  Two marks in sessionStorage and one *)
(* in the address are all that keeps the tab from bouncing for ever.       *)
(*                                                                         *)
(* Visits bounds what the person does to the address bar, Turns bounds     *)
(* what happens to the sessions outside this tab.                          *)
(***************************************************************************)
EXTENDS Integers

CONSTANTS Visits, Turns

ASSUME BoundsAssumption == Visits \in Nat /\ Turns \in Nat

Addresses == {"public", "private", "login", "refused"}
Probes    == {"profile", "leave", "enter"}
Marks     == {"attempted", "signedOut"}

VARIABLES
  session,    \* the cookie names a live session
  provider,   \* the person has a session at the identity provider
  storage,    \* how sessionStorage behaves: keeps, forgets or blocked
  marks,      \* the flags in it that read "true"
  page,       \* loading, asking (for providers), shown, away or stranded
  address,    \* what the address bar names
  me,         \* App's principal is not null
  probe,      \* session lookups after the first: idle, sent, yes, no
  leaving,    \* the sign out request: no, sent, served, refused
  visits, turns,
  tries,      \* silent attempts since the tab last had a session (up to 2)
  out         \* signed out here on purpose, and no sign in anywhere since

tab  == <<marks, page, address, me, probe, leaving>>
vars == <<session, provider, storage, marks, page, address, me, probe,
          leaving, visits, turns, tries, out>>

NoProbe == [p \in Probes |-> "idle"]

(***************************************************************************)
(* sessionStorage.  A read that throws counts as a mark: fail closed.      *)
(***************************************************************************)
readFlag(f) == storage = "blocked" \/ f \in marks
Marked(m)   == IF storage = "blocked" THEN marks ELSE m

\* A plausible bug: the refusal's address is not looked at.
MutExcluded(a) == a = "login"

\* The login screen and the refusal marker end an attempt before it starts.
Excluded(a) == a \in {"login", "refused"}

shouldAttemptSilentSso == /\ ~Excluded(address)
                          /\ ~readFlag("signedOut")
                          /\ ~readFlag("attempted")

\* Where the router puts a page once it knows who is signed in.
Routed(a, who) == CASE who  /\ a \in {"login", "refused"} -> "public"
                    [] ~who /\ a = "private"              -> "login"
                    [] OTHER                              -> a

\* setMe, the effect that follows it, and the routes it re-renders.
SetMe(who, a) ==
  /\ me' = who
  /\ marks' = IF who THEN Marked({}) ELSE marks
  /\ address' = IF page' = "shown" THEN Routed(a, who) ELSE a
  /\ tries' = IF who THEN 0 ELSE tries

\* A page load: nothing of the tab survives it but the storage.
Load(a) == /\ page' = "loading"
           /\ address' = a
           /\ me' = FALSE
           /\ probe' = NoProbe
           /\ leaving' = "no"

Forgetful(m) == IF storage = "forgets" THEN {} ELSE m

Init == /\ session \in BOOLEAN
        /\ provider \in BOOLEAN
        /\ storage \in {"keeps", "forgets", "blocked"}
        /\ marks = {}
        /\ page = "loading"
        /\ address \in {"public", "private", "login"}
        /\ me = FALSE
        /\ probe = NoProbe
        /\ leaving = "no"
        /\ visits = 0
        /\ turns = 0
        /\ tries = 0
        /\ out = FALSE

(***************************************************************************)
(* The bootstrap: who am I, and may this page load try a silent sign in.   *)
(***************************************************************************)
Boot(who) ==
  /\ page = "loading"
  /\ page' = IF ~who /\ shouldAttemptSilentSso THEN "asking" ELSE "shown"
  /\ SetMe(who, address)
  /\ UNCHANGED <<session, provider, storage, probe, leaving, visits, turns, out>>

BootAnswered == Boot(session)

\* A lookup that fails for any reason reads as nobody.
BootFailed == Boot(FALSE)

ProvidersWithout ==
  /\ page = "asking"
  /\ page' = "shown"
  /\ address' = Routed(address, me)
  /\ UNCHANGED <<session, provider, storage, marks, me, probe, leaving,
                 visits, turns, tries, out>>

\* A plausible bug: the browser leaves before the attempt is marked.
MutBeginUnmarked ==
  /\ page = "asking"
  /\ page' = "away"
  /\ tries' = IF tries < 2 THEN tries + 1 ELSE tries
  /\ UNCHANGED <<session, provider, storage, marks, address, me, probe,
                 leaving, visits, turns, out>>

beginSilentSso ==
  /\ page = "asking"
  /\ page' = "away"
  /\ marks' = Marked(marks \cup {"attempted"})
  /\ tries' = IF tries < 2 THEN tries + 1 ELSE tries
  /\ UNCHANGED <<session, provider, storage, address, me, probe, leaving,
                 visits, turns, out>>

\* The provider answers from its own session without showing anything, and
\* the callback sends the browser on; a failed exchange strands it there.
SilentSucceeds ==
  /\ page = "away" /\ provider
  /\ session' = TRUE
  /\ Load(address)
  /\ marks' = Forgetful(marks)
  /\ UNCHANGED <<provider, storage, visits, turns, tries, out>>

SilentRefused ==
  /\ page = "away" /\ ~provider
  /\ Load("refused")
  /\ marks' = Forgetful(marks)
  /\ UNCHANGED <<session, provider, storage, visits, turns, tries, out>>

CallbackFails ==
  /\ page = "away"
  /\ page' = "stranded"
  /\ UNCHANGED <<session, provider, storage, marks, address, me, probe,
                 leaving, visits, turns, tries, out>>

(***************************************************************************)
(* Signing in, saving a profile (it asks who I am again) and signing out.  *)
(***************************************************************************)
Ask(p) == probe' = [probe EXCEPT ![p] = "sent"]

loginSubmit ==
  /\ page = "shown" /\ address \in {"login", "refused"} /\ ~me
  /\ probe["enter"] = "idle"
  /\ session' = TRUE
  /\ out' = FALSE
  /\ Ask("enter")
  /\ UNCHANGED <<provider, storage, marks, page, address, me, leaving,
                 visits, turns, tries>>

\* A provider's own button: the whole browser goes there and comes back.
SignInAtProvider ==
  /\ page = "shown" /\ address \in {"login", "refused"} /\ ~me
  /\ visits < Visits
  /\ visits' = visits + 1
  /\ session' = TRUE /\ provider' = TRUE /\ out' = FALSE
  /\ Load("public")
  /\ marks' = Forgetful(marks)
  /\ UNCHANGED <<storage, turns, tries>>

saveProfile ==
  /\ page = "shown" /\ me /\ address = "private"
  /\ session /\ probe["profile"] = "idle"
  /\ Ask("profile")
  /\ UNCHANGED <<session, provider, storage, marks, page, address, me,
                 leaving, visits, turns, tries, out>>

logout ==
  /\ page = "shown" /\ me /\ leaving = "no"
  /\ leaving' = "sent"
  /\ UNCHANGED <<session, provider, storage, marks, page, address, me, probe,
                 visits, turns, tries, out>>

LogoutServed ==
  /\ leaving = "sent"
  /\ leaving' = IF session THEN "served" ELSE "refused"
  /\ session' = FALSE
  /\ out' = (out \/ session)
  /\ UNCHANGED <<provider, storage, marks, page, address, me, probe, visits,
                 turns, tries>>

\* markSignedOut only after the server agreed; an expired session is a 401,
\* which the one handler turns into "nobody" and nothing is marked.
LogoutAnswered ==
  /\ leaving \in {"served", "refused"}
  /\ leaving' = "no"
  /\ IF leaving = "served"
     THEN /\ marks' = Marked(marks \cup Marks)
          /\ Ask("leave")
          /\ UNCHANGED <<page, me, address, tries>>
     ELSE /\ UNCHANGED <<page, probe>>
          /\ SetMe(FALSE, address)
  /\ UNCHANGED <<session, provider, storage, visits, turns, out>>

ProbeServed(p) ==
  /\ probe[p] = "sent"
  /\ probe' = [probe EXCEPT ![p] = IF session THEN "yes" ELSE "no"]
  /\ UNCHANGED <<session, provider, storage, marks, page, address, me,
                 leaving, visits, turns, tries, out>>

\* A lookup or its answer is lost, or the server fails: refreshMe reads nobody.
ProbeFailed(p) ==
  /\ probe[p] = "sent"
  /\ probe' = [probe EXCEPT ![p] = "no"]
  /\ UNCHANGED <<session, provider, storage, marks, page, address, me,
                 leaving, visits, turns, tries, out>>

\* refreshMe's answer; sign out then goes to the login screen, sign in to
\* where the person came from.
refreshMe(p) ==
  /\ probe[p] \in {"yes", "no"}
  /\ probe' = [probe EXCEPT ![p] = "idle"]
  /\ UNCHANGED page
  /\ \E a \in CASE p = "leave" -> {"login"}
                [] p = "enter" -> {"public", "private"}
                [] OTHER       -> {address} :
       SetMe(probe[p] = "yes", a)
  /\ UNCHANGED <<session, provider, storage, leaving, visits, turns, out>>

\* Any other request of a page that thinks it is signed in.
onUnauthorized ==
  /\ page = "shown" /\ me /\ ~session
  /\ UNCHANGED page
  /\ SetMe(FALSE, address)
  /\ UNCHANGED <<session, provider, storage, probe, leaving, visits, turns, out>>

(***************************************************************************)
(* The person moves inside the application, or loads an address.           *)
(***************************************************************************)
Navigate ==
  /\ page = "shown" /\ visits < Visits
  /\ visits' = visits + 1
  /\ \E a \in {"public", "private", "login"} : address' = Routed(a, me)
  /\ UNCHANGED <<session, provider, storage, marks, page, me, probe, leaving,
                 turns, tries, out>>

Visit ==
  /\ visits < Visits
  /\ visits' = visits + 1
  /\ \E a \in Addresses : Load(a)
  /\ marks' = Forgetful(marks)
  /\ UNCHANGED <<session, provider, storage, turns, tries, out>>

(***************************************************************************)
(* Other tabs and the provider: sessions begin and end without this tab.   *)
(***************************************************************************)
Elsewhere ==
  /\ turns < Turns
  /\ turns' = turns + 1
  /\ \/ session' = FALSE /\ UNCHANGED <<provider, out>>
     \/ session' = TRUE  /\ out' = FALSE /\ UNCHANGED provider
     \/ provider' \in BOOLEAN \ {provider} /\ UNCHANGED <<session, out>>
  /\ UNCHANGED <<storage, marks, page, address, me, probe, leaving, visits, tries>>

Machine == \/ BootAnswered \/ BootFailed \/ ProvidersWithout \/ beginSilentSso
           \/ SilentSucceeds \/ SilentRefused \/ CallbackFails
           \/ LogoutServed \/ LogoutAnswered
           \/ \E p \in Probes : ProbeServed(p) \/ ProbeFailed(p) \/ refreshMe(p)

Person == \/ loginSubmit \/ SignInAtProvider \/ saveProfile \/ logout
          \/ onUnauthorized \/ Navigate \/ Visit

Next == Machine \/ Person \/ Elsewhere

\* Requests answer and redirects are followed, and a lookup made again and
\* again is not lost every time; nobody has to do anything.
Spec == Init /\ [][Next]_vars /\ WF_vars(Machine) /\ SF_vars(BootAnswered)

-----------------------------------------------------------------------------
(* Types: every mark, probe and address is one the code can produce. *)
TypeOK == /\ {session, provider, me, out} \subseteq BOOLEAN
          /\ storage \in {"keeps", "forgets", "blocked"}
          /\ marks \subseteq Marks
          /\ page \in {"loading", "asking", "shown", "away", "stranded"}
          /\ address \in Addresses
          /\ probe \in [Probes -> {"idle", "sent", "yes", "no"}]
          /\ leaving \in {"no", "sent", "served", "refused"}
          /\ visits \in 0..Visits /\ turns \in 0..Turns
          /\ tries \in 0..2

(* One attempt per tab session: unless the browser drops sessionStorage    *)
(* between loads, a tab that has had no session since its last silent      *)
(* attempt makes no second one, whatever is reloaded, refused or revisited *)
(* and whichever lookups answer late (silentSso.ts guards 1 and 2); a tab  *)
(* whose storage cannot be read makes none at all, because a read that     *)
(* throws fails closed.                                                    *)
OneTryPerSession == CASE storage = "keeps"   -> tries <= 1
                      [] storage = "blocked" -> tries = 0
                      [] OTHER               -> TRUE

(* The browser stops bouncing: once the person stops loading addresses the *)
(* tab comes to rest on a page, even when every load forgets the marks.    *)
(* There the refusal's address is the only guard left (guard 3).           *)
FlickerEnds == <>[](page \in {"shown", "stranded"})

(* "Marked as soon as the session is gone so a silent sign in cannot undo  *)
(* the sign out on the next page load" (AppShell.tsx): a tab signed out on *)
(* purpose does not leave for the provider before somebody signs in again. *)
SignOutHolds == [][storage = "keeps" /\ page # "away" /\ page' = "away" => ~out]_vars
=============================================================================
