------------------------------- MODULE Scraper -------------------------------
(***************************************************************************)
(* How a page is fetched for the ingest (scrapeWebPage): attempts with a   *)
(* back-off between them, redirects followed one by one, each host checked *)
(* before it is contacted (assertSafeUrl), and only a page of a supported  *)
(* type and size is read.                                                  *)
(***************************************************************************)
EXTENDS Integers

CONSTANTS
  Hosts,
  ScrapeRetries,   \* SCRAPE_MAX_RETRIES
  RedirectHops,    \* MAX_REDIRECT_HOPS
  ScrapeTimeout, ScrapeBackoff,
  LookupTime       \* the longest look-up of a name; the code sets it no limit

ASSUME ScraperAssumption ==
  {ScrapeRetries, RedirectHops, ScrapeTimeout, ScrapeBackoff, LookupTime} \subseteq Nat

VARIABLES
  innerHosts, \* hosts whose name now has an address that assertSafeUrl blocks
  scrape,     \* the page, the host of this hop, the attempt, what comes next, why it
              \* failed, and whether the answer came from an inner address
  contacted,  \* history: hosts asked for a page, those of them at an inner address that
              \* they had when they were checked, and how many requests there were
  moved,      \* history: whether the host's address changed between its check and the
              \* request, and between the answer and the second check
  refusals,   \* history: answers 403
  waited      \* time spent in all, and since the attempt's signal was set

scraperVars == <<innerHosts, scrape, contacted, moved, refusals, waited>>

NotMoved == [before |-> FALSE, after |-> FALSE]
Fail(why) == scrape' = [scrape EXCEPT !.pc = "failed", !.why = why]

\* The guard resolves the host's name: it passes, is blocked (like a URL that is none
\* or of another scheme), or the look-up fails.  What is requested then resolves the
\* name once more.
AssertSafeUrl(host, Pass, Blocked, Unresolved) ==
  \/ host \notin innerHosts /\ Pass
  \/ host \in innerHosts /\ Blocked
  \/ Unresolved

\* Time passes: none, or as much as there may.
TimeGoes(most) == \E t \in {0, most} :
  waited' = [all |-> waited.all + t, attempt |-> waited.attempt + t]
SignalOff == waited.attempt >= ScrapeTimeout
Left == IF SignalOff THEN 0 ELSE ScrapeTimeout - waited.attempt

\* An attempt that failed is repeated, if one is left, from the first URL.
NextAttempt(why) ==
  IF scrape.attempt < ScrapeRetries
  THEN scrape' = [scrape EXCEPT !.pc = "wait", !.attempt = @ + 1, !.host = scrape.page, !.hop = 0]
  ELSE Fail(why)

ScraperInit ==
  /\ innerHosts \in SUBSET Hosts
  /\ \E h \in Hosts : scrape = [page |-> h, host |-> h, attempt |-> 0, hop |-> 0,
                                pc |-> "check", why |-> "nothing", fromInner |-> FALSE]
  /\ contacted = [hosts |-> {}, inner |-> {}, requests |-> 0]
  /\ moved = NotMoved /\ refusals = 0 /\ waited = [all |-> 0, attempt |-> 0]

\* Whoever owns a name gives it another address.
AddressChanges(h) ==
  /\ innerHosts' = IF h \in innerHosts THEN innerHosts \ {h} ELSE innerHosts \cup {h}
  /\ moved' = [before |-> moved.before \/ (h = scrape.host /\ scrape.pc = "fetch"),
               after |-> moved.after \/ (h = scrape.host /\ scrape.pc = "revalidate")]
  /\ UNCHANGED <<scrape, contacted, refusals, waited>>

\* Before anything else, and no error of it is retried; no signal is set yet.
CheckUrl ==
  /\ scrape.pc = "check"
  /\ AssertSafeUrl(scrape.page, scrape' = [scrape EXCEPT !.pc = "validate"],
                   Fail("blocked"), Fail("unresolved"))
  /\ \E t \in {0, LookupTime} : waited' = [waited EXCEPT !.all = @ + t]
  /\ UNCHANGED <<innerHosts, contacted, moved, refusals>>

\* Mutant: every hop has a signal of its own.
ValidateHopOnItsOwn ==
  /\ scrape.pc = "validate"
  /\ AssertSafeUrl(scrape.host, scrape' = [scrape EXCEPT !.pc = "fetch"],
                   Fail("blocked"), NextAttempt("unreachable"))
  /\ moved' = NotMoved /\ \E t \in {0, LookupTime} : waited' = [all |-> waited.all + t, attempt |-> 0]
  /\ UNCHANGED <<innerHosts, contacted, refusals>>

\* Before each hop; here a failed look-up is an error of the network.  The signal of
\* the attempt is set but does not end a look-up.
ValidateHop ==
  /\ scrape.pc = "validate"
  /\ AssertSafeUrl(scrape.host, scrape' = [scrape EXCEPT !.pc = "fetch"],
                   Fail("blocked"), NextAttempt("unreachable"))
  /\ moved' = NotMoved /\ TimeGoes(LookupTime)
  /\ UNCHANGED <<innerHosts, contacted, refusals>>

AskHost ==
  /\ scrape.pc = "fetch" /\ ~SignalOff
  /\ contacted' = [hosts |-> contacted.hosts \cup {scrape.host},
                   inner |-> contacted.inner \cup {h \in innerHosts : h = scrape.host /\ ~moved.before},
                   requests |-> contacted.requests + 1]
  /\ TimeGoes(Left)
  /\ UNCHANGED <<innerHosts, moved>>

\* The look-up took so long that nothing is requested.
FetchTooLate ==
  /\ scrape.pc = "fetch" /\ SignalOff
  /\ NextAttempt("unreachable")
  /\ UNCHANGED <<innerHosts, contacted, moved, refusals, waited>>

\* The network fails, or the one signal of the attempt's hops goes off.
FetchDies == AskHost /\ NextAttempt("unreachable") /\ UNCHANGED refusals

\* Mutant: only the first URL and the last are checked.
FetchRedirectsUnchecked ==
  /\ AskHost
  /\ IF scrape.hop < RedirectHops
     THEN \E h \in Hosts : scrape' = [scrape EXCEPT !.host = h, !.hop = @ + 1]
     ELSE NextAttempt("unreachable")
  /\ UNCHANGED refusals

\* (Too many redirects are an error like one of the network.)
FetchRedirects ==
  /\ AskHost
  /\ IF scrape.hop < RedirectHops
     THEN \E h \in Hosts : scrape' = [scrape EXCEPT !.pc = "validate", !.host = h, !.hop = @ + 1]
     ELSE NextAttempt("unreachable")
  /\ UNCHANGED refusals

FetchAnswers ==
  /\ AskHost
  /\ scrape' = [scrape EXCEPT !.pc = "revalidate", !.fromInner = (scrape.host \in innerHosts)]
  /\ UNCHANGED refusals

\* 429 and 5xx are retried as long as attempts are left.
FetchBusy == AskHost /\ NextAttempt("busy") /\ UNCHANGED refusals

\* Mutant: 403 is retried like 5xx.
FetchForbiddenBusy == AskHost /\ refusals' = refusals + 1 /\ NextAttempt("forbidden")

\* 403 is retried only on the first attempt.
FetchForbidden ==
  /\ AskHost /\ refusals' = refusals + 1
  /\ IF scrape.attempt >= 1 THEN Fail("forbidden") ELSE NextAttempt("forbidden")

\* Any other status is final.
FetchRefused == AskHost /\ Fail("refused") /\ UNCHANGED refusals

\* The delay doubles with every attempt, which has a signal of its own.
Wait ==
  /\ scrape.pc = "wait"
  /\ waited' = [all |-> waited.all + ScrapeBackoff * 2 ^ (scrape.attempt - 1), attempt |-> 0]
  /\ scrape' = [scrape EXCEPT !.pc = "validate"]
  /\ UNCHANGED <<innerHosts, contacted, moved, refusals>>

\* Once more, of the URL that answered.
Revalidate ==
  /\ scrape.pc = "revalidate"
  /\ AssertSafeUrl(scrape.host, scrape' = [scrape EXCEPT !.pc = "read"],
                   Fail("blocked"), Fail("unresolved"))
  /\ TimeGoes(LookupTime)
  /\ UNCHANGED <<innerHosts, contacted, moved, refusals>>

\* The type and the length declared, the body, its real length, and how much text
\* is in it; the signal of the attempt is still on while the body comes.
ReadPage ==
  /\ scrape.pc = "read"
  /\ \/ scrape' = [scrape EXCEPT !.pc = "done"]
     \/ \E why \in {"type", "too large", "too short", "broke off"} : Fail(why)
  /\ TimeGoes(Left)
  /\ UNCHANGED <<innerHosts, contacted, moved, refusals>>

ScraperNext ==
  \/ CheckUrl \/ ValidateHop \/ Wait \/ Revalidate \/ ReadPage \/ FetchTooLate
  \/ FetchDies \/ FetchRedirects \/ FetchAnswers \/ FetchBusy \/ FetchForbidden \/ FetchRefused
  \/ \E h \in Hosts : AddressChanges(h)

ScraperSpec == ScraperInit /\ [][ScraperNext]_scraperVars

-----------------------------------------------------------------------------
(* Properties *)

\* Wherever redirects lead, a host is asked at an inner address only if its name got
\* that address after its check, and a page from one is read only if it lost it again
\* before the second check; a host that answers 403 is asked twice at most; a page is
\* given up as out of reach or busy only after all attempts; and requests stay within
\* what attempts and hops allow.
ScraperInv ==
  /\ contacted.inner = {}
  /\ scrape.pc \in {"read", "done"} /\ scrape.fromInner => moved.before /\ moved.after
  /\ refusals <= 2
  /\ scrape.why \in {"unreachable", "busy"} => scrape.attempt = ScrapeRetries
  /\ scrape.pc = "done" => scrape.host \in contacted.hosts
  /\ contacted.requests <= (ScrapeRetries + 1) * (RedirectHops + 1)

\* What no signal ends is one look-up per attempt at most, and the first one: an
\* ingest waits for a page no longer than for these, its timeouts and its back-offs.
WaitBounded ==
  waited.all <= LookupTime + (ScrapeRetries + 1) * (ScrapeTimeout + LookupTime)
                  + ScrapeBackoff * (2 ^ ScrapeRetries - 1)

=============================================================================
