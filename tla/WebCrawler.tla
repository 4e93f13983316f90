---------------------------- MODULE WebCrawler -----------------------------
(* The crawler of case study 07: a breadth-first loop over a frontier, with a  *)
(* Bloom filter for deduplication, a robots.txt cache, a per-domain delay and  *)
(* a table of pages, run against the web of mock_server.py.  A URL is a        *)
(* record: its host, its path, the value of its ?page= parameter, and whether  *)
(* it carries what normalisation strips (a session id, a fragment, case).      *)
EXTENDS Integers, Sequences, FiniteSets

CONSTANTS
  PageLinks,        \* numbered page -> the sequence of pages it links to
  IndexLinks,       \* the pages linked from /
  OutLinks,         \* <<host, path>> -> further links, of some other web than the mock
  SeedLists,        \* the seed lists a crawl may be started with
  HashPositions(_), \* the bits the hash functions give a normalised URL
  MaxPages, MaxDepth, MaxTrapParam, \* the constants of the same names
  PolitenessDelay,  \* ticks between two requests to one domain that the crawl is started with
  CrawlDelay        \* ticks its robots.txt asks for

VARIABLES
  frontier,    \* deque of <<url, depth>>
  bloomBits,   \* the set bits of the filter
  robotsRules, \* domain -> [disallow, delay] of its robots.txt, a function on the domains asked
  lastAccess,  \* domain -> instant of the last page request to it, where there is one
  crawlClock,  \* time.time()
  crawled,     \* crawled_pages: url -> depth of its row, a function on its URLs
  requests,    \* history: the page requests, as [url, depth, at, ok] records
  seedUrls     \* history: the normalised seeds

vars == <<frontier, bloomBits, robotsRules, lastAccess, crawlClock, crawled, requests, seedUrls>>

-------------------------------------------------------------------------------
\* What a URL is made of.
CrawlUrl == [host : STRING, path : STRING, page : Nat, noise : BOOLEAN]

Url(h, p, n) == [host |-> h, path |-> p, page |-> n, noise |-> FALSE]

\* The links of the page each route serves, in document order.
MockLinks(u) ==
  CASE u.path = "index" -> [i \in DOMAIN IndexLinks |-> Url(u.host, IndexLinks[i], 0)]
    [] u.path \in DOMAIN PageLinks ->
         [i \in DOMAIN PageLinks[u.path] |-> Url(u.host, PageLinks[u.path][i], 0)]
    [] u.path = "trap" -> <<Url(u.host, "trap", u.page + 1), Url(u.host, "trap", u.page + 2)>>
    [] OTHER -> <<>>

\* robots.txt of the mock web, and what a missing one is taken for.
MockRules == [disallow |-> {"private"}, delay |-> CrawlDelay]
NoRules == [disallow |-> {}, delay |-> 0]

\* extract_links keeps every http(s) link, also one to another host.
ExtractLinks(u) ==
  MockLinks(u) \o (IF <<u.host, u.path>> \in DOMAIN OutLinks THEN OutLinks[<<u.host, u.path>>] ELSE <<>>)

\* normalize_url: what does not identify the page is dropped.
Normalize(u) == [u EXCEPT !.noise = FALSE]

\* The pages that page u links to.
Linked(u) == {Normalize(ExtractLinks(u)[i]) : i \in DOMAIN ExtractLinks(u)}

IsTrap(u) == u.page > MaxTrapParam

BloomAdd(bits, u) == bits \cup HashPositions(u)
BloomHas(bits, u) == HashPositions(u) \subseteq bits

-------------------------------------------------------------------------------
\* A filter of those URLs alone.
BloomFilter(urls) == UNION {HashPositions(u) : u \in urls}

\* No robots.txt is cached yet, no host was asked, no page is saved.
NewRobotsCache == << >>
NewPolitenessTracker == << >>
NewDatabase == << >>

\* d[k] = x on a dict.
DictSet(d, k, x) == [i \in DOMAIN d \cup {k} |-> IF i = k THEN x ELSE d[i]]

\* The crawl starts from the normalised seeds, at depth 0 and already in the filter.
Seeded(seeds) ==
  /\ frontier = [i \in DOMAIN seeds |-> <<Normalize(seeds[i]), 0>>]
  /\ seedUrls = {Normalize(seeds[i]) : i \in DOMAIN seeds}
  /\ bloomBits = BloomFilter(seedUrls)

Init ==
  /\ \E seeds \in SeedLists : Seeded(seeds)
  /\ robotsRules = NewRobotsCache
  /\ lastAccess = NewPolitenessTracker
  /\ crawlClock = PolitenessDelay
  /\ crawled = NewDatabase
  /\ requests = <<>>

Fetched == Cardinality({i \in DOMAIN requests : requests[i].ok})

\* _ensure_cached: the rules are fetched once; a failed fetch, or a status that
\* is not 200, is cached as "nothing is disallowed". run_crawler asks for the
\* disallowed paths only, never for the delay that is cached with them.
EnsureCached(h, rules) ==
  \/ h \in DOMAIN robotsRules /\ rules = robotsRules[h] /\ UNCHANGED robotsRules
  \/ h \notin DOMAIN robotsRules /\ robotsRules' = DictSet(robotsRules, h, rules)

LastAccess(h) == IF h \in DOMAIN lastAccess THEN lastAccess[h] ELSE 0

\* Mutation: the instant is taken before the sleep.
AfterNoSleep(h) == crawlClock

\* The instant wait_if_needed returns at.
After(h) == IF crawlClock - LastAccess(h) < PolitenessDelay
            THEN LastAccess(h) + PolitenessDelay ELSE crawlClock

WaitIfNeeded(h) == lastAccess' = DictSet(lastAccess, h, After(h))

\* save_page: ON CONFLICT (url) DO NOTHING.
SavePage(u, d) ==
  crawled' = IF u \in DOMAIN crawled THEN crawled ELSE DictSet(crawled, u, d)

\* Mutation: the link is enqueued at the front, the crawl becomes depth first.
EnqueueLinkFirst(acc, item) ==
  LET u == Normalize(item[1]) IN
  IF BloomHas(acc.bits, u) THEN acc
  ELSE [bits |-> BloomAdd(acc.bits, u), queue |-> <<<<u, item[2]>>>> \o acc.queue]

\* One link of a page: enqueued when the filter has not seen it.
EnqueueLink(acc, item) ==
  LET u == Normalize(item[1]) IN
  IF BloomHas(acc.bits, u) THEN acc
  ELSE [bits |-> BloomAdd(acc.bits, u), queue |-> Append(acc.queue, <<u, item[2]>>)]

EnqueueLinks(u, d) ==
  LET links == ExtractLinks(u)
      acc[n \in 0..Len(links)] ==
        IF n = 0 THEN [bits |-> bloomBits, queue |-> Tail(frontier)]
                 ELSE EnqueueLink(acc[n - 1], <<links[n], d + 1>>)
  IN bloomBits' = acc[Len(links)].bits /\ frontier' = acc[Len(links)].queue

Running == frontier # <<>> /\ Fetched < MaxPages

\* The iteration drops a URL that is too deep or looks like a trap ...
DropEarly ==
  /\ Running
  /\ LET u == Head(frontier)[1] IN Head(frontier)[2] > MaxDepth \/ IsTrap(u)
  /\ frontier' = Tail(frontier)
  /\ UNCHANGED <<bloomBits, robotsRules, lastAccess, crawlClock, crawled, requests, seedUrls>>

\* ... or one robots.txt disallows ...
DropDisallowed ==
  /\ Running
  /\ LET u == Head(frontier)[1] IN
       /\ Head(frontier)[2] <= MaxDepth /\ ~IsTrap(u)
       /\ \E rules \in {MockRules, NoRules} : EnsureCached(u.host, rules) /\ u.path \in rules.disallow
  /\ frontier' = Tail(frontier)
  /\ UNCHANGED <<bloomBits, lastAccess, crawlClock, crawled, requests, seedUrls>>

\* ... or fetches it.  An error page (404) is saved like any other; a network
\* error is counted and the URL forgotten, though the filter has seen it.
FetchPage ==
  /\ Running
  /\ UNCHANGED seedUrls
  /\ LET u == Head(frontier)[1]
         d == Head(frontier)[2] IN
       /\ d <= MaxDepth /\ ~IsTrap(u)
       /\ \E rules \in {MockRules, NoRules} : EnsureCached(u.host, rules) /\ u.path \notin rules.disallow
       /\ WaitIfNeeded(u.host)
       /\ \E took \in 0..1 : crawlClock' = After(u.host) + took
       /\ \E ok \in BOOLEAN :
            /\ requests' = Append(requests, [url |-> u, depth |-> d, at |-> After(u.host), ok |-> ok])
            /\ IF ok THEN SavePage(u, d) /\ EnqueueLinks(u, d)
                     ELSE frontier' = Tail(frontier) /\ UNCHANGED <<crawled, bloomBits>>

\* The crawl is over.
Finished == ~Running /\ UNCHANGED vars

Next == DropEarly \/ DropDisallowed \/ FetchPage \/ Finished

Spec == Init /\ [][Next]_vars

-------------------------------------------------------------------------------
TypeOK ==
  /\ \A i \in DOMAIN frontier : frontier[i] \in CrawlUrl \X (0..(MaxDepth + 1))
  /\ DOMAIN crawled \subseteq {requests[i].url : i \in DOMAIN requests}
  /\ \A h \in DOMAIN robotsRules : robotsRules[h] \in {MockRules, NoRules}

\* No page is requested twice, whatever links lead to it and however they are
\* spelled.
NeverTwice ==
  \A i, j \in DOMAIN requests : i # j => requests[i].url # requests[j].url

\* Two requests to one domain are as far apart as the tracker was told, whatever
\* Crawl-delay the domain itself asks for.
Polite ==
  \A i, j \in DOMAIN requests :
    i < j /\ requests[i].url.host = requests[j].url.host
      => requests[j].at - requests[i].at >= PolitenessDelay

\* No more pages are fetched than the budget, and no request is too deep or looks
\* like a trap.
WithinLimits ==
  /\ Fetched <= MaxPages
  /\ \A i \in DOMAIN requests : requests[i].depth <= MaxDepth /\ ~IsTrap(requests[i].url)

\* Before a domain is asked for a page its rules are known, and what is asked for
\* is allowed by the rules that stay cached.
AllowedOnly ==
  \A i \in DOMAIN requests :
    LET u == requests[i].url
    IN u.host \in DOMAIN robotsRules /\ u.path \notin robotsRules[u.host].disallow

\* A saved page has the length of a shortest path as its depth: no other saved
\* page that links to it is more than one step nearer to the seeds.
ShortestPaths ==
  \A u, v \in DOMAIN crawled : v \in Linked(u) => crawled[v] <= crawled[u] + 1

\* Once the frontier is empty, every link of a saved page was requested, or was
\* dropped by a rule, or is a false positive of the filter.
NothingLost ==
  frontier = <<>> =>
    \A u \in DOMAIN crawled : \A v \in Linked(u) :
      \/ \E j \in DOMAIN requests : requests[j].url = v
      \/ crawled[u] + 1 > MaxDepth \/ IsTrap(v)
      \/ v.path \in MockRules.disallow
      \/ BloomHas(BloomFilter((seedUrls \cup UNION {Linked(w) : w \in DOMAIN crawled}) \ {v}), v)

\* The crawl (run_crawler) requests no page twice and none that a rule it knows
\* forbids, keeps to its limits and its own delay, finds shortest paths and drops
\* nothing without a reason.
CrawlIsSound == NeverTwice /\ Polite /\ WithinLimits /\ AllowedOnly /\ ShortestPaths /\ NothingLost
=============================================================================
