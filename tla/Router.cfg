\* Every kind of page that behaves differently, the first page and two navigations, two announced writes.
CONSTANTS
  PageKinds = {"home", "movies", "movie", "concerts", "concert", "booking", "account", "unknown"}
  MaxNumber = 2
  MaxNavs = 2
  MaxNotices = 2
  Fragile <- FragileAssets
  RouterFaults = {"read"}
SPECIFICATION FairSpec
CHECK_DEADLOCK FALSE
INVARIANTS ShownIsRoute RankingAtHomeOnly
PROPERTIES EveryNavigationRenders
