SPECIFICATION MCSpec
CONSTANTS
  Frames <- MCFrames
  IntoModes = {TRUE, FALSE}
  Replies <- MCReplies
  Acceptable = {{}, {808000}, {808000, 817000, 5}}
  Askers = {a1, a2}
  Agents = {c1, c2}
  TotalRows = 5
  BatchSize = 2
  Views = {v1, v2}
  Avus <- MCAvus
  MaxOps = 2
  Clerks = {t1, t2}
  Users = {"u1", "u2"}
  Things = {"x"}
  Jobs <- MCJobs
  Callers = {"h1", "h2"}
  Hosts = {"hostB", "hostC"}
  Plans <- MCPlans
  BeforeHooks <- MCBefore
  AfterHooks <- MCAfter
INVARIANT AdminIsOwn
CHECK_DEADLOCK FALSE
