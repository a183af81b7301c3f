SPECIFICATION ClientsSpec
\* The pages without a session lead to signing in, and stay there.
CHECK_DEADLOCK FALSE
CONSTANTS
  REDIRECT_SECONDS = 8
  MaxReloads = 2
  Cases = {r1, r2}
  Contents = {f1}
  Uploads = {u1, u2}
  Nothing = Nothing
  Drafts = {d1, d2}
  Texts = {x, y}
  MaxVersion = 3
  NoRow = NoRow
  Queries = {q1, q2}
  DefaultQuery = q1
  NoQuery = NoQuery
  c1 = c1
  c2 = c2
  NoSha = NoSha
  Releases <- MCReleases
  Credentials <- MCCredentials
INVARIANTS
  AnnouncedIsDone
  NoEvidenceTwice
  ListIsOfTheAppliedQuery
  
PROPERTIES
  SavesOverwriteNothingUnseen
  NothingStaysBusy
