SPECIFICATION Spec
CONSTANTS
  Build = "plasma"
  First <- MCFirst
  Releases <- MCReleases
  MaxInstalls = 2
PROPERTIES
  NoticeRefined
  NewestReachesUser
  RestartAnnounced
