\* Three players for two slots, a queue of three events, three frames.
SPECIFICATION HudSpec
CONSTANTS
  Profiles = {p, q, r}
  Sessions = {s, t}
  Groups = {g}
  Nobody = nobody
  SpeakerLimit = 2
  QueueLimit = 3
  MaxFrames = 3
INVARIANTS
  HudFollowsSpeakers
  GroupAnnouncedOnce
PROPERTY
  PictureSettles
CHECK_DEADLOCK FALSE
