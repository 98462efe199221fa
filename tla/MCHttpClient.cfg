\* Two threads share a client; a third may stop it; two redirects are followed.
SPECIFICATION FairSpec
CONSTANTS
  Threads = {t1, t2}
  NoThread = none
  Fds = {f1, f2}
  NoFd = nofd
  RedirectMax = 2
  MaxReplies = 3
INVARIANTS Consistent AnswersOwn
PROPERTY Responds
