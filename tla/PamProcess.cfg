SPECIFICATION Spec
CONSTANTS
  one = one
  two = two
  three = three
  word = word
  pair = pair
  another = another
  six = six
  end = end
  stray = stray
  Threads <- AllThreads
  Words <- OneWord
  NoWord = noword
  Pairs <- TwoPairs
  Sixes <- ThreeSixes
  Accounts <- People
  UserOf <- Users
  GroupOf <- Groups
  Worlds <- AllWorlds
  NoCall = nocall
  NoAnswer = noanswer
  NoAccount = noaccount
  NoThread = nothread
INVARIANTS TypeOK IdsRestored AccessAsUser OwnerKept OneLogHandle OwnLog LogArrives CodeReplyGranted PasswordForwarded GrantedOnACode
