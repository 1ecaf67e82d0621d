SPECIFICATION ModerationSpec
CONSTANTS
    Upload = {u1, u2}
    Worker = {w1}
    Nobody = nobody
    Archives <- SomeArchives
    Asked = {1}
    Class <- Styles
    TopMin = 34
    TopMargin = 5
    StyleMin = 60
    PhotoMin = 70
    PhotoMax = 90
    PhotoMargin = 1
    ExplicitMin = 70
    ExplicitMax = 90
    Retry = 1
INVARIANT PublishedAsJudged
PROPERTY Recovers
