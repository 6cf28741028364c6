SPECIFICATION Spec
CONSTANTS
    Projects = {p1, p2, p3}
    Requests = {r1, r2}
    Repos = {a, b}
    Answers <- MCAnswers
    MaxProjects = 2
    MaxRepos = 1
    None = None
SYMMETRY Symmetry
CONSTRAINT OneEnvelope
PROPERTIES
    SignInReusesTheProject
    ChoiceLostOnlyByOverlap
